------------------------- MODULE AtlasCrossbarProofs -------------------------
(* For any number of pads and virtual pins, with and without the input      *)
(* registers: the registered uniqueness bit is true of the registered map.  *)
EXTENDS AtlasCrossbar, TLAPS

\* OnePadPerVPin alone says nothing of a pad that is not connected, but the
\* two registers keep more: a pad marked unique shares its number with no pad.
RegisteredUnique ==
  \A i \in Pads : unique_map[i] =>
    \A j \in Pads \ {i} : map_array_reg[j] # map_array_reg[i]

AtlasInv ==
  /\ AtlasTypeOK
  /\ RegisteredUnique

LEMMA PadIsABit ==
  ASSUME AtlasTypeOK, NEW i \in Pads
  PROVE  pad_io(i) \in Bit
  BY DEF AtlasTypeOK, pad_io, pad_drive, Connected, VPins, Bit

LEMMA InitEstablishes == AtlasInit => AtlasInv
  BY AtlasAssumption
     DEF AtlasInit, AtlasInv, AtlasTypeOK, RegisteredUnique, Pads, VPins, Bit

LEMMA RegistersUntouched ==
  ASSUME AtlasInv, UNCHANGED registers, AtlasTypeOK'
  PROVE  AtlasInv'
  BY DEF AtlasInv, RegisteredUnique, registers

LEMMA StepPreserves ==
  ASSUME AtlasInv, [AtlasNext]_atlasVars
  PROVE  AtlasInv'
<1> USE DEF AtlasInv, AtlasTypeOK
<1>1. CASE Reset
  BY <1>1, AtlasAssumption DEF Reset, RegisteredUnique, inputs, Bit
<1>2. CASE ClockEdge
  <2>1. AtlasTypeOK'
    BY <1>2, PadIsABit DEF ClockEdge, inputs, unique_map_comb
  <2>2. RegisteredUnique'
    BY <1>2 DEF ClockEdge, RegisteredUnique, unique_map_comb
  <2> QED BY <2>1, <2>2
<1>3. CASE Remap
  BY <1>3, RegistersUntouched DEF Remap, registers
<1>4. ASSUME NEW i \in Pads, NEW b \in Bit, Enable(i, b) \/ BoardDrives(i, b)
      PROVE  AtlasInv'
  BY <1>4, RegistersUntouched DEF Enable, BoardDrives, registers
<1>5. ASSUME NEW v \in VPins, NEW o \in Bit, NEW t \in Bit, TenantDrives(v, o, t)
      PROVE  AtlasInv'
  BY <1>5, RegistersUntouched DEF TenantDrives, registers
<1>6. CASE UNCHANGED atlasVars
  BY <1>6, RegistersUntouched DEF atlasVars, inputs, registers
<1> QED
  BY <1>1, <1>2, <1>3, <1>4, <1>5, <1>6 DEF AtlasNext

LEMMA InvariantHolds == AtlasSpec => []AtlasInv
  BY InitEstablishes, StepPreserves, PTL DEF AtlasSpec

-----------------------------------------------------------------------------

LEMMA InvGivesOnePad == AtlasInv => OnePadPerVPin
  BY DEF AtlasInv, RegisteredUnique, OnePadPerVPin, Connected

\* Whatever maps the configuration port runs through, a virtual pin reaches
\* at most one pad (gen_unique and the configuration registers).
THEOREM OnePadAlways == AtlasSpec => []OnePadPerVPin
  BY InvariantHolds, InvGivesOnePad, PTL

LEMMA MaxOfOne ==
  ASSUME NEW i \in Int
  PROVE  Max({i}) = i
  BY DEF Max

\* The routing loop never has two pads to choose between, so its order does
\* not matter: each connected virtual pin reads its own pad, the rest read 0.
THEOREM InputsAlwaysRouted == AtlasSpec => []InputsAreRouted
<1>1. ASSUME AtlasInv PROVE InputsAreRouted
  <2>1. ASSUME NEW i \in Pads, Connected(i)
        PROVE  vpin_i(map_array_reg[i]) = pad_in(i)
    <3>1. Sources(map_array_reg[i]) = {i}
      BY <1>1, <2>1 DEF AtlasInv, RegisteredUnique, Sources, Connected
    <3>2. Max(Sources(map_array_reg[i])) = i
      BY <3>1, MaxOfOne DEF Pads
    <3> QED BY <3>1, <3>2 DEF vpin_i
  <2>2. ASSUME NEW v \in VPins, \A i \in Pads : Connected(i) => map_array_reg[i] # v
        PROVE  vpin_i(v) = 0
    BY <2>2 DEF vpin_i, Sources
  <2> QED BY <2>1, <2>2 DEF InputsAreRouted
<1> QED BY <1>1, InvariantHolds, PTL

\* Every signal keeps its width: a map entry, whatever was written to the
\* registers of the slave, is a number of the map's width.
THEOREM SignalsAreTyped == AtlasSpec => []AtlasTypeOK
<1>1. AtlasInv => AtlasTypeOK
  BY DEF AtlasInv
<1> QED BY <1>1, InvariantHolds, PTL

\* Between clock edges and resets what drives a pad is read from the registers and
\* from the connected virtual pin alone: neither a new map nor another tenant moves
\* a pad (pad_drive and pad_io of crossbar_map_tri.vhd).
THEOREM NoPadGlitches == AtlasSpec => PadsAreGlitchFree
<1> DEFINE Steady(i) ==
      /\ UNCHANGED registers
      /\ pad_oe'[i] = pad_oe[i]
      /\ Connected(i) => /\ vpin_o'[map_array_reg[i]] = vpin_o[map_array_reg[i]]
                         /\ vpin_t'[map_array_reg[i]] = vpin_t[map_array_reg[i]]
<1>1. ASSUME NEW i \in Pads, Steady(i)
      PROVE  /\ pad_drive(i)' = pad_drive(i)
             /\ pad_drive(i) => pad_io(i)' = pad_io(i)
  <2>1. Connected(i)' = Connected(i) /\ map_array_reg' = map_array_reg
    BY <1>1 DEF Connected, registers
  <2>2. pad_drive(i)' = pad_drive(i)
    BY <1>1, <2>1 DEF pad_drive
  <2>3. pad_drive(i) => pad_io(i)' = pad_io(i)
    BY <1>1, <2>1, <2>2 DEF pad_io, pad_drive
  <2> QED BY <2>2, <2>3
<1>2. [AtlasNext]_atlasVars =>
        [\A i \in Pads : Steady(i) => /\ pad_drive(i)' = pad_drive(i)
                                      /\ pad_drive(i) => pad_io(i)' = pad_io(i)]_atlasVars
  BY <1>1
<1> QED BY <1>2, PTL DEF AtlasSpec, PadsAreGlitchFree
=============================================================================
