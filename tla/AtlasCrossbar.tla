---------------------------- MODULE AtlasCrossbar ----------------------------
(***************************************************************************)
(* hardware/Vivado/ip_repository/ATLAS/crossbar_map_tri.vhd: the crossbar  *)
(* that connects the tenants' virtual pins to the board's physical pads.   *)
(*                                                                         *)
(* Its ports change at any time; only the registers wait for the clock.    *)
(* What the synthesised circuit computes is modelled: signals assigned in  *)
(* combinational processes are operators of the registers and the ports.   *)
(* owner_map is the port after gen_extract: one number for each pad.       *)
(***************************************************************************)
EXTENDS Integers, FiniteSetsExt

CONSTANTS
  N_PINS,         \* physical pads 0 .. N_PINS-1
  N_VPIN_TOTAL,   \* virtual pins; the numbers in the map are 1 .. N_VPIN_TOTAL
  MapMax,         \* 2^MAP_WIDTH - 1
  SYNC_INPUT      \* whether the pads are sampled before they are routed

\* The last conjunct is the design's own assertion, CHECK_WIDTH.
ASSUME AtlasAssumption ==
  /\ N_PINS \in Nat
  /\ N_VPIN_TOTAL \in Nat
  /\ MapMax \in Nat
  /\ SYNC_INPUT \in BOOLEAN
  /\ N_VPIN_TOTAL <= MapMax

Pads == 0 .. N_PINS - 1
VPins == 1 .. N_VPIN_TOTAL
Bit == {0, 1}

VARIABLES
  owner_map, pad_oe,               \* configuration ports
  vpin_o, vpin_t,                  \* what the tenants put out
  outside,                         \* the level the board puts on each pad
  map_array_reg, unique_map, pad_in_reg

inputs == <<owner_map, pad_oe, vpin_o, vpin_t, outside>>
registers == <<map_array_reg, unique_map, pad_in_reg>>
atlasVars == <<inputs, registers>>

AtlasTypeOK ==
  /\ owner_map \in [Pads -> 0 .. MapMax]
  /\ pad_oe \in [Pads -> Bit]
  /\ vpin_o \in [VPins -> Bit]
  /\ vpin_t \in [VPins -> Bit]
  /\ outside \in [Pads -> Bit]
  /\ map_array_reg \in [Pads -> 0 .. MapMax]
  /\ unique_map \in [Pads -> BOOLEAN]
  /\ pad_in_reg \in [Pads -> Bit]

-----------------------------------------------------------------------------
(* Combinational signals *)

\* Mutant: of the registered map, one clock behind the map it is stored with.
UniqueOfRegistered(i) ==
  /\ map_array_reg[i] \in VPins
  /\ \A j \in Pads \ {i} : map_array_reg[j] # map_array_reg[i]

\* Of the map on the port, not of the registered one.
unique_map_comb(i) ==
  /\ owner_map[i] \in VPins
  /\ \A j \in Pads \ {i} : owner_map[j] # owner_map[i]

Connected(i) == unique_map[i] /\ map_array_reg[i] \in VPins

\* Mutant: follows the map on the port.
DrivesUnregistered(i) ==
  unique_map_comb(i) /\ pad_oe[i] = 1 /\ vpin_t[owner_map[i]] = 0

pad_drive(i) ==
  Connected(i) /\ pad_oe[i] = 1 /\ vpin_t[map_array_reg[i]] = 0

pad_io(i) == IF pad_drive(i) THEN vpin_o[map_array_reg[i]] ELSE outside[i]

pad_in(i) == IF SYNC_INPUT THEN pad_in_reg[i] ELSE pad_io(i)

\* Mutant: routes pads that share a number too.
SharedSources(v) == {i \in Pads : map_array_reg[i] = v}

\* The loop over the pads overwrites: the last pad connected to v wins.
Sources(v) == {i \in Pads : Connected(i) /\ map_array_reg[i] = v}
vpin_i(v) == IF Sources(v) = {} THEN 0 ELSE pad_in(Max(Sources(v)))

-----------------------------------------------------------------------------

\* rst_n, asynchronous.
Reset ==
  /\ map_array_reg' = [i \in Pads |-> 0]
  /\ unique_map' = [i \in Pads |-> FALSE]
  /\ pad_in_reg' = [i \in Pads |-> 0]
  /\ UNCHANGED inputs

ClockEdge ==
  /\ map_array_reg' = owner_map
  /\ unique_map' = [i \in Pads |-> unique_map_comb(i)]
  /\ pad_in_reg' = [i \in Pads |-> pad_io(i)]
  /\ UNCHANGED inputs

\* One register write may move several pads at once.
Remap ==
  /\ owner_map' \in [Pads -> 0 .. MapMax]
  /\ UNCHANGED <<pad_oe, vpin_o, vpin_t, outside, registers>>

Enable(i, b) ==
  /\ pad_oe' = [pad_oe EXCEPT ![i] = b]
  /\ UNCHANGED <<owner_map, vpin_o, vpin_t, outside, registers>>

TenantDrives(v, o, t) ==
  /\ vpin_o' = [vpin_o EXCEPT ![v] = o]
  /\ vpin_t' = [vpin_t EXCEPT ![v] = t]
  /\ UNCHANGED <<owner_map, pad_oe, outside, registers>>

BoardDrives(i, b) ==
  /\ outside' = [outside EXCEPT ![i] = b]
  /\ UNCHANGED <<owner_map, pad_oe, vpin_o, vpin_t, registers>>

\* The ports are zero until somebody drives them and reset has been applied.
AtlasInit ==
  /\ owner_map = [i \in Pads |-> 0]
  /\ pad_oe = [i \in Pads |-> 0]
  /\ vpin_o = [v \in VPins |-> 0]
  /\ vpin_t = [v \in VPins |-> 0]
  /\ outside = [i \in Pads |-> 0]
  /\ map_array_reg = [i \in Pads |-> 0]
  /\ unique_map = [i \in Pads |-> FALSE]
  /\ pad_in_reg = [i \in Pads |-> 0]

AtlasNext ==
  \/ Reset \/ ClockEdge \/ Remap
  \/ \E i \in Pads, b \in Bit : Enable(i, b) \/ BoardDrives(i, b)
  \/ \E v \in VPins, o, t \in Bit : TenantDrives(v, o, t)

AtlasSpec == AtlasInit /\ [][AtlasNext]_atlasVars

-----------------------------------------------------------------------------
(* Properties *)

\* A virtual pin reaches at most one pad and a pad at most one virtual pin,
\* whenever the map on the port changes and whatever it says: the uniqueness
\* of a pad is computed from one map and used with another.
OnePadPerVPin ==
  \A i, j \in Pads :
    Connected(i) /\ Connected(j) /\ map_array_reg[i] = map_array_reg[j] => i = j

\* A connected virtual pin reads its own pad, although the routing loop lets a
\* later pad overwrite an earlier one; any other virtual pin reads 0.
InputsAreRouted ==
  /\ \A i \in Pads : Connected(i) => vpin_i(map_array_reg[i]) = pad_in(i)
  /\ \A v \in VPins :
       (\A i \in Pads : Connected(i) => map_array_reg[i] # v) => vpin_i(v) = 0

\* "Crossbar ... con configurazione glitch-free" (crossbar_map_tri.vhd:1):
\* between clock edges and resets, the FPGA starts or stops driving a pad, or
\* drives another level on it, only when that pad's enable or the virtual pin
\* connected to it changes.  A new map alone moves nothing, and neither does a
\* tenant that is connected elsewhere.
PadsAreGlitchFree ==
  [][\A i \in Pads :
       (/\ UNCHANGED registers
        /\ pad_oe'[i] = pad_oe[i]
        /\ Connected(i) => /\ vpin_o'[map_array_reg[i]] = vpin_o[map_array_reg[i]]
                           /\ vpin_t'[map_array_reg[i]] = vpin_t[map_array_reg[i]])
       => /\ pad_drive(i)' = pad_drive(i)
          /\ pad_drive(i) => pad_io(i)' = pad_io(i)]_atlasVars
=============================================================================
