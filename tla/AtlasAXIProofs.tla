---------------------------- MODULE AtlasAXIProofs ----------------------------
(* For any widths, words, strobes and registers, and a master that presents  *)
(* no data before its address: writes land where they were sent, each is     *)
(* answered once, and reads return them.                                     *)
EXTENDS AtlasAXI, TLAPS

-----------------------------------------------------------------------------
(* What a strobed write does to the registers *)

LEMMA StrobedType ==
  ASSUME NEW regs \in [Regs -> Words], NEW r \in Regs,
         NEW data \in Words, NEW strb
  PROVE  Strobed(regs, r, data, strb) \in [Regs -> Words]
  BY DEF Strobed, Words

\* The slave may store a word at several edges: it shows WVALID until the
\* handshake, but repeating the same write changes nothing.
LEMMA StrobedTwice ==
  ASSUME NEW regs \in [Regs -> Words], NEW r \in Regs,
         NEW data \in Words, NEW strb
  PROVE  Strobed(Strobed(regs, r, data, strb), r, data, strb)
           = Strobed(regs, r, data, strb)
  BY DEF Strobed, Words

LEMMA WriteFields ==
  ASSUME NEW x \in Writes
  PROVE  x.addr \in Regs /\ x.data \in Words
  BY AXIAssumption DEF Writes

-----------------------------------------------------------------------------
(* The inductive invariant, one part for each concern *)

\* Where the slave's write state machine is, seen from the master: in Wdata
\* exactly between the two handshakes of a write, whose address it has latched.
WriteControl ==
  /\ axi_awready <=> state_write = "Waddr"
  /\ axi_wready <=> state_write # "Idle"
  /\ state_write = "Wdata" <=> (write # NoWrite /\ aw = "accepted")
  /\ state_write = "Wdata" => axi_awaddr = write.addr
  /\ write # NoWrite => w # "accepted" /\ (w = "valid" => aw # "later")

\* A write starts only when its predecessor's response is being taken, so the
\* one bit axi_bvalid is enough to count them.
WriteResponses ==
  /\ OneResponseEach
  /\ state_write = "Idle" => ~axi_bvalid
  /\ unanswered = 1 /\ write # NoWrite => bready

ReadControl ==
  /\ axi_arready <=> state_read = "Raddr"
  /\ axi_rvalid <=> state_read = "Rdata"
  /\ axi_rvalid <=> (read # NoRead /\ ar = "accepted")
  /\ axi_rvalid => axi_araddr = read

AXIInv ==
  /\ AXITypeOK
  /\ WriteControl
  /\ WriteResponses
  /\ ReadControl
  /\ RegistersHoldTheWrites

LEMMA ZeroType == ZeroRegisters \in [Regs -> Words]
  BY DEF ZeroRegisters, Words, Bit

LEMMA InitEstablishes == AXIInit => AXIInv
<1> SUFFICES ASSUME AXIInit PROVE AXIInv
  OBVIOUS
<1> USE DEF AXIInit
<1>1. AXITypeOK
  BY ZeroType DEF AXITypeOK, Phases
<1>2. WriteControl
  BY DEF WriteControl
<1>3. WriteResponses
  BY DEF WriteResponses, OneResponseEach
<1>4. ReadControl
  BY DEF ReadControl
<1>5. RegistersHoldTheWrites
  BY DEF RegistersHoldTheWrites
<1> QED BY <1>1, <1>2, <1>3, <1>4, <1>5 DEF AXIInv

LEMMA ResetEstablishes ==
  ASSUME AXIInv, ResetEdge PROVE AXIInv'
<1> USE DEF ResetEdge
<1>1. AXITypeOK'
  BY ZeroType DEF AXIInv, AXITypeOK, Phases
<1>2. WriteControl'
  BY DEF WriteControl
<1>3. WriteResponses'
  BY DEF WriteResponses, OneResponseEach
<1>4. ReadControl'
  BY DEF ReadControl
<1>5. RegistersHoldTheWrites'
  BY DEF RegistersHoldTheWrites
<1> QED BY <1>1, <1>2, <1>3, <1>4, <1>5 DEF AXIInv

-----------------------------------------------------------------------------
(* The clock edge *)

LEMMA EdgeWriteControl ==
  ASSUME AXIInv, ClockEdge
  PROVE  WriteControl'
<1> USE DEF AXIInv, AXITypeOK, WriteControl, Phases, MasterWrites, Completes,
        AWTaken, WTaken, AWVALID, WVALID
<1>1. CASE WriteAddress
  BY <1>1 DEF ClockEdge, WriteAddress
<1>2. CASE WriteWaits
  BY <1>2 DEF ClockEdge, WriteWaits
<1>3. CASE WriteDataLate
  BY <1>3 DEF ClockEdge, WriteDataLate
<1>4. CASE WriteIdle
  BY <1>4 DEF ClockEdge, WriteIdle
<1> QED BY <1>1, <1>2, <1>3, <1>4 DEF ClockEdge

\* The slave raises axi_bvalid at exactly the edges that complete a write.
LEMMA EdgeRaisesResponse ==
  ASSUME AXIInv, ClockEdge
  PROVE  /\ axi_bvalid' <=> (Completes \/ (axi_bvalid /\ ~bready))
         /\ state_write' # "Idle"
<1> USE DEF AXIInv, AXITypeOK, WriteControl, WriteResponses, Phases, Completes,
        AWTaken, WTaken, AWVALID, WVALID
<1>1. CASE WriteAddress
  BY <1>1 DEF WriteAddress
<1>2. CASE WriteWaits
  BY <1>2 DEF WriteWaits
<1>3. CASE WriteDataLate
  BY <1>3 DEF WriteDataLate
<1>4. CASE WriteIdle
  BY <1>4 DEF WriteIdle
<1> QED BY <1>1, <1>2, <1>3, <1>4 DEF ClockEdge

LEMMA EdgeWriteResponses ==
  ASSUME AXIInv, ClockEdge
  PROVE  WriteResponses'
<1>1. /\ unanswered \in {0, 1}
      /\ axi_bvalid <=> unanswered = 1
      /\ unanswered = 1 /\ write # NoWrite => bready
      /\ Completes => write # NoWrite
  BY DEF AXIInv, AXITypeOK, WriteResponses, OneResponseEach, Completes
<1>2. /\ unanswered' = unanswered + (IF Completes THEN 1 ELSE 0)
                                  - (IF Answered /\ unanswered > 0 THEN 1 ELSE 0)
      /\ write' = IF Completes THEN NoWrite ELSE write
      /\ ~Answered => bready' = bready
  BY DEF ClockEdge, MasterWrites
<1>3. unanswered' = IF Completes \/ (axi_bvalid /\ ~bready) THEN 1 ELSE 0
  BY <1>1, <1>2 DEF Answered
<1>4. OneResponseEach' /\ (state_write' = "Idle" => ~axi_bvalid')
  BY <1>3, EdgeRaisesResponse DEF OneResponseEach
<1>5. unanswered' = 1 /\ write' # NoWrite => bready'
  BY <1>1, <1>2, <1>3 DEF Answered
<1> QED BY <1>4, <1>5 DEF WriteResponses

LEMMA EdgeReadControl ==
  ASSUME AXIInv, ClockEdge
  PROVE  ReadControl'
<1> USE DEF AXIInv, AXITypeOK, ReadControl, MasterReads, ARVALID
<1>1. CASE ReadAccepts
  BY <1>1 DEF ClockEdge, ReadAccepts
<1>2. CASE ReadEnds
  BY <1>2 DEF ClockEdge, ReadEnds
<1>3. CASE ReadIdle
  BY <1>3 DEF ClockEdge, ReadIdle
<1>4. CASE ReadWaits
  BY <1>4 DEF ClockEdge, ReadWaits, readVars
<1> QED BY <1>1, <1>2, <1>3, <1>4 DEF ClockEdge

\* Whenever WVALID is high, the register selected is the one addressed.
LEMMA SelectsAddressed ==
  ASSUME AXIInv, WVALID
  PROVE  /\ write \in Writes
         /\ mem_logic = write.addr
  BY DEF AXIInv, AXITypeOK, WriteControl, WVALID, AWVALID, mem_logic, Phases

LEMMA EdgeRegisters ==
  ASSUME AXIInv, ClockEdge
  PROVE  /\ slv_reg' \in [Regs -> Words]
         /\ written' \in [Regs -> Words]
         /\ RegistersHoldTheWrites'
<1> USE DEF AXIInv, AXITypeOK
<1> DEFINE Stored(regs) == Strobed(regs, write.addr, write.data, write.strb)
<1>1. CASE WVALID
  <2>1. /\ write \in Writes /\ write # NoWrite
        /\ slv_reg' = Stored(slv_reg)
    BY <1>1, SelectsAddressed DEF ClockEdge, WriteRegisters, WVALID
  <2>2. slv_reg \in {written, Stored(written)}
    BY <2>1 DEF RegistersHoldTheWrites, WithWrite
  <2>3. Stored(written) \in [Regs -> Words] /\ Stored(Stored(written)) = Stored(written)
    BY <2>1, WriteFields, StrobedType, StrobedTwice
  <2>4. slv_reg' = Stored(written)
    BY <2>1, <2>2, <2>3
  <2>5. CASE Completes
    <3>1. written' = Stored(written)
      BY <2>5 DEF ClockEdge, MasterWrites
    <3> QED BY <2>3, <2>4, <3>1 DEF RegistersHoldTheWrites
  <2>6. CASE ~Completes
    <3>1. written' = written /\ write' = write
      BY <2>6 DEF ClockEdge, MasterWrites
    <3> QED BY <2>1, <2>3, <2>4, <3>1 DEF RegistersHoldTheWrites, WithWrite
  <2> QED BY <2>5, <2>6
<1>2. CASE ~WVALID
  <2>1. ~Completes
    BY <1>2 DEF Completes, WTaken, WriteControl
  <2>2. written' = written /\ write' = write /\ slv_reg' = slv_reg
    BY <1>2, <2>1 DEF ClockEdge, MasterWrites, WriteRegisters
  <2> QED BY <2>2 DEF RegistersHoldTheWrites, WithWrite
<1> QED BY <1>1, <1>2

LEMMA EdgeTypes ==
  ASSUME AXIInv, ClockEdge
  PROVE  AXITypeOK'
<1>6. slv_reg' \in [Regs -> Words] /\ written' \in [Regs -> Words]
  BY EdgeRegisters
<1> USE DEF AXIInv, AXITypeOK
<1>1. /\ state_write' \in {"Idle", "Waddr", "Wdata"} /\ axi_awaddr' \in Regs
      /\ axi_awready' \in BOOLEAN /\ axi_wready' \in BOOLEAN
      /\ axi_bvalid' \in BOOLEAN
  BY WriteFields DEF ClockEdge, WriteAddress, WriteWaits, WriteDataLate, WriteIdle,
     AWVALID, WVALID
<1>2. /\ state_read' \in {"Idle", "Raddr", "Rdata"} /\ axi_araddr' \in Regs
      /\ axi_arready' \in BOOLEAN /\ axi_rvalid' \in BOOLEAN
  BY AXIAssumption DEF ClockEdge, ReadAccepts, ReadEnds, ReadIdle, ReadWaits, readVars,
     ARVALID
<1>3. /\ write' \in Writes \cup {NoWrite} /\ aw' \in Phases /\ w' \in Phases
      /\ bready' \in BOOLEAN
  BY DEF ClockEdge, MasterWrites, Phases
<1>4. unanswered' \in Nat
  BY DEF ClockEdge, MasterWrites
<1>5. /\ read' \in ReadAddresses \cup {NoRead} /\ ar' \in {"valid", "accepted"}
      /\ rready' \in BOOLEAN
  BY DEF ClockEdge, MasterReads
<1> HIDE DEF AXIInv
<1> QED BY <1>1, <1>2, <1>3, <1>4, <1>5, <1>6

LEMMA EdgePreserves ==
  ASSUME AXIInv, ClockEdge PROVE AXIInv'
  BY EdgeTypes, EdgeWriteControl, EdgeWriteResponses, EdgeReadControl, EdgeRegisters
     DEF AXIInv

-----------------------------------------------------------------------------
(* The master between edges *)

LEMMA StartWritePreserves ==
  ASSUME AXIInv, StartWrite PROVE AXIInv'
<1> USE DEF AXIInv, StartWrite, slaveVars, writeVars, readVars
<1>1. AXITypeOK'
  BY DEF AXITypeOK, Phases
<1>2. WriteControl'
  BY DEF WriteControl
<1>3. WriteResponses' /\ ReadControl'
  BY AXIAssumption DEF WriteResponses, OneResponseEach, ReadControl, AXITypeOK
<1>4. RegistersHoldTheWrites'
  BY DEF RegistersHoldTheWrites, WithWrite
<1> QED BY <1>1, <1>2, <1>3, <1>4

LEMMA PresentPreserves ==
  ASSUME AXIInv, AddressFirst, PresentAddress \/ PresentData PROVE AXIInv'
<1> USE DEF AXIInv, PresentAddress, PresentData, slaveVars, writeVars, readVars
<1>1. AXITypeOK'
  BY DEF AXITypeOK, Phases
<1>2. WriteControl'
  BY DEF WriteControl, AXITypeOK, Phases
<1>3. WriteResponses' /\ ReadControl'
  BY DEF WriteResponses, OneResponseEach, ReadControl
<1>4. RegistersHoldTheWrites'
  BY DEF RegistersHoldTheWrites, WithWrite
<1> QED BY <1>1, <1>2, <1>3, <1>4

LEMMA TakePreserves ==
  ASSUME AXIInv, TakeResponse \/ TakeData \/ UNCHANGED axiVars PROVE AXIInv'
<1> USE DEF AXIInv, TakeResponse, TakeData, axiVars, masterVars, slaveVars, writeVars,
        readVars
<1>1. AXITypeOK'
  <2>1. CASE TakeResponse
    BY <2>1 DEF AXITypeOK
  <2>2. CASE TakeData
    BY <2>2 DEF AXITypeOK
  <2>3. CASE UNCHANGED axiVars
    BY <2>3 DEF AXITypeOK
  <2> QED BY <2>1, <2>2, <2>3
<1>2. WriteControl' /\ ReadControl'
  BY DEF WriteControl, ReadControl
<1>3. WriteResponses'
  BY DEF WriteResponses, OneResponseEach
<1>4. RegistersHoldTheWrites'
  BY DEF RegistersHoldTheWrites, WithWrite
<1> QED BY <1>1, <1>2, <1>3, <1>4

LEMMA StartReadPreserves ==
  ASSUME AXIInv, StartRead PROVE AXIInv'
<1> USE DEF AXIInv, StartRead, slaveVars, writeVars, readVars
<1>1. AXITypeOK'
  BY DEF AXITypeOK
<1>2. WriteControl' /\ ReadControl'
  BY AXIAssumption DEF WriteControl, ReadControl, AXITypeOK
<1>3. WriteResponses'
  BY DEF WriteResponses, OneResponseEach
<1>4. RegistersHoldTheWrites'
  BY DEF RegistersHoldTheWrites, WithWrite
<1> QED BY <1>1, <1>2, <1>3, <1>4

LEMMA InvariantHolds ==
  ASSUME AddressFirst
  PROVE  AXISpec => []AXIInv
<1>1. AXIInv /\ [AXINext]_axiVars => AXIInv'
  BY EdgePreserves, ResetEstablishes, StartWritePreserves, PresentPreserves,
     TakePreserves, StartReadPreserves DEF AXINext
<1> QED BY <1>1, InitEstablishes, PTL DEF AXISpec

-----------------------------------------------------------------------------

\* A write lands in the register it addressed, at whichever edges its address
\* and data come, if the address is presented no later than the data.
THEOREM WritesLandWhereSent ==
  ASSUME AddressFirst
  PROVE  AXISpec => []RegistersHoldTheWrites
<1>1. AXIInv => RegistersHoldTheWrites
  BY DEF AXIInv
<1> QED BY <1>1, InvariantHolds, PTL

\* No response is lost, repeated or given early by the Waddr and Wdata states.
THEOREM ResponsesAreCounted ==
  ASSUME AddressFirst
  PROVE  AXISpec => []OneResponseEach
<1>1. AXIInv => OneResponseEach
  BY DEF AXIInv, WriteResponses
<1> QED BY <1>1, InvariantHolds, PTL

\* The read channel shows the requested register with the completed writes, or
\* with the one under way as well.
THEOREM ReadsReturnTheWrites ==
  ASSUME AddressFirst
  PROVE  AXISpec => []ReadsSeeTheWrites
<1>1. AXIInv => ReadsSeeTheWrites
  BY DEF AXIInv, ReadControl, RegistersHoldTheWrites, ReadsSeeTheWrites, RDATA
<1> QED BY <1>1, InvariantHolds, PTL

\* The state machines stay in their states and the latched addresses among the
\* registers, resets at any moment included.
THEOREM SlaveIsTyped ==
  ASSUME AddressFirst
  PROVE  AXISpec => []AXITypeOK
<1>1. AXIInv => AXITypeOK
  BY DEF AXIInv
<1> QED BY <1>1, InvariantHolds, PTL
=============================================================================
