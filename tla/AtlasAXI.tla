------------------------------- MODULE AtlasAXI -------------------------------
(***************************************************************************)
(* .../ATLAS/hdl/Pmod_JA1_arbiter_AXI_slave_lite_v1_0_S00_AXI.vhd: the     *)
(* AXI4-Lite slave whose registers hold the crossbar's map and enables.    *)
(*                                                                         *)
(* ClockEdge is one rising edge: every clocked process of the slave, and   *)
(* the handshakes the master sees at it.  Between edges the master changes *)
(* its outputs; of the master only what the protocol and the slave's       *)
(* comments ask of it is modelled.                                         *)
(***************************************************************************)
EXTENDS Integers

CONSTANTS
  N_PINS, MAP_WIDTH, C_S_AXI_DATA_WIDTH,
  LANE_WIDTH,                       \* bits for each write strobe
  WriteAddresses, ReadAddresses,    \* registers the master uses
  WriteData, WriteStrobes,          \* words and sets of lanes it writes
  AddressFirst,                     \* it presents no data before the address
  NoWrite, NoRead                   \* no transaction in progress

Regs == 0 .. 3
Bits == 0 .. C_S_AXI_DATA_WIDTH - 1
Bit == {0, 1}
Words == [Bits -> Bit]
Lane(b) == b \div LANE_WIDTH
Lanes == {Lane(b) : b \in Bits}
Writes == [addr : WriteAddresses, data : WriteData, strb : WriteStrobes]

\* The map fits the three registers it is cut from, the enables fit one.
ASSUME AXIAssumption ==
  /\ N_PINS \in Nat /\ MAP_WIDTH \in Nat
  /\ C_S_AXI_DATA_WIDTH \in Nat \ {0} /\ LANE_WIDTH \in Nat \ {0}
  /\ N_PINS * MAP_WIDTH <= 3 * C_S_AXI_DATA_WIDTH
  /\ N_PINS <= C_S_AXI_DATA_WIDTH
  /\ WriteAddresses \subseteq Regs /\ ReadAddresses \subseteq Regs
  /\ WriteData \subseteq Words /\ WriteStrobes \subseteq SUBSET Lanes
  /\ AddressFirst \in BOOLEAN
  /\ NoWrite \notin Writes /\ NoRead \notin ReadAddresses

VARIABLES
  state_write, axi_awready, axi_wready, axi_bvalid, axi_awaddr,
  state_read, axi_arready, axi_rvalid, axi_araddr,
  slv_reg,
  write, aw, w, bready,      \* the master's write and its three channels
  read, ar, rready,          \* its read
  written,                   \* observed: what its completed writes add up to
  unanswered                 \* observed: completed writes without a response

writeVars == <<state_write, axi_awready, axi_wready, axi_bvalid, axi_awaddr>>
readVars == <<state_read, axi_arready, axi_rvalid, axi_araddr>>
slaveVars == <<writeVars, readVars, slv_reg>>
masterVars == <<write, aw, w, bready, read, ar, rready, written, unanswered>>
axiVars == <<slaveVars, masterVars>>

Phases == {"later", "valid", "accepted"}

AXITypeOK ==
  /\ state_write \in {"Idle", "Waddr", "Wdata"} /\ axi_awaddr \in Regs
  /\ axi_awready \in BOOLEAN /\ axi_wready \in BOOLEAN /\ axi_bvalid \in BOOLEAN
  /\ state_read \in {"Idle", "Raddr", "Rdata"} /\ axi_araddr \in Regs
  /\ axi_arready \in BOOLEAN /\ axi_rvalid \in BOOLEAN
  /\ slv_reg \in [Regs -> Words] /\ written \in [Regs -> Words]
  /\ write \in Writes \cup {NoWrite} /\ aw \in Phases /\ w \in Phases
  /\ read \in ReadAddresses \cup {NoRead} /\ ar \in {"valid", "accepted"}
  /\ bready \in BOOLEAN /\ rready \in BOOLEAN /\ unanswered \in Nat

AWVALID == write # NoWrite /\ aw = "valid"
WVALID == write # NoWrite /\ w = "valid"
ARVALID == read # NoRead /\ ar = "valid"

-----------------------------------------------------------------------------
(* The slave at a clock edge *)

WriteAddress ==
  /\ state_write = "Waddr" /\ AWVALID /\ axi_awready
  /\ axi_awaddr' = write.addr
  /\ axi_bvalid' = (WVALID \/ (axi_bvalid /\ ~bready))
  /\ axi_awready' = WVALID
  /\ state_write' = IF WVALID THEN "Waddr" ELSE "Wdata"
  /\ UNCHANGED axi_wready

\* Mutant: gives the response again until the next write.
RepeatsResponse ==
  /\ \/ state_write = "Waddr" /\ ~(AWVALID /\ axi_awready)
     \/ state_write = "Wdata" /\ ~WVALID
  /\ UNCHANGED writeVars

WriteWaits ==
  /\ \/ state_write = "Waddr" /\ ~(AWVALID /\ axi_awready)
     \/ state_write = "Wdata" /\ ~WVALID
  /\ axi_bvalid' = (axi_bvalid /\ ~bready)
  /\ UNCHANGED <<state_write, axi_awready, axi_wready, axi_awaddr>>

\* Mutant: forgets to raise axi_awready again.
AcceptsOnce ==
  /\ state_write = "Wdata" /\ WVALID
  /\ state_write' = "Waddr" /\ axi_bvalid' = TRUE
  /\ UNCHANGED <<axi_awready, axi_wready, axi_awaddr>>

WriteDataLate ==
  /\ state_write = "Wdata" /\ WVALID
  /\ state_write' = "Waddr" /\ axi_bvalid' = TRUE /\ axi_awready' = TRUE
  /\ UNCHANGED <<axi_wready, axi_awaddr>>

WriteIdle ==
  /\ state_write = "Idle"
  /\ state_write' = "Waddr" /\ axi_awready' = TRUE /\ axi_wready' = TRUE
  /\ UNCHANGED <<axi_bvalid, axi_awaddr>>

\* Mutant: the address latched last, also when a new one is on the bus.
mem_latched == axi_awaddr

mem_logic == IF AWVALID THEN write.addr ELSE axi_awaddr

Strobed(regs, r, data, strb) ==
  [regs EXCEPT ![r] = [b \in Bits |-> IF Lane(b) \in strb THEN data[b] ELSE @[b]]]

\* The write enable is WVALID alone.
WriteRegisters ==
  slv_reg' = IF WVALID THEN Strobed(slv_reg, mem_logic, write.data, write.strb)
                       ELSE slv_reg

\* Mutant: answers from the register read last.
ReadsLastAddress ==
  /\ state_read = "Raddr" /\ ARVALID /\ axi_arready
  /\ state_read' = "Rdata" /\ axi_rvalid' = TRUE /\ axi_arready' = FALSE
  /\ UNCHANGED axi_araddr

ReadAccepts ==
  /\ state_read = "Raddr" /\ ARVALID /\ axi_arready
  /\ state_read' = "Rdata" /\ axi_rvalid' = TRUE /\ axi_arready' = FALSE
  /\ axi_araddr' = read

ReadEnds ==
  /\ state_read = "Rdata" /\ axi_rvalid /\ rready
  /\ state_read' = "Raddr" /\ axi_rvalid' = FALSE /\ axi_arready' = TRUE
  /\ UNCHANGED axi_araddr

ReadIdle ==
  /\ state_read = "Idle"
  /\ state_read' = "Raddr" /\ axi_arready' = TRUE
  /\ UNCHANGED <<axi_rvalid, axi_araddr>>

ReadWaits ==
  /\ \/ state_read = "Raddr" /\ ~(ARVALID /\ axi_arready)
     \/ state_read = "Rdata" /\ ~(axi_rvalid /\ rready)
  /\ UNCHANGED readVars

RDATA == slv_reg[axi_araddr]

\* Pad i's slice of owner_map, cut from slv_reg2 & slv_reg1 & slv_reg0.
all_regs(k) == slv_reg[k \div C_S_AXI_DATA_WIDTH][k % C_S_AXI_DATA_WIDTH]
owner_map(i) == [k \in 0 .. MAP_WIDTH - 1 |-> all_regs(i * MAP_WIDTH + k)]
pad_oe(i) == slv_reg[3][i]

-----------------------------------------------------------------------------
(* The master at a clock edge *)

AWTaken == AWVALID /\ axi_awready
WTaken == WVALID /\ axi_wready
Completes ==
  /\ write # NoWrite
  /\ AWTaken \/ aw = "accepted"
  /\ WTaken \/ w = "accepted"
Answered == axi_bvalid /\ bready

MasterWrites ==
  /\ aw' = IF AWTaken THEN "accepted" ELSE aw
  /\ w' = IF WTaken THEN "accepted" ELSE w
  /\ write' = IF Completes THEN NoWrite ELSE write
  /\ written' = IF Completes
                  THEN Strobed(written, write.addr, write.data, write.strb)
                  ELSE written
  /\ unanswered' = unanswered + (IF Completes THEN 1 ELSE 0)
                              - (IF Answered /\ unanswered > 0 THEN 1 ELSE 0)
  /\ bready' \in IF Answered THEN BOOLEAN ELSE {bready}

MasterReads ==
  /\ ar' = IF ARVALID /\ axi_arready THEN "accepted" ELSE ar
  /\ read' = IF axi_rvalid /\ rready THEN NoRead ELSE read
  /\ rready' = (rready /\ ~axi_rvalid)

ClockEdge ==
  /\ WriteAddress \/ WriteWaits \/ WriteDataLate \/ WriteIdle
  /\ ReadAccepts \/ ReadEnds \/ ReadIdle \/ ReadWaits
  /\ WriteRegisters
  /\ MasterWrites
  /\ MasterReads

ZeroRegisters == [r \in Regs |-> [b \in Bits |-> 0]]

\* An edge with S_AXI_ARESETN low, which resets the master too.  The latched
\* addresses keep their values.
ResetEdge ==
  /\ state_write' = "Idle" /\ axi_awready' = FALSE /\ axi_wready' = FALSE
  /\ axi_bvalid' = FALSE
  /\ state_read' = "Idle" /\ axi_arready' = FALSE /\ axi_rvalid' = FALSE
  /\ slv_reg' = ZeroRegisters /\ written' = ZeroRegisters
  /\ write' = NoWrite /\ aw' = "later" /\ w' = "later" /\ bready' = FALSE
  /\ read' = NoRead /\ ar' = "valid" /\ rready' = FALSE /\ unanswered' = 0
  /\ UNCHANGED <<axi_awaddr, axi_araddr>>

-----------------------------------------------------------------------------
(* The master between edges *)

\* "Outstanding write transactions are not supported": a new write starts
\* when the last one is answered or its response can be taken.
StartWrite ==
  /\ write = NoWrite
  /\ unanswered = 0 \/ (unanswered = 1 /\ bready)
  /\ write' \in Writes
  /\ aw' = "later" /\ w' = "later"
  /\ UNCHANGED <<slaveVars, bready, read, ar, rready, written, unanswered>>

PresentAddress ==
  /\ write # NoWrite /\ aw = "later"
  /\ aw' = "valid"
  /\ UNCHANGED <<slaveVars, write, w, bready, read, ar, rready, written, unanswered>>

PresentData ==
  /\ write # NoWrite /\ w = "later"
  /\ AddressFirst => aw # "later"
  /\ w' = "valid"
  /\ UNCHANGED <<slaveVars, write, aw, bready, read, ar, rready, written, unanswered>>

TakeResponse ==
  /\ ~bready
  /\ bready' = TRUE
  /\ UNCHANGED <<slaveVars, write, aw, w, read, ar, rready, written, unanswered>>

StartRead ==
  /\ read = NoRead
  /\ read' \in ReadAddresses
  /\ ar' = "valid"
  /\ UNCHANGED <<slaveVars, write, aw, w, bready, rready, written, unanswered>>

TakeData ==
  /\ read # NoRead /\ ~rready
  /\ rready' = TRUE
  /\ UNCHANGED <<slaveVars, write, aw, w, bready, read, ar, written, unanswered>>

\* After a reset; the latched addresses are uninitialised.
AXIInit ==
  /\ state_write = "Idle" /\ axi_awready = FALSE /\ axi_wready = FALSE
  /\ axi_bvalid = FALSE /\ axi_awaddr \in Regs
  /\ state_read = "Idle" /\ axi_arready = FALSE /\ axi_rvalid = FALSE
  /\ axi_araddr \in Regs
  /\ slv_reg = ZeroRegisters /\ written = ZeroRegisters
  /\ write = NoWrite /\ aw = "later" /\ w = "later" /\ bready = FALSE
  /\ read = NoRead /\ ar = "valid" /\ rready = FALSE /\ unanswered = 0

AXINext ==
  \/ ClockEdge \/ ResetEdge
  \/ StartWrite \/ PresentAddress \/ PresentData \/ TakeResponse
  \/ StartRead \/ TakeData

AXISpec == AXIInit /\ [][AXINext]_axiVars

\* The clock runs, and a master finishes what it started.
FairAXISpec ==
  /\ AXISpec
  /\ WF_axiVars(ClockEdge)
  /\ WF_axiVars(PresentAddress) /\ WF_axiVars(PresentData)
  /\ WF_axiVars(TakeResponse) /\ WF_axiVars(TakeData)

-----------------------------------------------------------------------------
(* Properties *)

WithWrite(regs) ==
  IF write = NoWrite THEN regs
                     ELSE Strobed(regs, write.addr, write.data, write.strb)

\* The registers hold what the completed writes add up to, or that and the
\* write in progress: a word lands in the register it was sent to however the
\* address and the data are spread over clock edges, and while the slave
\* writes at every edge that shows WVALID, ready or not.
RegistersHoldTheWrites == slv_reg \in {written, WithWrite(written)}

\* The word on the read channel is the requested register's, and it is that of
\* the completed writes unless one is under way: "write to user logic slave
\* module register(s) and read back" (Pmod_JA1_arbiter_AXI_selftest.c:45).
ReadsSeeTheWrites ==
  axi_rvalid =>
    /\ read # NoRead
    /\ RDATA \in {written[read], WithWrite(written)[read]}

\* A response is on the bus exactly while one is owed, and never two are:
\* no write is answered twice, before it is complete, or not at all.
OneResponseEach ==
  /\ unanswered <= 1
  /\ axi_bvalid <=> unanswered = 1

\* Every write is accepted and every read answered, whichever of address and
\* data comes at which edge.
TransfersComplete ==
  /\ write # NoWrite ~> write = NoWrite
  /\ read # NoRead ~> read = NoRead

\* "Slave register write enable is asserted when valid address and data are
\* available and the slave is ready" (lines 258-259): no register changes at an
\* edge before which no address for the data has been given.
WriteEnableNeedsAddress ==
  [][ClockEdge /\ slv_reg' # slv_reg => AWVALID \/ state_write = "Wdata"]_axiVars
=============================================================================
