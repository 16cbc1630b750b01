----------------------------- MODULE XmpuDriver -----------------------------
(***************************************************************************)
(* The bare-metal driver of the protection unit (zupl_xmpu.c, _sinit.c,    *)
(* _g.c, _selftest.c).  "The driver is not thread safe": one caller adds   *)
(* regions at a time, but the other processors' accesses, and a self test  *)
(* run by one of them, fall between any two of its register accesses.      *)
(***************************************************************************)
EXTENDS XMPU

CONSTANTS
  PAGE_NUMBERS,   \* a page number is an unsigned integer below this
  SIZE_MAX,       \* the largest region, in kB
  NumInstances    \* the protection units of the design; this is number 0

ASSUME DriverAssumption ==
  /\ PAGE_NUMBERS \in Nat \ {0}
  /\ SIZE_MAX \in Nat \ {0}
  /\ NumInstances \in 1 .. 16

VARIABLES
  inst,   \* the XmpuPl structure of the program that configures the unit
  call,   \* the call of XMpuPl_AddRegion in progress
  test    \* the call of XMpuPL_SelfTest in progress

driverVars == <<inst, call, test>>

NotReady == [IsReady |-> FALSE, MaxRegions |-> 0, Regs |-> << >>]
NoRequest == [start |-> 0, size |-> 0, masters |-> {}, config |-> {}]
NoCall == [pc |-> "none", request |-> NoRequest, slot |-> 0]
NoTest == [pc |-> "none", by |-> "RPU0", saved |-> ResetPoison]

DriverInit == inst = NotReady /\ call = NoCall /\ test = NoTest

-----------------------------------------------------------------------------
(* Instances *)

\* xparameters.h describes the cores of the design; for any other core the
\* header falls back on an id no core has and on room for no region.
DeviceIdOf(i) == IF i < NumInstances THEN i ELSE NumInstances + 1

\* Mutant: the core is taken to have one region more than it has.
OneMoreRegion(i) == IF i < NumInstances THEN Cardinality(Slots) + 1 ELSE 0

RegionsMaxOf(i) == IF i < NumInstances THEN Cardinality(Slots) ELSE 0

ConfigTable ==
  [i \in 0 .. 15 |-> [DeviceId |-> DeviceIdOf(i), MaxRegions |-> RegionsMaxOf(i)]]

XMpuPl_LookupConfig(id) ==
  CHOOSE entry \in {ConfigTable[i] : i \in 0 .. NumInstances - 1} : entry.DeviceId = id

\* The whole instance is ready; the copy of the registers is filled later.
XMpuPl_CfgInitialize(entry) ==
  inst' = [inst EXCEPT !.IsReady = TRUE, !.MaxRegions = entry.MaxRegions]

\* The copy of the registers the instance keeps.
XMpuPl_GetConfig == inst' = [inst EXCEPT !.Regs = regions]

-----------------------------------------------------------------------------
(* XMpuPl_AddRegion, one step per register it writes *)

\* Mutant: the region ends on the page after its last.
EndAddrPastLast(start, size) == (start + (size * 4)) % PAGE_NUMBERS

EndAddr(start, size) == (start + (size * 4) - 1) % PAGE_NUMBERS

Accepts(start, size) == size <= SIZE_MAX /\ EndAddr(start, size) > start

FreeSlots == {i \in 0 .. inst.MaxRegions - 1 : ~Enabled(i)}
NextRegion ==
  IF FreeSlots = {} THEN inst.MaxRegions
  ELSE CHOOSE i \in FreeSlots : \A j \in FreeSlots : i <= j

AddRegion(request) ==
  /\ call.pc = "none"
  /\ call' = IF NextRegion < inst.MaxRegions /\ Accepts(request.start, request.size)
             THEN [pc |-> "START", request |-> request, slot |-> NextRegion]
             ELSE [NoCall EXCEPT !.pc = "failed"]

\* Mutant: the region is enabled before its end and its masters are written.
EnabledEarly == [START |-> "CONFIG", CONFIG |-> "END", END |-> "MASTERS",
                 MASTERS |-> "REGIONS"]

Order == [START |-> "END", END |-> "MASTERS", MASTERS |-> "CONFIG",
          CONFIG |-> "REGIONS"]

AddRegionWrite(m) ==
  LET r == call.request IN
  /\ call.pc \in DOMAIN Order
  /\ CASE call.pc = "START" -> WriteRegion(m, call.slot, "start", r.start)
       [] call.pc = "END" -> WriteRegion(m, call.slot, "end", EndAddr(r.start, r.size))
       [] call.pc = "MASTERS" -> WriteRegion(m, call.slot, "masters", r.masters)
       [] call.pc = "CONFIG" ->
            WriteRegion(m, call.slot, "config", r.config \cup {"ENABLE"})
  /\ call' = [call EXCEPT !.pc = Order[call.pc]]

\* Mutant: counts as if the slots were numbered from one.
CountsPast ==
  /\ call.pc = "REGIONS"
  /\ call' = [NoCall EXCEPT !.pc = IF REGIONS > call.slot + 1 THEN "added" ELSE "failed"]

\* The call's status: the unit counts more regions than stand before this one.
AddRegionCheck ==
  /\ call.pc = "REGIONS"
  /\ call' = [NoCall EXCEPT !.pc = IF REGIONS > call.slot THEN "added" ELSE "failed"]

AddRegionReturned == call.pc \in {"added", "failed"}

-----------------------------------------------------------------------------
(* XMpuPL_SelfTest: writes POISON, reads it back, restores it *)

SelfTestBegin(m) ==
  /\ test.pc = "none"
  /\ test' = [pc |-> "write", by |-> m, saved |-> poison]
  /\ UNCHANGED xmpuVars

SelfTestWrite ==
  /\ test.pc = "write"
  /\ WritePoison(test.by, "0xDEADBEEF")
  /\ test' = [test EXCEPT !.pc = "verify"]

\* What is read back decides; a register that did not take the value is a
\* failed test and is left alone.
SelfTestVerify ==
  /\ test.pc = "verify"
  /\ test' = [test EXCEPT !.pc = IF poison = "0xDEADBEEF" THEN "restore" ELSE "done"]
  /\ UNCHANGED xmpuVars

SelfTestRestore ==
  /\ test.pc = "restore"
  /\ WritePoison(test.by, test.saved)
  /\ test' = [test EXCEPT !.pc = "done"]
=============================================================================
