--------------------------- MODULE FaultInjection ---------------------------
(***************************************************************************)
(* The example design: the protection unit before the block RAM, the PMU   *)
(* that configures it, and the programs that try it out.  The fault        *)
(* injection programs of the RPU and the APU read and write three areas of *)
(* the block RAM, print for each access whether it was aborted, rewrite    *)
(* CTRL and try to unlock the unit; the simple example of the RPU first    *)
(* configures the unit itself, under a firmware that does not.             *)
(*                                                                         *)
(* The abort of an access is taken within the delay that follows it.  The  *)
(* programs' accesses to the processors' own memories and peripherals do   *)
(* not reach the unit.                                                     *)
(***************************************************************************)
EXTENDS PmuFirmware, Sequences

CONSTANT MaxEarly  \* bound: programs started before the PMU has configured the unit

ASSUME MaxEarlyAssumption == MaxEarly \in Nat

VARIABLES
  apps,   \* the program on each processor; failed is kept for those whose accesses
          \* all come after the unit was configured
  irq     \* XMpuPl_IntrHandler of the simple example: the ISR it read

appVars == <<apps, irq>>

vars == <<xmpuVars, driverVars, build, pmuVars, appVars>>

NoApp == [program |-> "none", secure |-> TRUE, fresh |-> FALSE, setup |-> "done",
          row |-> 0, failed |-> {}]
NoIrq == [pc |-> "idle", isr |-> {}]

AppInit ==
  /\ apps = [m \in {"RPU0", "APU"} |-> NoApp]
  /\ irq = NoIrq

Init == XmpuInit /\ DriverInit /\ ConfigInit /\ PmuInit /\ AppInit

-----------------------------------------------------------------------------
(* The accesses *)

\* PL_BRAM_S_BASE, PL_BRAM_NS_SHARED_BASE and PL_BRAM_NS_BASE, each read and
\* then written.
Rows == <<[page |-> BRAM,      write |-> FALSE], [page |-> BRAM,      write |-> TRUE],
          [page |-> BRAM + 4,  write |-> FALSE], [page |-> BRAM + 4,  write |-> TRUE],
          [page |-> BRAM + 12, write |-> FALSE], [page |-> BRAM + 12, write |-> TRUE]>>

\* The rows of the unit's own registers.
CtrlRow == Len(Rows) + 1
UnlockRow == Len(Rows) + 2
Finished == Len(Rows) + 3

AccessOf(m, row) ==
  [master |-> m, page |-> Rows[row].page, last |-> FALSE,
   write |-> Rows[row].write, secure |-> apps[m].secure]

\* The APU's programs run with or without TrustZone's secure attribute; the
\* RPU's are secure.  The boot loader starts one on each processor, with the
\* firmware it was made for.
Early == {m \in DOMAIN apps : apps[m].program # "none" /\ ~apps[m].fresh}

Start(m, program, secure) ==
  /\ fsbl # "runs"
  /\ \/ XMpuPl_Initialized
     \/ "ENABLE_SCHEDULER" \notin image.macros
     \/ Cardinality(Early) < MaxEarly
  /\ apps[m].program = "none"
  /\ apps' = [apps EXCEPT ![m] =
       [NoApp EXCEPT !.program = program, !.secure = secure,
                     !.fresh = XMpuPl_Initialized /\ program = "fault_injection",
                     !.setup = IF program = "simple_example" THEN "INIT" ELSE "done",
                     !.row = IF program = "self_test" THEN Finished ELSE 1]]

StartSome ==
  /\ image.flashed
  /\ \/ \E secure \in BOOLEAN : Start("APU", "fault_injection", secure)
     \/ /\ "ENABLE_SCHEDULER" \in image.macros
        /\ \E program \in {"fault_injection", "self_test"} : Start("RPU0", program, TRUE)
     \/ /\ image.macros \cap {"ENABLE_EM", "ENABLE_SCHEDULER"} = {}
        /\ Start("RPU0", "simple_example", TRUE)
  /\ UNCHANGED <<irq, xmpuVars, driverVars, build, pmuVars>>

\* A processor runs its program unless it is in an interrupt handler.
Runs(m) == apps[m].setup = "done" /\ (m = "RPU0" => irq.pc = "idle")

\* Mutant: the handlers' flag is not cleared after it was printed.
FailedSticky(m, row) == Blocked(AccessOf(m, row)) \/ apps[m].failed # {}

\* readReg and writeReg print FAILED! where a handler saw the access aborted.
Failed(m, row) == Blocked(AccessOf(m, row))

\* One row.  The PMU's status latches the line of the interrupt.
AccessRow(m) ==
  LET row == apps[m].row IN
  /\ Runs(m)
  /\ row \in DOMAIN Rows
  /\ Transact(AccessOf(m, row))
  /\ error_status' = (error_status \/ Line')
  /\ apps' = [apps EXCEPT ![m].row = @ + 1,
                          ![m].failed = IF apps[m].fresh /\ Failed(m, row)
                                        THEN @ \cup {row} ELSE @]
  /\ UNCHANGED <<irq, driverVars, build, image, loads, fsbl, em, em_action, scheduled,
                 conf, XMpuPl_Initialized, handler, ipis>>

RegisterRow(m) ==
  /\ Runs(m)
  /\ \/ apps[m].row = CtrlRow /\ WriteCtrl(m, AtReset.ctrl)
     \/ apps[m].row = UnlockRow /\ WriteLock(m, FALSE)
  /\ apps' = [apps EXCEPT ![m].row = @ + 1]
  /\ UNCHANGED <<irq, driverVars, build, pmuVars>>

\* The rest of the RPU's and the APU's main, after set-up, row by row.
RpuMain == AccessRow("RPU0") \/ RegisterRow("RPU0")
ApuMain == AccessRow("APU") \/ RegisterRow("APU")

-----------------------------------------------------------------------------
(* The self test, and the simple example *)

RpuSelfTest ==
  /\ apps["RPU0"].program = "self_test"
  /\ SelfTestBegin("RPU0") \/ SelfTestWrite \/ SelfTestVerify \/ SelfTestRestore
  /\ UNCHANGED <<inst, call, build, pmuVars, appVars>>

Setup(from, to) == apps["RPU0"].setup = from /\ apps' = [apps EXCEPT !["RPU0"].setup = to]

\* main up to the first row.  The status of a region is only printed.
SetUpUnit ==
  /\ irq.pc = "idle"
  /\ \/ /\ Setup("INIT", "CTRL")
        /\ XMpuPl_CfgInitialize(XMpuPl_LookupConfig(0))
        /\ UNCHANGED <<xmpuVars, call>>
     \/ \E step \in DOMAIN Then :
          Setup(step, Then[step]) /\ Prepare("RPU0", step) /\ UNCHANGED <<inst, call>>
     \/ /\ \/ Setup("ADD0", "STATUS0") /\ AddRegion(REGION_0)
           \/ Setup("ADD1", "STATUS1") /\ AddRegion(REGION_1)
        /\ UNCHANGED <<xmpuVars, inst>>
     \/ /\ apps["RPU0"].setup \in {"STATUS0", "STATUS1"}
        /\ AddRegionWrite("RPU0") \/ (AddRegionCheck /\ UNCHANGED xmpuVars)
        /\ UNCHANGED <<inst, apps>>
     \/ /\ Setup("STATUS0", "ADD1") \/ Setup("STATUS1", "CONFIG")
        /\ AddRegionReturned
        /\ call' = NoCall
        /\ UNCHANGED <<xmpuVars, inst>>
     \/ /\ apps["RPU0"].setup = "CONFIG"
        /\ apps' = [apps EXCEPT !["RPU0"].setup = "done", !["RPU0"].fresh = TRUE]
        /\ XMpuPl_GetConfig
        /\ UNCHANGED <<xmpuVars, call>>
  /\ UNCHANGED <<irq, test, build, pmuVars>>

\* The handler is connected before the unit is configured.  What it read is
\* what it clears; it then reads again, to print what is left.
IntrHandlerRead ==
  /\ apps["RPU0"].program = "simple_example"
  /\ apps["RPU0"].setup # "INIT"
  /\ Line
  /\ irq.pc = "idle"
  /\ irq' = [pc |-> "clear", isr |-> isr]
  /\ UNCHANGED xmpuVars

\* Mutant: clears every violation, also one that came after the read.
IntrHandlerClearAll == irq.pc = "clear" /\ WriteISR(Interrupts) /\ irq' = NoIrq

IntrHandlerClear == irq.pc = "clear" /\ WriteISR(irq.isr) /\ irq' = NoIrq

XMpuPl_IntrHandler ==
  /\ IntrHandlerRead \/ IntrHandlerClear
  /\ UNCHANGED <<apps, driverVars, build, pmuVars>>

-----------------------------------------------------------------------------
(* The example design *)

\* One build is made and flashed.
BuildAndFlash ==
  /\ ~image.flashed
  /\ \/ MakeSome /\ UNCHANGED pmuVars
     \/ Flash
  /\ UNCHANGED <<xmpuVars, driverVars, appVars>>

\* Later bitstreams, and actions for errors, are asked for by other software of
\* the APU, before or after its program; never while the RPU's configures the
\* unit.
ApuIdle == apps["APU"].row \in {0, Finished}

Load ==
  /\ ApuIdle
  /\ apps["RPU0"].setup = "done"
  /\ LoadBitstream
  /\ UNCHANGED <<build, driverVars, appVars>>

Boot ==
  /\ ModSchInit \/ EmCfgInit \/ FsblCompletes \/ CheckFsblCompletion
  /\ UNCHANGED <<build, xmpuVars, driverVars, appVars>>

Task == XMpuPl_PmuTask /\ UNCHANGED <<build, xmpuVars, call, test, appVars>>

Configure == configureXMPU /\ UNCHANGED <<build, test, appVars>>

Events ==
  /\ EmEventHandler \/ (ApuIdle /\ EmIpiHandler)
  /\ UNCHANGED <<build, xmpuVars, driverVars, appVars>>

Handle == PL_ErrorHandler /\ UNCHANGED <<build, driverVars, appVars>>

Programs ==
  \/ StartSome
  \/ RpuMain
  \/ ApuMain
  \/ RpuSelfTest
  \/ SetUpUnit
  \/ XMpuPl_IntrHandler

Next ==
  \/ BuildAndFlash
  \/ Load
  \/ Boot
  \/ Task
  \/ Configure
  \/ Events
  \/ Handle
  \/ Programs

\* The PMU goes on with what it is doing, takes its interrupt and returns to
\* its tasks; so does the RPU with its interrupt.
Fairness ==
  /\ WF_vars(Boot)
  /\ WF_vars(Task)
  /\ WF_vars(Configure)
  /\ WF_vars(EmEventHandler /\ UNCHANGED <<build, xmpuVars, driverVars, appVars>>)
  /\ WF_vars(Handle)
  /\ WF_vars(XMpuPl_IntrHandler)

Spec == Init /\ [][Next]_vars /\ Fairness
-----------------------------------------------------------------------------
(* Properties *)

FaultInjectionTypeOK ==
  /\ ctrl \subseteq CtrlFlags /\ lock \in BOOLEAN /\ bypass \subseteq Masters
  /\ imr \subseteq Interrupts /\ isr \subseteq Interrupts
  /\ poison \in {ResetPoison, "0xDEADBEEF"}
  /\ \A i \in Slots :
       /\ regions[i].start \in 0 .. PAGE_NUMBERS - 1
       /\ regions[i].end \in 0 .. PAGE_NUMBERS - 1
       /\ regions[i].masters \subseteq Masters
       /\ regions[i].config \subseteq RegionFlags
  /\ inst.IsReady \in BOOLEAN /\ inst.MaxRegions \in 0 .. Cardinality(Slots)
  /\ call.slot \in 0 .. inst.MaxRegions
  /\ call.pc \in {"none", "added", "failed", "REGIONS"} \cup DOMAIN Order
  /\ conf \in {"idle", "ADD0", "STATUS0", "ADD1", "STATUS1"} \cup DOMAIN Then
  /\ loads \in 0 .. MaxLoads /\ ipis \in 0 .. MaxIpis
  /\ handler.isr \subseteq Interrupts /\ irq.isr \subseteq Interrupts
  /\ \A m \in DOMAIN apps :
       apps[m].row \in 0 .. Finished /\ apps[m].failed \subseteq DOMAIN Rows

\* AddRegion writes four registers one by one while the other processors'
\* accesses pass through the unit: a region is never enabled with some of them
\* still from an earlier region or from reset (zupl_xmpu.c, XMpuPl_AddRegion).
EnabledRegionsAreWhole ==
  \A i \in Slots : Enabled(i) =>
    \E r \in {REGION_0, REGION_1} :
      regions[i] = [start   |-> r.start, end |-> EndAddr(r.start, r.size),
                    masters |-> r.masters, config |-> r.config]

\* What the two requests ask of the unit: a region is for its masters, and for
\* secure accesses unless REGIONNS opens it; the rest of the memory is for all.
\* Sizes are in kB, of four pages.
AsksFor(r, a) == a.page - r.start \in 0 .. 4 * r.size - 1

RequestAllows(a) ==
  \A r \in {REGION_0, REGION_1} :
    AsksFor(r, a) /\ "REGIONNS" \notin r.config => a.secure /\ a.master \in r.masters

Boundaries == {BRAM - 1, BRAM, BRAM + 3, BRAM + 4, BRAM + 11, BRAM + 12, BRAM + 15,
               BRAM + 16}

UnitConfigured ==
  /\ loads = 1
  /\ \/ XMpuPl_Initialized
     \/ /\ apps["RPU0"].program = "simple_example"
        /\ apps["RPU0"].setup = "done"
        /\ Cardinality(Slots) >= 2

\* Once the unit is configured, whoever configured it and whatever failed and
\* was tried again before, it enforces the regions as they were requested and
\* blocks nothing else, to the page on either side of each region, and the
\* instance's copy of the registers is right.  Left out: the last byte of a page, which the unit's comparison
\* excludes from a region, and a unit reset by a later bitstream.
ProtectedAsConfigured ==
  UnitConfigured =>
    /\ inst.Regs = regions
    /\ \A a \in [master : Masters, page : Boundaries, last : {FALSE},
                  write : BOOLEAN, secure : BOOLEAN] :
         Blocked(a) <=> ~RequestAllows(a)

\* A program that started after the unit was configured, or configured it, prints
\* FAILED! for the accesses that the requested regions refuse its processor, and
\* for no other, whatever the other program and the PMU do meanwhile (readReg,
\* writeReg).
VerdictsMatchRegions ==
  \A m \in DOMAIN apps :
    apps[m].fresh /\ loads = 1 /\ Cardinality(Slots) >= 2 =>
      apps[m].failed = {row \in DOMAIN Rows :
                          row < apps[m].row /\ ~RequestAllows(AccessOf(m, row))}

\* What the programs announce before their accesses: PL_BRAM_NS_BASE is "only
\* accessible by Un-Secure Sub-Systems" (apuFaultInjection.c:86).  The regions
\* requested say otherwise.
VerdictsMatchAnnouncement ==
  \A m \in DOMAIN apps :
    apps[m].fresh /\ loads = 1 /\ Cardinality(Slots) >= 2 =>
      \A row \in DOMAIN Rows :
        Rows[row].page = PL_BRAM_NS_BASE /\ row < apps[m].row =>
          (row \in apps[m].failed <=> apps[m].secure)

\* The interrupt handlers of the PMU and of the simple example clear the
\* violations they read, and so report; one that arrives between the read and
\* the clear stays (xpfw_pl_xmpu.c:196-237, pl_xmpu_example.c:194-202).
NothingClearedUnseen ==
  [][isr \ isr' \subseteq handler.isr \cup irq.isr \/ loads' # loads]_vars

\* A self test of the RPU leaves POISON as it was, although the PMU locks the
\* unit between the test's writes: the PMU lets the RPU past the lock before
\* it locks.
PoisonRestored == test.pc = "done" => poison = ResetPoison

\* Once there is a bitstream with room for two regions, a firmware with the
\* scheduler configures the unit, whatever the programs do and however often
\* their violations interrupt it.
ConfiguredEventually ==
  (loads > 0 /\ scheduled /\ Cardinality(Slots) >= 2) ~> XMpuPl_Initialized

PmuServes == em /\ em_action.PL = "PL_ErrorHandler"
RpuServes == apps["RPU0"].program = "simple_example" /\ apps["RPU0"].setup # "INIT"

\* A violation is reported and its interrupt goes away, also one that arrives
\* while an earlier one is handled, unless the action for the error is changed.
ViolationsAreServed == (PmuServes \/ RpuServes) /\ Line ~> ~Line \/ ~(PmuServes \/ RpuServes)
=============================================================================
