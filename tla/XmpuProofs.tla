------------------------------ MODULE XmpuProofs ------------------------------
(***************************************************************************)
(* The protection unit, its driver, the PMU firmware that configures it    *)
(* and the programs that try it out, for any number of regions, any        *)
(* addresses and any build of the firmware.                                *)
(***************************************************************************)
EXTENDS FaultInjection, FiniteSetTheorems, WellFoundedInduction, TLAPS

LEMMA RowFacts ==
  /\ Len(Rows) = 6
  /\ DOMAIN Rows = 1 .. 6
  /\ CtrlRow = 7 /\ UnlockRow = 8 /\ Finished = 9
<1>1. Len(Rows) = 6 /\ DOMAIN Rows = 1 .. 6
  BY DEF Rows
<1> QED BY <1>1 DEF CtrlRow, UnlockRow, Finished

-----------------------------------------------------------------------------
(* First layer: where everybody is.  The unit has one configurer: the PMU,   *)
(* in an image with the scheduler, or the simple example, in one without.    *)

Preparations == {"CTRL", "BYPASS", "LOCK", "IER"}
ConfSteps == {"idle", "ADD0", "STATUS0", "ADD1", "STATUS1"} \cup Preparations
SetupSteps == {"done", "INIT", "ADD0", "STATUS0", "ADD1", "STATUS1", "CONFIG"}
                \cup Preparations

Apps == [program : {"none", "fault_injection", "self_test", "simple_example"},
         secure : BOOLEAN, fresh : BOOLEAN, setup : SetupSteps,
         row : 0 .. Finished, failed : SUBSET (DOMAIN Rows)]

HasScheduler == image.flashed /\ "ENABLE_SCHEDULER" \in image.macros

CountersInv ==
  /\ loads \in 0 .. MaxLoads
  /\ ipis \in 0 .. MaxIpis

PmuInv ==
  /\ conf \in ConfSteps
  /\ XMpuPl_Initialized \in BOOLEAN
  /\ scheduled \in BOOLEAN
  /\ image.flashed \in BOOLEAN
  /\ scheduled => HasScheduler
  /\ conf # "idle" => scheduled /\ ~XMpuPl_Initialized
  /\ XMpuPl_Initialized => scheduled
  /\ fsbl # "runs" \/ conf # "idle" \/ XMpuPl_Initialized => loads # 0

AppsInv ==
  /\ apps \in [{"RPU0", "APU"} -> Apps]
  /\ \A m \in {"RPU0", "APU"} :
       /\ apps[m].program # "none" => fsbl # "runs"
       /\ apps[m].program = "simple_example"
            => m = "RPU0" /\ image.flashed /\ ~HasScheduler
       /\ apps[m].setup # "done" => apps[m].program = "simple_example" /\ apps[m].row = 1
       /\ apps[m].fresh => \/ XMpuPl_Initialized
                           \/ apps[m].program = "simple_example" /\ apps[m].setup = "done"

ControlInv == CountersInv /\ PmuInv /\ AppsInv

\* What a step may not touch for ControlInv to stay as it is.
controlVars == <<image, loads, fsbl, scheduled, conf, XMpuPl_Initialized, ipis, apps>>

LEMMA ControlFrame == ControlInv /\ UNCHANGED controlVars => ControlInv'
  BY DEF ControlInv, CountersInv, PmuInv, AppsInv, controlVars, HasScheduler

LEMMA ThenFacts ==
  /\ DOMAIN Then = Preparations
  /\ \A p \in Preparations : /\ Then[p] \in ConfSteps \ {"idle"}
                             /\ Then[p] \in SetupSteps \ {"done"}
  BY DEF Then, Preparations, ConfSteps, SetupSteps

LEMMA NoAppIsTyped == NoApp \in Apps
  BY RowFacts DEF NoApp, Apps, SetupSteps

LEMMA ControlInit == Init => ControlInv
<1> SUFFICES ASSUME Init PROVE ControlInv
  OBVIOUS
<1> USE DEF Init, PmuInit, AppInit
<1>1. CountersInv
  BY FirmwareAssumption DEF CountersInv
<1>2. PmuInv
  BY DEF PmuInv, NoImage, ConfSteps
<1>3. AppsInv
  BY NoAppIsTyped DEF AppsInv, NoApp
<1> QED BY <1>1, <1>2, <1>3 DEF ControlInv

LEMMA BootControl ==
  ASSUME ControlInv, BuildAndFlash \/ Boot \/ Load
  PROVE  ControlInv'
<1> USE DEF ControlInv
<1>1. CASE BuildAndFlash
  <2>1. CASE UNCHANGED pmuVars
    BY <1>1, <2>1, ControlFrame DEF BuildAndFlash, pmuVars, controlVars, appVars
  <2>2. CASE Flash
    <3>1. image'.flashed = TRUE /\ image.flashed = FALSE
      BY <2>2 DEF Flash, PmuInv
    <3>2. UNCHANGED <<loads, fsbl, scheduled, conf, XMpuPl_Initialized, ipis, apps>>
      BY <1>1, <2>2 DEF BuildAndFlash, Flash, appVars
    <3>3. PmuInv' /\ CountersInv'
      BY <3>1, <3>2 DEF PmuInv, CountersInv, HasScheduler
    <3>4. AppsInv'
      BY <3>1, <3>2 DEF AppsInv
    <3> QED BY <3>3, <3>4
  <2> QED BY <1>1, <2>1, <2>2 DEF BuildAndFlash
<1>2. CASE Boot
  <2>1. CASE ModSchInit
    <3>1. UNCHANGED <<image, loads, fsbl, conf, XMpuPl_Initialized, ipis, apps>>
      BY <1>2, <2>1 DEF Boot, ModSchInit, appVars
    <3>2. scheduled' = TRUE /\ HasScheduler
      BY <2>1 DEF ModSchInit, HasScheduler
    <3> QED BY <3>1, <3>2 DEF CountersInv, PmuInv, AppsInv, HasScheduler
  <2>2. CASE EmCfgInit
    BY <1>2, <2>2, ControlFrame DEF Boot, EmCfgInit, controlVars, appVars
  <2>3. CASE FsblCompletes \/ CheckFsblCompletion
    <3>1. UNCHANGED <<image, loads, scheduled, conf, XMpuPl_Initialized, ipis, apps>>
      BY <1>2, <2>3 DEF Boot, FsblCompletes, CheckFsblCompletion, appVars
    <3>2. fsbl' # "runs" /\ (fsbl # "runs" \/ loads # 0)
      BY <2>3 DEF FsblCompletes, CheckFsblCompletion, CountersInv
    <3> QED BY <3>1, <3>2 DEF CountersInv, PmuInv, AppsInv, HasScheduler
  <2> QED BY <1>2, <2>1, <2>2, <2>3 DEF Boot
<1>3. CASE Load
  <2>1. UNCHANGED <<image, fsbl, scheduled, conf, XMpuPl_Initialized, ipis, apps>>
    BY <1>3 DEF Load, LoadBitstream, appVars
  <2>2. loads' \in 0 .. MaxLoads /\ loads' # 0
    BY <1>3, FirmwareAssumption DEF Load, LoadBitstream, CountersInv
  <2>3. CountersInv'
    BY <2>1, <2>2 DEF CountersInv
  <2> QED BY <2>1, <2>2, <2>3 DEF PmuInv, AppsInv, HasScheduler
<1> QED BY <1>1, <1>2, <1>3

LEMMA ConfigureControl ==
  ASSUME ControlInv, Task \/ Configure
  PROVE  ControlInv'
<1>1. UNCHANGED <<image, loads, fsbl, scheduled, ipis, apps>>
  BY DEF Task, XMpuPl_PmuTask, Configure, configureXMPU, appVars
<1>2. /\ conf' \in ConfSteps
      /\ scheduled
      /\ ~XMpuPl_Initialized
      /\ loads # 0
      /\ XMpuPl_Initialized' \in BOOLEAN
      /\ XMpuPl_Initialized' => conf' = "idle"
  <2>1. CASE Task
    BY <2>1 DEF Task, XMpuPl_PmuTask, ControlInv, PmuInv, CountersInv, ConfSteps,
       Preparations
  <2>2. CASE Configure
    <3>1. CASE PrepareUnit /\ UNCHANGED <<call, inst, XMpuPl_Initialized>>
      BY <3>1, ThenFacts DEF PrepareUnit, Preparations, ControlInv, PmuInv
    <3>2. CASE (AddFirst \/ AddSecond) /\ UNCHANGED <<xmpuVars, inst, XMpuPl_Initialized>>
      BY <3>2 DEF AddFirst, AddSecond, ConfSteps, ControlInv, PmuInv
    <3>3. CASE conf \in {"STATUS0", "STATUS1"} /\ UNCHANGED <<inst, conf, XMpuPl_Initialized>>
      BY <3>3 DEF ConfSteps, ControlInv, PmuInv
    <3>4. CASE FirstAdded
      BY <3>4 DEF FirstAdded, ConfSteps, ControlInv, PmuInv
    <3>5. CASE SecondAdded
      <4>1. /\ conf = "STATUS1" /\ conf' = "idle"
            /\ XMpuPl_Initialized' = TRUE \/ UNCHANGED XMpuPl_Initialized
        BY <3>5 DEF SecondAdded
      <4> QED BY <4>1 DEF ConfSteps, ControlInv, PmuInv
    <3> QED BY <2>2, <3>1, <3>2, <3>3, <3>4, <3>5 DEF Configure, configureXMPU
  <2> QED BY <2>1, <2>2
<1>3. CountersInv' /\ PmuInv'
  BY <1>1, <1>2 DEF ControlInv, CountersInv, PmuInv, HasScheduler
<1>4. AppsInv'
  BY <1>1, <1>2 DEF ControlInv, AppsInv, HasScheduler
<1> QED BY <1>3, <1>4 DEF ControlInv

LEMMA HandlersControl ==
  ASSUME ControlInv, Events \/ Handle \/ RpuSelfTest \/ XMpuPl_IntrHandler
  PROVE  ControlInv'
<1>1. CASE Events
  <2>1. UNCHANGED <<image, loads, fsbl, scheduled, conf, XMpuPl_Initialized, apps>>
    BY <1>1 DEF Events, EmEventHandler, EmIpiHandler, appVars
  <2>2. ipis' \in 0 .. MaxIpis
    BY <1>1, FirmwareAssumption
       DEF Events, EmEventHandler, EmIpiHandler, ControlInv, CountersInv
  <2> QED BY <2>1, <2>2 DEF ControlInv, CountersInv, PmuInv, AppsInv, HasScheduler
<1>2. CASE Handle \/ RpuSelfTest \/ XMpuPl_IntrHandler
  BY <1>2, ControlFrame DEF Handle, PL_ErrorHandler, RpuSelfTest, XMpuPl_IntrHandler,
     pmuVars, appVars, controlVars
<1> QED BY <1>1, <1>2

\* What AppsInv says of one program.
AppIsFine(m, app) ==
  /\ app \in Apps
  /\ app.program # "none" => fsbl # "runs"
  /\ app.program = "simple_example" => m = "RPU0" /\ image.flashed /\ ~HasScheduler
  /\ app.setup # "done" => app.program = "simple_example" /\ app.row = 1
  /\ app.fresh => \/ XMpuPl_Initialized
                  \/ app.program = "simple_example" /\ app.setup = "done"

\* A step that moves one program.
LEMMA OneProgramMoves ==
  ASSUME ControlInv, NEW m \in {"RPU0", "APU"}, NEW app, AppIsFine(m, app),
         apps' = [apps EXCEPT ![m] = app],
         UNCHANGED <<image, loads, fsbl, scheduled, conf, XMpuPl_Initialized, ipis>>
  PROVE  ControlInv'
<1>1. CountersInv' /\ PmuInv'
  BY DEF ControlInv, CountersInv, PmuInv, HasScheduler
<1>2. /\ apps' \in [{"RPU0", "APU"} -> Apps]
      /\ apps'[m] = app
      /\ \A x \in {"RPU0", "APU"} \ {m} : apps'[x] = apps[x]
  BY DEF ControlInv, AppsInv, AppIsFine
<1>3. AppsInv'
  BY <1>2 DEF ControlInv, AppsInv, AppIsFine, HasScheduler
<1> QED BY <1>1, <1>3 DEF ControlInv

LEMMA ProgramIsFine ==
  ASSUME ControlInv, NEW m \in {"RPU0", "APU"}
  PROVE  AppIsFine(m, apps[m])
  BY DEF ControlInv, AppsInv, AppIsFine

\* A program that is started.
LEMMA StartedProgram ==
  ASSUME NEW m \in {"RPU0", "APU"},
         NEW program \in {"fault_injection", "self_test", "simple_example"},
         NEW secure \in BOOLEAN, Start(m, program, secure)
  PROVE  \E app \in Apps :
           /\ apps' = [apps EXCEPT ![m] = app]
           /\ app.program = program
           /\ app.fresh = (XMpuPl_Initialized /\ program = "fault_injection")
           /\ app.setup = IF program = "simple_example" THEN "INIT" ELSE "done"
           /\ app.row = IF program = "self_test" THEN Finished ELSE 1
           /\ app.failed = {}
<1> DEFINE fresh == XMpuPl_Initialized /\ program = "fault_injection"
           setup == IF program = "simple_example" THEN "INIT" ELSE "done"
           row == IF program = "self_test" THEN Finished ELSE 1
           app == [NoApp EXCEPT !.program = program, !.secure = secure, !.fresh = fresh,
                                !.setup = setup, !.row = row]
<1>1. apps' = [apps EXCEPT ![m] = app]
  BY DEF Start
<1>2. fresh \in BOOLEAN
  OBVIOUS
<1>3. setup \in SetupSteps /\ row \in 0 .. Finished
  BY RowFacts DEF SetupSteps
<1>4. NoApp.failed = {}
  BY DEF NoApp
<1>5. /\ app \in Apps
      /\ app.program = program
      /\ app.fresh = fresh
      /\ app.setup = setup
      /\ app.row = row
      /\ app.failed = {}
  <2> HIDE DEF fresh, setup, row
  <2> QED BY <1>2, <1>3, <1>4, NoAppIsTyped DEF Apps
<1> HIDE DEF app
<1> QED BY <1>1, <1>5

LEMMA StartControl ==
  ASSUME ControlInv, StartSome
  PROVE  ControlInv'
<1>1. UNCHANGED <<image, loads, fsbl, scheduled, conf, XMpuPl_Initialized, ipis>>
  BY DEF StartSome, pmuVars
<1>2. ASSUME NEW m \in {"RPU0", "APU"},
             NEW program \in {"fault_injection", "self_test", "simple_example"},
             NEW secure \in BOOLEAN, Start(m, program, secure),
             program = "simple_example" => m = "RPU0" /\ image.flashed /\ ~HasScheduler
      PROVE  ControlInv'
  <2>1. fsbl # "runs"
    BY <1>2 DEF Start
  <2>2. PICK app \in Apps :
           /\ apps' = [apps EXCEPT ![m] = app]
           /\ app.program = program
           /\ app.fresh = (XMpuPl_Initialized /\ program = "fault_injection")
           /\ app.setup = IF program = "simple_example" THEN "INIT" ELSE "done"
           /\ app.row = IF program = "self_test" THEN Finished ELSE 1
    BY <1>2, StartedProgram
  <2>3. AppIsFine(m, app)
    BY <1>2, <2>1, <2>2 DEF AppIsFine
  <2> QED BY <1>1, <2>2, <2>3, OneProgramMoves
<1>3. ASSUME NEW secure \in BOOLEAN, Start("APU", "fault_injection", secure) PROVE ControlInv'
  BY <1>2, <1>3
<1>4. ASSUME NEW program \in {"fault_injection", "self_test"}, Start("RPU0", program, TRUE)
      PROVE  ControlInv'
  BY <1>2, <1>4
<1>5. CASE /\ image.macros \cap {"ENABLE_EM", "ENABLE_SCHEDULER"} = {}
           /\ Start("RPU0", "simple_example", TRUE)
  BY <1>2, <1>5 DEF StartSome, HasScheduler
<1> QED BY <1>3, <1>4, <1>5 DEF StartSome

\* A program that goes on to its next row.
LEMMA NextRow ==
  ASSUME ControlInv, NEW m \in {"RPU0", "APU"}, AccessRow(m) \/ RegisterRow(m)
  PROVE  \E app \in Apps :
           /\ apps' = [apps EXCEPT ![m] = app]
           /\ app.program = apps[m].program
           /\ app.secure = apps[m].secure
           /\ app.fresh = apps[m].fresh
           /\ app.setup = apps[m].setup
           /\ app.setup = "done"
           /\ apps[m].row \in 1 .. 8
           /\ app.row = apps[m].row + 1
           /\ app.failed = IF /\ AccessRow(m)
                              /\ apps[m].fresh /\ Failed(m, apps[m].row)
                           THEN apps[m].failed \cup {apps[m].row}
                           ELSE apps[m].failed
<1>1. apps[m] \in Apps /\ apps[m].setup = "done"
  BY DEF AccessRow, RegisterRow, Runs, ControlInv, AppsInv
<1>2. CASE AccessRow(m)
  <2> DEFINE failed == IF apps[m].fresh /\ Failed(m, apps[m].row)
                       THEN apps[m].failed \cup {apps[m].row} ELSE apps[m].failed
             app == [apps[m] EXCEPT !.row = apps[m].row + 1, !.failed = failed]
  <2>1. /\ apps' = [apps EXCEPT ![m] = app]
        /\ apps[m].row \in DOMAIN Rows
    BY <1>2 DEF AccessRow, ControlInv, AppsInv
  <2>2. failed \in SUBSET (DOMAIN Rows) /\ apps[m].row + 1 \in 0 .. Finished
    BY <1>1, <2>1, RowFacts DEF Apps
  <2>3. app \in Apps
    BY <1>1, <2>2 DEF Apps
  <2>4. /\ app.failed = failed /\ app.row = apps[m].row + 1
        /\ app.program = apps[m].program /\ app.secure = apps[m].secure
        /\ app.fresh = apps[m].fresh /\ app.setup = apps[m].setup
    BY <1>1 DEF Apps
  <2>5. apps[m].row \in 1 .. 8
    BY <2>1, RowFacts
  <2>6. failed = IF AccessRow(m) /\ apps[m].fresh /\ Failed(m, apps[m].row)
                 THEN apps[m].failed \cup {apps[m].row} ELSE apps[m].failed
    BY <1>2
  <2> HIDE DEF app, failed
  <2> QED BY <1>1, <2>1, <2>3, <2>4, <2>5, <2>6
<1>3. CASE RegisterRow(m)
  <2> DEFINE app == [apps[m] EXCEPT !.row = apps[m].row + 1]
  <2>1. apps' = [apps EXCEPT ![m] = app]
    BY <1>3 DEF RegisterRow, ControlInv, AppsInv
  <2>2. apps[m].row = CtrlRow \/ apps[m].row = UnlockRow
    BY <1>3, Zenon DEF RegisterRow
  <2>3. app \in Apps
    BY <1>1, <2>2, RowFacts DEF Apps
  <2>4. ~AccessRow(m)
    BY <2>2, RowFacts DEF AccessRow
  <2>5. /\ app.failed = apps[m].failed /\ app.row = apps[m].row + 1
        /\ app.program = apps[m].program /\ app.secure = apps[m].secure
        /\ app.fresh = apps[m].fresh /\ app.setup = apps[m].setup
    BY <1>1 DEF Apps
  <2>6. apps[m].row \in 1 .. 8
    BY <2>2, RowFacts
  <2> HIDE DEF app
  <2> QED BY <1>1, <2>1, <2>3, <2>4, <2>5, <2>6
<1> QED BY <1>2, <1>3

LEMMA RowsControl ==
  ASSUME ControlInv, NEW m \in {"RPU0", "APU"}, AccessRow(m) \/ RegisterRow(m)
  PROVE  ControlInv'
<1>1. UNCHANGED <<image, loads, fsbl, scheduled, conf, XMpuPl_Initialized, ipis>>
  BY DEF AccessRow, RegisterRow, pmuVars
<1>2. PICK app \in Apps :
         /\ apps' = [apps EXCEPT ![m] = app]
         /\ app.program = apps[m].program
         /\ app.fresh = apps[m].fresh
         /\ app.setup = apps[m].setup
         /\ app.setup = "done"
  BY NextRow
<1>3. AppIsFine(m, app)
  BY <1>2, ProgramIsFine DEF AppIsFine
<1> QED BY <1>1, <1>2, <1>3, OneProgramMoves

LEMMA SetUpControl ==
  ASSUME ControlInv, SetUpUnit
  PROVE  ControlInv'
<1>1. UNCHANGED <<image, loads, fsbl, scheduled, conf, XMpuPl_Initialized, ipis>>
  BY DEF SetUpUnit, pmuVars
<1>2. CASE UNCHANGED apps
  BY <1>1, <1>2, ControlFrame DEF controlVars
<1>3. ASSUME NEW from \in SetupSteps \ {"done"}, NEW to \in SetupSteps \ {"done"}, Setup(from, to)
      PROVE  ControlInv'
  <2> DEFINE app == [apps["RPU0"] EXCEPT !.setup = to]
  <2>1. AppIsFine("RPU0", apps["RPU0"]) /\ apps["RPU0"].setup # "done"
    BY <1>3, ProgramIsFine DEF Setup
  <2>2. apps' = [apps EXCEPT !["RPU0"] = app]
    BY <1>3 DEF Setup, ControlInv, AppsInv
  <2>3. app \in Apps
    BY <2>1 DEF AppIsFine, Apps
  <2>4. AppIsFine("RPU0", app)
    BY <2>1, <2>3 DEF AppIsFine, Apps
  <2> QED BY <1>1, <2>2, <2>4, OneProgramMoves
<1>4. CASE /\ apps["RPU0"].setup = "CONFIG"
           /\ apps' = [apps EXCEPT !["RPU0"].setup = "done", !["RPU0"].fresh = TRUE]
  <2> DEFINE app == [apps["RPU0"] EXCEPT !.setup = "done", !.fresh = TRUE]
  <2>1. AppIsFine("RPU0", apps["RPU0"])
    BY ProgramIsFine
  <2>2. apps' = [apps EXCEPT !["RPU0"] = app]
    BY <1>4 DEF ControlInv, AppsInv
  <2>3. app \in Apps
    BY <2>1 DEF AppIsFine, Apps, SetupSteps
  <2>4. AppIsFine("RPU0", app)
    BY <1>4, <2>1, <2>3 DEF AppIsFine, Apps
  <2> QED BY <1>1, <2>2, <2>4, OneProgramMoves
<1>5. ASSUME NEW step \in DOMAIN Then, Setup(step, Then[step])
      PROVE  ControlInv'
  BY <1>3, <1>5, ThenFacts DEF Preparations, SetupSteps
<1>6. CASE \/ Setup("INIT", "CTRL")
           \/ Setup("ADD0", "STATUS0") \/ Setup("ADD1", "STATUS1")
           \/ Setup("STATUS0", "ADD1") \/ Setup("STATUS1", "CONFIG")
  BY <1>3, <1>6 DEF SetupSteps, Preparations
<1> QED BY <1>2, <1>4, <1>5, <1>6 DEF SetUpUnit

LEMMA ControlInvNext == ControlInv /\ [Next]_vars => ControlInv'
<1>1. ControlInv /\ UNCHANGED vars => ControlInv'
  BY ControlFrame DEF vars, pmuVars, appVars, controlVars
<1>2. ControlInv /\ Programs => ControlInv'
  BY StartControl, RowsControl, SetUpControl, HandlersControl DEF Programs, RpuMain, ApuMain
<1> QED BY <1>1, <1>2, BootControl, ConfigureControl, HandlersControl DEF Next

LEMMA ControlInvariance == Spec => []ControlInv
  BY ControlInit, ControlInvNext, PTL DEF Spec

-----------------------------------------------------------------------------
(* Second layer: the registers.  The lock never shuts out the RPU, because   *)
(* whoever locks has let it past the lock before; no interrupt that is       *)
(* masked is raised.                                                         *)

GateInv ==
  /\ ctrl = AtReset.ctrl
  /\ bypass = {"PMU"} \/ bypass = XMPU_LOCK_MASTERS
  /\ lock \in BOOLEAN
  /\ lock \/ conf = "LOCK" \/ apps["RPU0"].setup = "LOCK" => "RPU0" \in bypass

InterruptInv ==
  /\ isr \subseteq Interrupts
  /\ imr \subseteq Interrupts
  /\ isr \cap imr = {}
  /\ handler.isr \subseteq Interrupts
  /\ irq.isr \subseteq Interrupts

\* The PMU and the RPU, the masters that configure the unit, can always write.
LEMMA ConfigurersMayWrite ==
  ASSUME GateInv, NEW m \in {"PMU", "RPU0"}
  PROVE  WriteAllowed(m)
  BY DEF GateInv, WriteAllowed, XMPU_LOCK_MASTERS

LEMMA AddRegionWritesRegions ==
  ASSUME NEW m, AddRegionWrite(m)
  PROVE  UNCHANGED <<ctrl, lock, bypass, imr, isr, poison>>
<1>1. call.pc \in {"START", "END", "MASTERS", "CONFIG"}
  BY DEF AddRegionWrite, Order
<1>2. CASE call.pc = "START"
  BY <1>2 DEF AddRegionWrite, WriteRegion
<1>3. CASE call.pc = "END"
  BY <1>3 DEF AddRegionWrite, WriteRegion
<1>4. CASE call.pc = "MASTERS"
  BY <1>4 DEF AddRegionWrite, WriteRegion
<1>5. CASE call.pc = "CONFIG"
  BY <1>5 DEF AddRegionWrite, WriteRegion
<1> QED BY <1>1, <1>2, <1>3, <1>4, <1>5

\* What each preparation does to the gate.
LEMMA PrepareGate ==
  ASSUME GateInv, InterruptInv, NEW m \in {"PMU", "RPU0"}, NEW step \in Preparations,
         Prepare(m, step), step = "LOCK" => "RPU0" \in bypass
  PROVE  /\ ctrl' = AtReset.ctrl
         /\ bypass' = {"PMU"} \/ bypass' = XMPU_LOCK_MASTERS
         /\ lock' \in BOOLEAN
         /\ lock' \/ Then[step] = "LOCK" => "RPU0" \in bypass'
         /\ "RPU0" \in bypass => "RPU0" \in bypass'
         /\ isr' = isr /\ imr' \subseteq imr
         /\ UNCHANGED <<poison, regions>>
<1>1. WriteAllowed(m)
  BY ConfigurersMayWrite
<1>2. CASE step = "CTRL"
  BY <1>1, <1>2 DEF Prepare, WriteCtrl, XMPU_CTRL, AtReset, GateInv, Then
<1>3. CASE step = "BYPASS"
  BY <1>1, <1>3 DEF Prepare, WriteBypass, XMPU_LOCK_MASTERS, GateInv, Then
<1>4. CASE step = "LOCK"
  BY <1>1, <1>4 DEF Prepare, WriteLock, GateInv, Then
<1>5. CASE step = "IER"
  BY <1>1, <1>5 DEF Prepare, WriteIER, GateInv, Then
<1> QED BY <1>2, <1>3, <1>4, <1>5 DEF Preparations

\* A step that touches neither the gate nor the masks and sends nobody to LOCK.
LEMMA GateFrame ==
  ASSUME GateInv, UNCHANGED <<ctrl, lock, bypass>>,
         conf' = "LOCK" => conf = "LOCK",
         apps["RPU0"].setup' = "LOCK" => apps["RPU0"].setup = "LOCK"
  PROVE  GateInv'
  BY DEF GateInv

LEMMA InterruptFrame ==
  ASSUME InterruptInv, UNCHANGED <<imr, isr, handler, irq>>
  PROVE  InterruptInv'
  BY DEF InterruptInv

LEMMA ConfigureRegisters ==
  ASSUME ControlInv, GateInv, InterruptInv, Configure
  PROVE  GateInv' /\ InterruptInv'
<1>1. UNCHANGED <<apps, handler, irq>>
  BY DEF Configure, configureXMPU, appVars
<1>2. CASE PrepareUnit
  <2>1. conf \in Preparations /\ Prepare("PMU", conf) /\ conf' = Then[conf]
    BY <1>2, ThenFacts DEF PrepareUnit
  <2>2. conf = "LOCK" => "RPU0" \in bypass
    BY DEF GateInv
  <2>3. PICK step \in Preparations : step = conf
    BY <2>1
  <2>4. GateInv'
    BY <1>1, <2>1, <2>2, <2>3, PrepareGate DEF GateInv
  <2>5. InterruptInv'
    BY <1>1, <2>1, <2>2, <2>3, PrepareGate DEF InterruptInv
  <2> QED BY <2>4, <2>5
<1>3. CASE ~PrepareUnit
  <2>1. UNCHANGED <<ctrl, lock, bypass, imr, isr>>
    BY <1>3, AddRegionWritesRegions DEF Configure, configureXMPU, xmpuVars
  <2>2. conf' # "LOCK" \/ conf' = conf
    BY <1>3 DEF Configure, configureXMPU, AddFirst, AddSecond, FirstAdded, SecondAdded
  <2> QED BY <1>1, <2>1, <2>2, GateFrame, InterruptFrame
<1> QED BY <1>2, <1>3

LEMMA SetUpRegisters ==
  ASSUME ControlInv, GateInv, InterruptInv, SetUpUnit
  PROVE  GateInv' /\ InterruptInv'
<1>1. UNCHANGED <<conf, handler, irq>>
  BY DEF SetUpUnit, pmuVars
<1>2. apps \in [{"RPU0", "APU"} -> Apps]
  BY DEF ControlInv, AppsInv
<1>3. ASSUME NEW step \in DOMAIN Then, Setup(step, Then[step]), Prepare("RPU0", step)
      PROVE  GateInv' /\ InterruptInv'
  <2>1. step \in Preparations
    BY <1>3, ThenFacts
  <2>2. /\ apps["RPU0"].setup = step
        /\ apps'["RPU0"].setup = Then[step]
    BY <1>2, <1>3 DEF Setup, Apps
  <2>3. step = "LOCK" => "RPU0" \in bypass
    BY <2>2 DEF GateInv
  <2>4. GateInv'
    BY <1>1, <1>3, <2>1, <2>2, <2>3, PrepareGate DEF GateInv
  <2>5. InterruptInv'
    BY <1>1, <1>3, <2>1, <2>3, PrepareGate DEF InterruptInv
  <2> QED BY <2>4, <2>5
<1>4. CASE ~ \E step \in DOMAIN Then : Setup(step, Then[step]) /\ Prepare("RPU0", step)
  <2>1. UNCHANGED <<ctrl, lock, bypass, imr, isr>>
    BY <1>4, AddRegionWritesRegions DEF SetUpUnit, xmpuVars
  <2>2. apps'["RPU0"].setup # "LOCK" \/ apps' = apps
    BY <1>2, <1>4 DEF SetUpUnit, Setup, Apps
  <2> QED BY <1>1, <2>1, <2>2, GateFrame, InterruptFrame
<1> QED BY <1>3, <1>4

LEMMA LoadRegisters ==
  ASSUME ControlInv, GateInv, InterruptInv, Load
  PROVE  GateInv' /\ InterruptInv'
<1>1. conf' = "idle" /\ apps'["RPU0"].setup = "done" /\ UNCHANGED <<handler, irq>>
  BY DEF Load, LoadBitstream, appVars
<1>2. XmpuReset
  BY DEF Load, LoadBitstream
<1> QED BY <1>1, <1>2 DEF XmpuReset, AtReset, GateInv, InterruptInv

\* An access, blocked or not.
LEMMA TransactRegisters ==
  ASSUME InterruptInv, NEW a, Transact(a), UNCHANGED <<handler, irq>>
  PROVE  /\ UNCHANGED <<ctrl, lock, bypass, imr, poison, regions>>
         /\ InterruptInv'
         /\ isr \subseteq isr'
<1>1. UNCHANGED <<ctrl, lock, bypass, imr, poison, regions>>
  BY DEF Transact
<1> DEFINE bits == {IF a.write THEN "WRVIO" ELSE "RDVIO", "SECVIO"}
<1>2. bits \subseteq Interrupts
  BY DEF Interrupts
<1>3. isr' = isr \/ isr' = (isr \ bits) \cup (bits \ imr)
  BY DEF Transact
<1> HIDE DEF bits
<1>4. InterruptInv' /\ isr \subseteq isr'
  BY <1>1, <1>2, <1>3 DEF InterruptInv
<1> QED BY <1>1, <1>4

\* The unit's own registers, written by a program: CTRL to what it is, and LOCK.
LEMMA RowsRegisters ==
  ASSUME ControlInv, GateInv, InterruptInv, NEW m \in {"RPU0", "APU"},
         AccessRow(m) \/ RegisterRow(m)
  PROVE  GateInv' /\ InterruptInv'
<1>1. UNCHANGED <<conf, handler, irq>>
  BY DEF AccessRow, RegisterRow, pmuVars
<1>2. apps'["RPU0"].setup = apps["RPU0"].setup
  BY NextRow DEF ControlInv, AppsInv
<1>3. CASE AccessRow(m)
  <2>1. Transact(AccessOf(m, apps[m].row))
    BY <1>3 DEF AccessRow
  <2> QED BY <1>1, <1>2, <2>1, TransactRegisters, GateFrame
<1>4. CASE RegisterRow(m)
  <2>1. WriteCtrl(m, AtReset.ctrl) \/ WriteLock(m, FALSE)
    BY <1>4 DEF RegisterRow
  <2>2. /\ ctrl' = AtReset.ctrl
        /\ lock' \in BOOLEAN /\ (lock' => lock)
        /\ UNCHANGED <<bypass, imr, isr>>
    BY <2>1 DEF WriteCtrl, WriteLock, GateInv
  <2> QED BY <1>1, <1>2, <2>2, InterruptFrame DEF GateInv
<1> QED BY <1>3, <1>4

\* Reading the violations, and clearing those that were read.
LEMMA HandlersRegisters ==
  ASSUME ControlInv, GateInv, InterruptInv, Handle \/ XMpuPl_IntrHandler
  PROVE  /\ GateInv'
         /\ InterruptInv'
         /\ UNCHANGED <<regions, poison>>
         /\ isr \ isr' \subseteq handler.isr \cup irq.isr
<1>1. UNCHANGED <<conf, apps>>
  BY DEF Handle, PL_ErrorHandler, XMpuPl_IntrHandler, pmuVars, appVars
<1>2. /\ UNCHANGED <<ctrl, lock, bypass, imr, regions, poison>>
      /\ isr' \subseteq isr
      /\ isr \ isr' \subseteq handler.isr \cup irq.isr
      /\ handler'.isr \in {{}, isr, handler.isr}
      /\ irq'.isr \in {{}, isr, irq.isr}
  <2>1. CASE Handle /\ (ReadStatus \/ Acknowledge)
    <3>1. UNCHANGED <<xmpuVars, irq>>
      BY <2>1 DEF Handle, ReadStatus, Acknowledge, appVars
    <3>2. handler'.isr \in {{}, isr}
      BY <2>1 DEF ReadStatus, Acknowledge, NotHandling
    <3> QED BY <3>1, <3>2 DEF xmpuVars
  <2>2. CASE Handle /\ XmpuPl_Interrupt_Handler
    BY <2>2 DEF Handle, XmpuPl_Interrupt_Handler, WriteISR, appVars
  <2>3. CASE IntrHandlerRead /\ XMpuPl_IntrHandler
    BY <2>3 DEF XMpuPl_IntrHandler, IntrHandlerRead, xmpuVars, pmuVars
  <2>4. CASE IntrHandlerClear /\ XMpuPl_IntrHandler
    BY <2>4 DEF XMpuPl_IntrHandler, IntrHandlerClear, NoIrq, WriteISR, pmuVars
  <2> QED BY <2>1, <2>2, <2>3, <2>4 DEF Handle, PL_ErrorHandler, XMpuPl_IntrHandler
<1>3. GateInv'
  BY <1>1, <1>2, GateFrame
<1>4. InterruptInv'
  BY <1>2 DEF InterruptInv
<1> QED BY <1>2, <1>3, <1>4

LEMMA OtherRegisters ==
  ASSUME ControlInv, GateInv, InterruptInv,
         BuildAndFlash \/ Boot \/ Task \/ Events \/ StartSome \/ RpuSelfTest
  PROVE  /\ GateInv' /\ InterruptInv'
         /\ UNCHANGED <<regions, isr>>
<1>1. CASE BuildAndFlash \/ Boot
  <2>1. UNCHANGED <<ctrl, lock, bypass, imr, isr, regions, conf, apps, handler, irq>>
    BY <1>1 DEF BuildAndFlash, Flash, Boot, ModSchInit, EmCfgInit, FsblCompletes,
       CheckFsblCompletion, xmpuVars, pmuVars, appVars
  <2> QED BY <2>1, GateFrame, InterruptFrame
<1>2. CASE Task
  <2>1. /\ UNCHANGED <<ctrl, lock, bypass, imr, isr, regions, apps, handler, irq>>
        /\ conf' = "CTRL"
    BY <1>2 DEF Task, XMpuPl_PmuTask, xmpuVars, appVars
  <2> QED BY <2>1, GateFrame, InterruptFrame
<1>3. CASE Events
  <2>1. /\ UNCHANGED <<ctrl, lock, bypass, imr, isr, regions, conf, apps, irq>>
        /\ handler'.isr = {} \/ UNCHANGED handler
    BY <1>3 DEF Events, EmEventHandler, EmIpiHandler, xmpuVars, appVars
  <2> QED BY <2>1, GateFrame DEF InterruptInv
<1>4. CASE StartSome
  <2>1. UNCHANGED <<ctrl, lock, bypass, imr, isr, regions, conf, handler, irq>>
    BY <1>4 DEF StartSome, xmpuVars, pmuVars
  <2>2. apps'["RPU0"].setup = apps["RPU0"].setup \/ apps'["RPU0"].setup \in {"INIT", "done"}
    <3>1. PICK m \in {"RPU0", "APU"},
               program \in {"fault_injection", "self_test", "simple_example"},
               secure \in BOOLEAN : Start(m, program, secure)
      BY <1>4 DEF StartSome
    <3>2. PICK app \in Apps : /\ apps' = [apps EXCEPT ![m] = app]
                              /\ app.setup \in {"INIT", "done"}
      BY <3>1, StartedProgram
    <3> QED BY <3>2 DEF ControlInv, AppsInv
  <2> QED BY <2>1, <2>2, GateFrame, InterruptFrame
<1>5. CASE RpuSelfTest
  <2>1. UNCHANGED <<ctrl, lock, bypass, imr, isr, regions, conf, apps, handler, irq>>
    BY <1>5 DEF RpuSelfTest, SelfTestBegin, SelfTestWrite, SelfTestVerify, SelfTestRestore,
       WritePoison, xmpuVars, pmuVars, appVars
  <2> QED BY <2>1, GateFrame, InterruptFrame
<1> QED BY <1>1, <1>2, <1>3, <1>4, <1>5

LEMMA RegistersNext ==
  ControlInv /\ GateInv /\ InterruptInv /\ [Next]_vars => GateInv' /\ InterruptInv'
<1>1. GateInv /\ InterruptInv /\ UNCHANGED vars => GateInv' /\ InterruptInv'
  BY GateFrame, InterruptFrame DEF vars, xmpuVars, pmuVars, appVars
<1>2. ControlInv /\ GateInv /\ InterruptInv /\ Programs => GateInv' /\ InterruptInv'
  BY RowsRegisters, SetUpRegisters, HandlersRegisters, OtherRegisters
     DEF Programs, RpuMain, ApuMain
<1> QED
  BY <1>1, <1>2, ConfigureRegisters, LoadRegisters, HandlersRegisters, OtherRegisters DEF Next

LEMMA RegistersInvariance == Spec => [](ControlInv /\ GateInv /\ InterruptInv)
<1>1. ASSUME Init PROVE GateInv
  <2>1. /\ ctrl = AtReset.ctrl
        /\ lock = FALSE
        /\ bypass = {"PMU"}
    BY <1>1 DEF Init, XmpuInit, AtReset
  <2>2. conf = "idle" /\ apps["RPU0"].setup = "done"
    BY <1>1 DEF Init, PmuInit, AppInit, NoApp
  <2> QED BY <2>1, <2>2 DEF GateInv
<1>2. Init => InterruptInv
  BY DEF Init, XmpuInit, PmuInit, AppInit, InterruptInv, NotHandling, NoIrq
<1> QED BY <1>1, <1>2, RegistersNext, ControlInvariance, PTL DEF Spec

-----------------------------------------------------------------------------
(* The self test, and the violations *)

TestInv ==
  /\ test \in [pc : {"none", "write", "verify", "restore", "done"}, by : {"RPU0"},
               saved : {ResetPoison}]
  /\ poison \in {ResetPoison, "0xDEADBEEF"}
  /\ test.pc \in {"none", "write", "done"} => poison = ResetPoison

\* All steps but the self test and a reset of the unit leave POISON alone, and
\* clear no violation that a handler did not read.
LEMMA OthersKeepPoison ==
  ASSUME ControlInv, GateInv, InterruptInv, [Next]_vars, ~RpuSelfTest, ~Load
  PROVE  UNCHANGED <<test, poison>> /\ isr \ isr' \subseteq handler.isr \cup irq.isr
<1>1. CASE Configure
  <2>1. CASE PrepareUnit
    <3>1. PICK step \in Preparations : step = conf /\ Prepare("PMU", step)
      BY <2>1, ThenFacts DEF PrepareUnit
    <3> QED BY <1>1, <3>1, PrepareGate DEF Configure, GateInv
  <2>2. CASE ~PrepareUnit
    BY <1>1, <2>2, AddRegionWritesRegions DEF Configure, configureXMPU, xmpuVars
  <2> QED BY <2>1, <2>2
<1>2. CASE SetUpUnit
  <2>1. UNCHANGED test
    BY <1>2 DEF SetUpUnit
  <2>2. ASSUME NEW step \in DOMAIN Then, Setup(step, Then[step]), Prepare("RPU0", step)
        PROVE  UNCHANGED <<isr, poison>>
    <3>1. step \in Preparations /\ (step = "LOCK" => "RPU0" \in bypass)
      BY <2>2, ThenFacts DEF Setup, GateInv
    <3> QED BY <2>2, <3>1, PrepareGate
  <2>3. CASE ~ \E step \in DOMAIN Then : Setup(step, Then[step]) /\ Prepare("RPU0", step)
    BY <1>2, <2>3, AddRegionWritesRegions DEF SetUpUnit, xmpuVars
  <2> QED BY <2>1, <2>2, <2>3
<1>3. ASSUME NEW m \in {"RPU0", "APU"}, AccessRow(m)
      PROVE  UNCHANGED <<test, poison>> /\ isr \ isr' \subseteq handler.isr \cup irq.isr
  BY <1>3, TransactRegisters DEF AccessRow, driverVars, GateInv
<1>4. ASSUME NEW m \in {"RPU0", "APU"}, RegisterRow(m)
      PROVE  UNCHANGED <<test, poison, isr>>
  BY <1>4 DEF RegisterRow, WriteCtrl, WriteLock, driverVars
<1>5. CASE Handle \/ XMpuPl_IntrHandler
  BY <1>5, HandlersRegisters DEF Handle, XMpuPl_IntrHandler, driverVars
<1>6. CASE BuildAndFlash \/ Boot \/ Task \/ Events \/ StartSome
  BY <1>6 DEF BuildAndFlash, Boot, Task, Events, StartSome, XMpuPl_PmuTask, xmpuVars, driverVars
<1>7. CASE UNCHANGED vars
  BY <1>7 DEF vars, xmpuVars, driverVars
<1> QED BY <1>1, <1>2, <1>3, <1>4, <1>5, <1>6, <1>7 DEF Next, Programs, RpuMain, ApuMain

LEMMA SelfTestKeepsTestInv ==
  ASSUME GateInv, TestInv, RpuSelfTest
  PROVE  TestInv' /\ UNCHANGED isr
<1> USE DEF TestInv
<1>1. CASE SelfTestBegin("RPU0")
  BY <1>1 DEF SelfTestBegin, xmpuVars
<1>2. CASE SelfTestWrite
  <2>1. WriteAllowed("RPU0")
    BY ConfigurersMayWrite
  <2> QED BY <1>2, <2>1 DEF SelfTestWrite, WritePoison
<1>3. CASE SelfTestVerify
  BY <1>3 DEF SelfTestVerify, xmpuVars
<1>4. CASE SelfTestRestore
  <2>1. WriteAllowed("RPU0")
    BY ConfigurersMayWrite
  <2> QED BY <1>4, <2>1 DEF SelfTestRestore, WritePoison
<1> QED BY <1>1, <1>2, <1>3, <1>4 DEF RpuSelfTest

LEMMA TestInvNext ==
  ControlInv /\ GateInv /\ InterruptInv /\ TestInv /\ [Next]_vars => TestInv'
<1>1. TestInv /\ UNCHANGED <<test, poison>> => TestInv'
  BY DEF TestInv
<1>2. TestInv /\ Load => TestInv'
  BY DEF Load, LoadBitstream, XmpuReset, driverVars, TestInv
<1> QED BY <1>1, <1>2, OthersKeepPoison, SelfTestKeepsTestInv

\* A self test of the RPU leaves POISON as it was, whoever locks the unit meanwhile
\* and whether or not it is reset (XMpuPL_SelfTest, xpfw_pl_xmpu.c).
THEOREM SelfTestRestores == Spec => []PoisonRestored
<1>1. Init => TestInv
  BY DEF Init, XmpuInit, DriverInit, NoTest, TestInv
<1>2. TestInv => PoisonRestored
  BY DEF TestInv, PoisonRestored
<1> QED BY <1>1, <1>2, TestInvNext, RegistersInvariance, PTL DEF Spec

\* A violation leaves the status register only when the PMU or the RPU has read it,
\* or when the unit is reset (PL_ErrorHandler, XMpuPl_IntrHandler).
THEOREM ViolationsAreSeen == Spec => NothingClearedUnseen
<1> DEFINE Seen == isr \ isr' \subseteq handler.isr \cup irq.isr \/ loads' # loads
<1>1. ControlInv /\ GateInv /\ InterruptInv /\ TestInv /\ [Next]_vars => [Seen]_vars
  <2> SUFFICES ASSUME ControlInv, GateInv, InterruptInv, TestInv, [Next]_vars PROVE Seen
    OBVIOUS
  <2>1. CASE Load
    BY <2>1 DEF Load, LoadBitstream, ControlInv, CountersInv
  <2>2. CASE ~Load
    BY <2>2, OthersKeepPoison, SelfTestKeepsTestInv
  <2> QED BY <2>1, <2>2
<1>2. Init => TestInv
  BY DEF Init, XmpuInit, DriverInit, NoTest, TestInv
<1> QED BY <1>1, <1>2, TestInvNext, RegistersInvariance, PTL DEF Spec, NothingClearedUnseen

-----------------------------------------------------------------------------
(* Third layer: the regions. *)

PageNumbers == 0 .. PAGE_NUMBERS - 1
RegionValues == [start : PageNumbers, end : PageNumbers, masters : SUBSET Masters,
                 config : SUBSET RegionFlags]

\* What one write of AddRegion leaves in its slot.
LEMMA OneRegisterWritten ==
  ASSUME GateInv, NEW m \in {"PMU", "RPU0"}, AddRegionWrite(m),
         regions \in [Slots -> RegionValues], call.slot \in Slots
  PROVE  LET old == regions[call.slot]
             new == regions'[call.slot]
             r   == call.request
         IN  /\ DOMAIN regions' = Slots
             /\ regions' = [i \in Slots |-> regions'[i]]
             /\ \A i \in Slots \ {call.slot} : regions'[i] = regions[i]
             /\ call.pc = "START" => new = [old EXCEPT !.start = r.start]
             /\ call.pc = "END" => new = [old EXCEPT !.end = EndAddr(r.start, r.size)]
             /\ call.pc = "MASTERS" => new = [old EXCEPT !.masters = r.masters]
             /\ call.pc = "CONFIG" => new = [old EXCEPT !.config = r.config \cup {"ENABLE"}]
<1>1. WriteAllowed(m)
  BY ConfigurersMayWrite
<1>2. call.pc \in {"START", "END", "MASTERS", "CONFIG"}
  BY DEF AddRegionWrite, Order
<1>3. CASE call.pc = "START"
  BY <1>1, <1>3 DEF AddRegionWrite, WriteRegion
<1>4. CASE call.pc = "END"
  BY <1>1, <1>4 DEF AddRegionWrite, WriteRegion
<1>5. CASE call.pc = "MASTERS"
  BY <1>1, <1>5 DEF AddRegionWrite, WriteRegion
<1>6. CASE call.pc = "CONFIG"
  BY <1>1, <1>6 DEF AddRegionWrite, WriteRegion
<1> QED BY <1>2, <1>3, <1>4, <1>5, <1>6

\* Where the configurer of the unit is, the PMU or the simple example.
Position == IF conf = "idle" THEN apps["RPU0"].setup ELSE conf

RequestAt(position) == IF position = "STATUS0" THEN REGION_0 ELSE REGION_1

\* A region as AddRegion leaves it.
Whole(r) == [start |-> r.start, end |-> EndAddr(r.start, r.size), masters |-> r.masters,
             config |-> r.config]

Writing == {"START", "END", "MASTERS", "CONFIG"}
CallPCs == {"none", "REGIONS", "added", "failed"} \cup Writing

RegionTypes ==
  /\ \E n \in RegionsMax : Slots = 0 .. n - 1
  /\ regions \in [Slots -> RegionValues]
  /\ inst.IsReady \in BOOLEAN
  /\ DOMAIN inst = {"IsReady", "MaxRegions", "Regs"}
  /\ inst.MaxRegions \in {0, Cardinality(Slots)}
  /\ DOMAIN call = {"pc", "request", "slot"}
  /\ call.pc \in CallPCs
  /\ call.slot \in 0 .. inst.MaxRegions

CallInv ==
  /\ call.pc # "none" => Position \in {"STATUS0", "STATUS1"}
  /\ call.pc \in Writing \cup {"REGIONS"}
       => call.slot \in Slots /\ call.request = RequestAt(Position)
  /\ call.pc \in Writing => ~Enabled(call.slot)
  /\ call.pc \in {"END", "MASTERS", "CONFIG"}
       => regions[call.slot].start = call.request.start
  /\ call.pc \in {"MASTERS", "CONFIG"}
       => regions[call.slot].end = EndAddr(call.request.start, call.request.size)
  /\ call.pc = "CONFIG" => regions[call.slot].masters = call.request.masters
  /\ call.pc = "REGIONS" => regions[call.slot] = Whole(call.request)

WholeInv == RegionTypes /\ CallInv /\ EnabledRegionsAreWhole

LEMMA SlotFacts ==
  ASSUME RegionTypes
  PROVE  /\ IsFiniteSet(Slots)
         /\ Cardinality(Slots) \in 1 .. 16
         /\ Slots = 0 .. Cardinality(Slots) - 1
<1>1. PICK n \in RegionsMax : Slots = 0 .. n - 1
  BY DEF RegionTypes
<1>2. n \in 1 .. 16
  BY RegionsMaxAssumption
<1>3. IsFiniteSet(0 .. n - 1) /\ Cardinality(0 .. n - 1) = n
  BY <1>2, FS_Interval
<1> QED BY <1>1, <1>2, <1>3

\* The slots are numbers, however many there are.
LEMMA SlotsAreNumbers ==
  ASSUME RegionTypes
  PROVE  \A i \in Slots : i \in Nat
<1>1. PICK n \in RegionsMax : Slots = 0 .. n - 1
  BY DEF RegionTypes
<1>2. n \in Int
  BY RegionsMaxAssumption
<1>3. \A i \in 0 .. n - 1 : i \in Nat
  BY <1>2
<1> QED BY <1>1, <1>3

\* The two regions the PMU and the example configure.
LEMMA RequestFacts ==
  /\ \A r \in {REGION_0, REGION_1} :
       /\ Whole(r) \in RegionValues
       /\ "ENABLE" \in r.config
       /\ r.config \cup {"ENABLE"} = r.config
       /\ Accepts(r.start, r.size)
  /\ EndAddr(REGION_0.start, REGION_0.size) = BRAM + 3
  /\ EndAddr(REGION_1.start, REGION_1.size) = BRAM + 15
<1>1. EndAddr(REGION_0.start, REGION_0.size) = BRAM + 3
  BY FirmwareAssumption, DriverAssumption DEF EndAddr, REGION_0, PL_BRAM_S_BASE
<1>2. EndAddr(REGION_1.start, REGION_1.size) = BRAM + 15
  BY FirmwareAssumption, DriverAssumption DEF EndAddr, REGION_1, PL_BRAM_NS_BASE
<1>3. Accepts(REGION_0.start, REGION_0.size)
  BY <1>1, FirmwareAssumption, DriverAssumption DEF Accepts, REGION_0, PL_BRAM_S_BASE
<1>4. Accepts(REGION_1.start, REGION_1.size)
  BY <1>2, FirmwareAssumption, DriverAssumption DEF Accepts, REGION_1, PL_BRAM_NS_BASE
<1>5. Whole(REGION_0) \in RegionValues /\ Whole(REGION_1) \in RegionValues
  BY <1>1, <1>2, FirmwareAssumption, DriverAssumption
     DEF Whole, RegionValues, PageNumbers, REGION_0, REGION_1, PL_BRAM_S_BASE,
         PL_BRAM_NS_BASE, Masters, RegionFlags
<1>6. \A r \in {REGION_0, REGION_1} : "ENABLE" \in r.config
  BY DEF REGION_0, REGION_1
<1> QED BY <1>1, <1>2, <1>3, <1>4, <1>5, <1>6

\* The design's first unit is found, with the regions it has.
LEMMA LookupFacts == XMpuPl_LookupConfig(0).MaxRegions = Cardinality(Slots)
<1> DEFINE entries == {ConfigTable[i] : i \in 0 .. NumInstances - 1}
<1>1. NumInstances \in 1 .. 16
  BY DriverAssumption
<1>2. ASSUME NEW i \in 0 .. NumInstances - 1
      PROVE  ConfigTable[i].MaxRegions = Cardinality(Slots) /\ ConfigTable[i].DeviceId = i
  <2>1. i \in 0 .. 15 /\ i < NumInstances
    BY <1>1
  <2>2. ConfigTable[i] = [DeviceId |-> DeviceIdOf(i), MaxRegions |-> RegionsMaxOf(i)]
    BY <2>1 DEF ConfigTable
  <2> QED BY <2>1, <2>2 DEF DeviceIdOf, RegionsMaxOf
<1>3. 0 \in 0 .. NumInstances - 1
  BY <1>1
<1>4. ConfigTable[0] \in entries /\ ConfigTable[0].DeviceId = 0
  BY <1>2, <1>3
<1>5. ASSUME NEW entry \in entries PROVE entry.MaxRegions = Cardinality(Slots)
  <2>1. PICK i \in 0 .. NumInstances - 1 : entry = ConfigTable[i]
    OBVIOUS
  <2> QED BY <2>1, <1>2
<1> HIDE DEF entries
<1> QED BY <1>4, <1>5 DEF XMpuPl_LookupConfig, entries

\* A non-empty set of naturals has a smallest element.
LEMMA SmallestExists ==
  ASSUME NEW S \in SUBSET Nat, S # {}
  PROVE  \E x \in S : \A y \in S : x <= y
<1> DEFINE R == {ss \in Nat \X Nat : ss[1] < ss[2]}
<1>1. OpToRel(<, Nat) = R
  BY Zenon DEF OpToRel
<1>2. IsWellFoundedOn(R, Nat)
  BY <1>1, NatLessThanWellFounded, Zenon
<1> HIDE DEF R
<1>3. PICK x \in S : \A y \in S : ~(<<y, x>> \in R)
  BY <1>2, WFMin
<1>4. ASSUME NEW y \in S PROVE x <= y
  <2>1. x \in Nat /\ y \in Nat
    OBVIOUS
  <2>2. y < x => <<y, x>> \in R
    BY <2>1 DEF R
  <2> QED BY <1>3, <2>1, <2>2
<1> QED BY <1>4

\* The slot AddRegion takes, when it takes one, is a disabled one of the unit.
LEMMA NextRegionIsFree ==
  ASSUME RegionTypes
  PROVE  /\ inst.MaxRegions \in Nat
         /\ FreeSlots # {} => /\ NextRegion \in Slots
                              /\ NextRegion \in 0 .. inst.MaxRegions - 1
                              /\ ~Enabled(NextRegion)
         /\ FreeSlots = {} => NextRegion = inst.MaxRegions
<1>1. inst.MaxRegions \in Nat /\ 0 .. inst.MaxRegions - 1 \subseteq Slots
  <2>1. PICK n \in 1 .. 16 : n = Cardinality(Slots) /\ Slots = 0 .. n - 1
    BY SlotFacts
  <2>2. inst.MaxRegions = 0 \/ inst.MaxRegions = n
    BY <2>1 DEF RegionTypes
  <2>3. CASE inst.MaxRegions = 0
    <3>1. 0 .. 0 - 1 = {}
      OBVIOUS
    <3> QED BY <2>3, <3>1
  <2>4. CASE inst.MaxRegions = n
    <3>1. n \in Nat
      BY <2>1
    <3> QED BY <2>1, <2>4, <3>1, Zenon
  <2> QED BY <2>2, <2>3, <2>4
<1>2. CASE FreeSlots # {}
  <2>1. FreeSlots \in SUBSET Nat
    BY <1>1 DEF FreeSlots
  <2>2. NextRegion \in FreeSlots
    BY <1>2, <2>1, SmallestExists DEF NextRegion
  <2> QED BY <1>1, <1>2, <2>2 DEF FreeSlots
<1>3. CASE FreeSlots = {}
  BY <1>1, <1>3 DEF NextRegion
<1> QED BY <1>1, <1>2, <1>3

\* Nothing of the unit or of the call changes, or there is no call.
LEMMA WholeFrame ==
  ASSUME WholeInv, UNCHANGED <<regions, call>>,
         inst'.IsReady \in BOOLEAN, DOMAIN inst' = {"IsReady", "MaxRegions", "Regs"},
         inst'.MaxRegions \in {inst.MaxRegions, Cardinality(Slots)},
         Position' = Position \/ call.pc = "none"
  PROVE  WholeInv'
<1>1. Slots' = Slots
  BY DEF Slots
<1>2. RegionTypes'
  BY <1>1, SlotFacts DEF WholeInv, RegionTypes
<1>3. CallInv'
  BY <1>1 DEF WholeInv, CallInv, Enabled, Writing
<1>4. EnabledRegionsAreWhole'
  BY <1>1 DEF WholeInv, EnabledRegionsAreWhole, Enabled
<1> QED BY <1>2, <1>3, <1>4 DEF WholeInv

\* A call of AddRegion begins, or fails at once.
LEMMA AddRegionKeepsWhole ==
  ASSUME WholeInv, UNCHANGED <<regions, inst>>, Position' \in {"STATUS0", "STATUS1"},
         AddRegion(RequestAt(Position'))
  PROVE  WholeInv'
<1>1. Slots' = Slots /\ \A i : Enabled(i)' = Enabled(i)
  BY DEF Slots, Enabled
<1> DEFINE r == RequestAt(Position')
<1>2. CASE call' = [pc |-> "START", request |-> r, slot |-> NextRegion]
             /\ NextRegion < inst.MaxRegions
  <2>1. /\ NextRegion \in Slots
        /\ NextRegion \in 0 .. inst.MaxRegions
        /\ ~Enabled(NextRegion)
    BY <1>2, NextRegionIsFree DEF WholeInv
  <2>2. call'.pc = "START" /\ call'.slot = NextRegion /\ call'.request = RequestAt(Position)'
    BY <1>2 DEF RequestAt
  <2>3. RegionTypes'
    BY <1>1, <1>2, <2>1 DEF WholeInv, RegionTypes, CallPCs, Writing
  <2>4. CallInv'
    BY <1>1, <2>1, <2>2 DEF CallInv, Writing
  <2> QED BY <1>1, <2>3, <2>4 DEF WholeInv, EnabledRegionsAreWhole
<1>3. CASE call' = [NoCall EXCEPT !.pc = "failed"]
  <2>1. call' = [pc |-> "failed", request |-> NoRequest, slot |-> 0]
    BY <1>3 DEF NoCall
  <2>2. RegionTypes'
    BY <1>1, <2>1, NextRegionIsFree DEF WholeInv, RegionTypes, CallPCs
  <2>3. CallInv'
    BY <2>1 DEF CallInv, Writing
  <2> QED BY <1>1, <2>2, <2>3 DEF WholeInv, EnabledRegionsAreWhole
<1> QED BY <1>2, <1>3 DEF AddRegion

\* A register of the region is written.
LEMMA WriteKeepsWhole ==
  ASSUME WholeInv, GateInv, UNCHANGED inst, Position' = Position,
         NEW m \in {"PMU", "RPU0"}, AddRegionWrite(m)
  PROVE  WholeInv'
<1> DEFINE s == call.slot
           r == call.request
<1>1. /\ call.pc \in Writing
      /\ call' = [call EXCEPT !.pc = Order[call.pc]]
  BY DEF AddRegionWrite, Order, Writing
<1>2. /\ s \in Slots
      /\ ~Enabled(s)
      /\ r = RequestAt(Position)
      /\ r \in {REGION_0, REGION_1}
      /\ regions \in [Slots -> RegionValues]
  BY <1>1 DEF WholeInv, CallInv, RegionTypes, RequestAt
<1>3. /\ call'.slot = s /\ call'.request = r
      /\ call'.pc = Order[call.pc]
      /\ DOMAIN call' = DOMAIN call
  BY <1>1 DEF WholeInv, RegionTypes
<1>4. /\ DOMAIN regions' = Slots
      /\ \A i \in Slots \ {s} : regions'[i] = regions[i]
  BY <1>2, OneRegisterWritten
<1>5. Slots' = Slots
  BY <1>4 DEF Slots
<1>6. regions[s] \in RegionValues /\ Whole(r) \in RegionValues
  BY <1>2, RequestFacts
<1>7. /\ regions'[s] \in RegionValues
      /\ call.pc # "CONFIG" => regions'[s].config = regions[s].config
      /\ call.pc = "START" => regions'[s].start = r.start
      /\ call.pc = "END" => /\ regions'[s].start = regions[s].start
                            /\ regions'[s].end = EndAddr(r.start, r.size)
      /\ call.pc = "MASTERS" => /\ regions'[s].start = regions[s].start
                                /\ regions'[s].end = regions[s].end
                                /\ regions'[s].masters = r.masters
      /\ call.pc = "CONFIG" => regions'[s] = Whole(r)
  <2>1. CASE call.pc = "START"
    BY <1>2, <1>6, <2>1, OneRegisterWritten DEF RegionValues, Whole
  <2>2. CASE call.pc = "END"
    BY <1>2, <1>6, <2>2, OneRegisterWritten DEF RegionValues, Whole
  <2>3. CASE call.pc = "MASTERS"
    BY <1>2, <1>6, <2>3, OneRegisterWritten DEF RegionValues, Whole
  <2>4. CASE call.pc = "CONFIG"
    <3>1. regions'[s] = [regions[s] EXCEPT !.config = r.config]
      BY <1>2, <2>4, OneRegisterWritten, RequestFacts
    <3>2. /\ regions[s].start = r.start
          /\ regions[s].end = EndAddr(r.start, r.size)
          /\ regions[s].masters = r.masters
      BY <2>4 DEF WholeInv, CallInv
    <3> QED BY <1>6, <2>4, <3>1, <3>2 DEF RegionValues, Whole
  <2> QED BY <1>1, <2>1, <2>2, <2>3, <2>4 DEF Writing
<1>8. RegionTypes'
  <2>1. regions' \in [Slots -> RegionValues]
    <3>1. \A i \in Slots : regions'[i] \in RegionValues
      BY <1>2, <1>4, <1>7
    <3>2. regions' = [i \in Slots |-> regions'[i]]
      BY <1>4, OneRegisterWritten, <1>2
    <3> QED BY <3>1, <3>2
  <2>2. call'.pc \in CallPCs
    BY <1>1, <1>3 DEF Order, Writing, CallPCs
  <2> QED BY <1>3, <1>5, <2>1, <2>2 DEF WholeInv, RegionTypes
<1>9. CallInv'
  <2>1. CASE call.pc # "CONFIG"
    <3>1. ~Enabled(s)'
      BY <1>2, <1>3, <1>7, <2>1 DEF Enabled
    <3>2. call'.pc \in {"END", "MASTERS", "CONFIG"}
      BY <1>1, <1>3, <2>1 DEF Order, Writing
    <3>3. /\ regions'[s].start = r.start
          /\ call'.pc \in {"MASTERS", "CONFIG"} => regions'[s].end = EndAddr(r.start, r.size)
          /\ call'.pc = "CONFIG" => regions'[s].masters = r.masters
      BY <1>1, <1>3, <1>7, <2>1 DEF Order, Writing, WholeInv, CallInv
    <3> QED BY <1>1, <1>2, <1>3, <1>5, <3>1, <3>2, <3>3 DEF CallInv, Writing, WholeInv
  <2>2. CASE call.pc = "CONFIG"
    <3>1. call'.pc = "REGIONS"
      BY <1>3, <2>2 DEF Order
    <3> QED BY <1>1, <1>2, <1>3, <1>5, <1>7, <2>2, <3>1 DEF CallInv, Writing, WholeInv
  <2> QED BY <2>1, <2>2
<1>10. EnabledRegionsAreWhole'
  <2>1. ASSUME NEW i \in Slots, i # s, Enabled(i)'
        PROVE  \E q \in {REGION_0, REGION_1} : regions'[i] = Whole(q)
    <3>1. regions'[i] = regions[i] /\ Enabled(i)
      BY <1>4, <2>1 DEF Enabled
    <3> QED BY <2>1, <3>1 DEF WholeInv, EnabledRegionsAreWhole, Whole
  <2>2. ASSUME Enabled(s)' PROVE regions'[s] = Whole(r)
    BY <1>1, <1>2, <1>3, <1>7, <2>2 DEF Enabled
  <2> QED BY <1>2, <1>3, <1>5, <2>1, <2>2 DEF EnabledRegionsAreWhole, Whole
<1> QED BY <1>8, <1>9, <1>10 DEF WholeInv

\* The call counts the regions, or its caller reads the status.
LEMMA CallReturnsKeepsWhole ==
  ASSUME WholeInv, UNCHANGED regions, call'.pc \in {"none", "added", "failed"},
         DOMAIN call' = {"pc", "request", "slot"}, call'.slot = 0,
         call'.pc # "none" => Position' \in {"STATUS0", "STATUS1"},
         UNCHANGED <<inst.IsReady, inst.MaxRegions>>,
         DOMAIN inst' = {"IsReady", "MaxRegions", "Regs"}
  PROVE  WholeInv'
<1>1. Slots' = Slots /\ \A i : Enabled(i)' = Enabled(i)
  BY DEF Slots, Enabled
<1>2. RegionTypes'
  BY <1>1, NextRegionIsFree DEF WholeInv, RegionTypes, CallPCs
<1>3. CallInv'
  BY DEF CallInv, Writing
<1>4. EnabledRegionsAreWhole'
  BY <1>1 DEF WholeInv, EnabledRegionsAreWhole
<1> QED BY <1>2, <1>3, <1>4 DEF WholeInv

-----------------------------------------------------------------------------

\* One configurer at a time: while the PMU configures, or in an image that would,
\* no simple example sets the unit up.
LEMMA OneConfigurer ==
  ASSUME ControlInv
  PROVE  /\ conf # "idle" \/ scheduled => apps["RPU0"].setup = "done"
         /\ apps["RPU0"].setup # "done" => conf = "idle" /\ ~scheduled
         /\ apps["RPU0"].program = "none" => apps["RPU0"].setup = "done"
  BY DEF ControlInv, PmuInv, AppsInv

\* The steps of everybody who does not configure.
LEMMA OthersKeepCall ==
  ASSUME ControlInv, CallInv, [Next]_vars,
         ~Load, ~Task, ~Configure, ~SetUpUnit
  PROVE  /\ UNCHANGED <<inst, call>>
         /\ Position' = Position \/ call.pc = "none"
<1>1. CASE StartSome
  <2>1. UNCHANGED <<inst, call, conf>>
    BY <1>1 DEF StartSome, driverVars, pmuVars
  <2>2. apps'["RPU0"] = apps["RPU0"] \/ apps["RPU0"].program = "none"
    BY <1>1 DEF StartSome, Start, ControlInv, AppsInv
  <2> QED BY <2>1, <2>2, OneConfigurer DEF Position, CallInv
<1>2. ASSUME NEW m \in {"RPU0", "APU"}, AccessRow(m) \/ RegisterRow(m)
      PROVE  UNCHANGED <<inst, call>> /\ Position' = Position
  <2>1. UNCHANGED <<inst, call, conf>>
    BY <1>2 DEF AccessRow, RegisterRow, driverVars, pmuVars
  <2>2. apps'["RPU0"].setup = apps["RPU0"].setup
    BY <1>2, NextRow DEF ControlInv, AppsInv
  <2> QED BY <2>1, <2>2 DEF Position
<1>3. CASE BuildAndFlash \/ Boot
  BY <1>3 DEF BuildAndFlash, Flash, Boot, ModSchInit, EmCfgInit, FsblCompletes,
     CheckFsblCompletion, Position, driverVars, appVars, pmuVars
<1>4. CASE Events \/ Handle
  BY <1>4 DEF Events, EmEventHandler, EmIpiHandler, Handle, PL_ErrorHandler, Position,
     driverVars, appVars
<1>5. CASE RpuSelfTest \/ XMpuPl_IntrHandler
  BY <1>5 DEF RpuSelfTest, XMpuPl_IntrHandler, Position, driverVars, appVars, pmuVars
<1>6. CASE UNCHANGED vars
  BY <1>6 DEF vars, Position, driverVars, appVars, pmuVars
<1> QED BY <1>1, <1>2, <1>3, <1>4, <1>5, <1>6 DEF Next, Programs, RpuMain, ApuMain

LEMMA OthersKeepRegions ==
  ASSUME ControlInv, GateInv, InterruptInv, [Next]_vars,
         ~Load, ~Task, ~Configure, ~SetUpUnit
  PROVE  UNCHANGED regions
<1>1. ASSUME NEW m \in {"RPU0", "APU"}, AccessRow(m) \/ RegisterRow(m)
      PROVE  UNCHANGED regions
  BY <1>1 DEF AccessRow, RegisterRow, Transact, WriteCtrl, WriteLock
<1>2. CASE UNCHANGED vars
  BY <1>2 DEF vars, xmpuVars
<1> QED
  BY <1>1, <1>2, HandlersRegisters, OtherRegisters DEF Next, Programs, RpuMain, ApuMain

\* A bitstream resets the unit; nobody configures it at that time.
LEMMA LoadResets ==
  ASSUME ControlInv, Load
  PROVE  /\ UNCHANGED <<inst, call, conf, apps, scheduled, image>>
         /\ Position = "done" /\ Position' = "done"
         /\ regions' = [i \in Slots |-> AtReset.region]
         /\ loads' = loads + 1
         /\ AtReset.region \in RegionValues
         /\ "ENABLE" \notin AtReset.region.config
<1>1. /\ UNCHANGED <<inst, call, conf, apps, scheduled, image>>
      /\ conf = "idle" /\ apps["RPU0"].setup = "done"
      /\ regions' = [i \in Slots |-> AtReset.region]
      /\ loads' = loads + 1
  BY DEF Load, LoadBitstream, XmpuReset, driverVars, appVars
<1>2. AtReset.region \in RegionValues /\ "ENABLE" \notin AtReset.region.config
  BY DriverAssumption DEF AtReset, RegionValues, PageNumbers, Masters, RegionFlags
<1> QED BY <1>1, <1>2 DEF Position

LEMMA LoadKeepsWhole ==
  ASSUME ControlInv, WholeInv, Load
  PROVE  WholeInv'
<1>1. Slots' = Slots /\ \A i \in Slots : ~Enabled(i)'
  BY LoadResets DEF Slots, Enabled
<1>2. call.pc = "none" /\ UNCHANGED <<call, inst>>
  BY LoadResets DEF WholeInv, CallInv
<1>3. RegionTypes'
  BY <1>1, <1>2, LoadResets DEF WholeInv, RegionTypes
<1>4. CallInv'
  BY <1>2 DEF CallInv, Writing
<1> QED BY <1>1, <1>3, <1>4 DEF WholeInv, EnabledRegionsAreWhole

LEMMA TaskKeepsWhole ==
  ASSUME ControlInv, WholeInv, Task
  PROVE  WholeInv'
<1>1. /\ UNCHANGED <<regions, call>>
      /\ inst' = [inst EXCEPT !.IsReady = TRUE, !.MaxRegions = Cardinality(Slots)]
      /\ conf = "idle" /\ scheduled
  BY LookupFacts DEF Task, XMpuPl_PmuTask, XMpuPl_CfgInitialize, xmpuVars
<1>2. call.pc = "none"
  BY <1>1, OneConfigurer DEF WholeInv, CallInv, Position
<1> QED BY <1>1, <1>2, WholeFrame DEF WholeInv, RegionTypes

\* What a status read by the caller leaves: no call.
LEMMA NoCallFacts ==
  /\ NoCall.pc = "none" /\ NoCall.slot = 0
  /\ DOMAIN NoCall = {"pc", "request", "slot"}
  /\ \A pc : /\ [NoCall EXCEPT !.pc = pc].pc = pc
             /\ [NoCall EXCEPT !.pc = pc].slot = 0
             /\ DOMAIN [NoCall EXCEPT !.pc = pc] = {"pc", "request", "slot"}
  BY DEF NoCall

LEMMA ConfigureKeepsWhole ==
  ASSUME ControlInv, GateInv, InterruptInv, WholeInv, Configure
  PROVE  WholeInv'
<1>1. conf # "idle" /\ UNCHANGED apps /\ Position = conf
  BY ThenFacts DEF Configure, configureXMPU, PrepareUnit, AddFirst, AddSecond, FirstAdded,
     SecondAdded, appVars, Position, Preparations
<1> USE DEF Position
<1>2. CASE PrepareUnit /\ UNCHANGED <<call, inst, XMpuPl_Initialized>>
  <2>1. PICK step \in Preparations : step = conf /\ Prepare("PMU", step)
    BY <1>2, ThenFacts DEF PrepareUnit
  <2>2. UNCHANGED regions
    BY <2>1, PrepareGate DEF GateInv
  <2>3. call.pc = "none"
    BY <1>1, <2>1 DEF WholeInv, CallInv, Preparations
  <2> QED BY <1>2, <2>2, <2>3, WholeFrame DEF WholeInv, RegionTypes
<1>3. CASE (AddFirst \/ AddSecond) /\ UNCHANGED <<xmpuVars, inst, XMpuPl_Initialized>>
  <2>1. conf' \in {"STATUS0", "STATUS1"} /\ AddRegion(RequestAt(conf'))
    BY <1>3 DEF AddFirst, AddSecond, RequestAt
  <2>2. Position' = conf'
    BY <2>1
  <2> QED BY <1>3, <2>1, <2>2, AddRegionKeepsWhole DEF xmpuVars
<1>4. CASE AddRegionWrite("PMU") /\ UNCHANGED <<inst, conf, XMpuPl_Initialized>>
  BY <1>1, <1>4, WriteKeepsWhole
<1>5. CASE AddRegionCheck /\ UNCHANGED <<xmpuVars, inst, conf, XMpuPl_Initialized>>
  <2>1. call'.pc \in {"added", "failed"} /\ call'.slot = 0
        /\ DOMAIN call' = {"pc", "request", "slot"} /\ call.pc = "REGIONS"
    BY <1>5, NoCallFacts DEF AddRegionCheck
  <2>2. Position' \in {"STATUS0", "STATUS1"}
    BY <1>1, <1>5, <2>1 DEF WholeInv, CallInv
  <2> QED BY <1>5, <2>1, <2>2, CallReturnsKeepsWhole DEF xmpuVars, WholeInv, RegionTypes
<1>6. CASE (FirstAdded \/ SecondAdded) /\ UNCHANGED xmpuVars
  <2>1. /\ call' = NoCall
        /\ inst' = inst \/ inst' = [inst EXCEPT !.Regs = regions]
    BY <1>6 DEF FirstAdded, SecondAdded, XMpuPl_GetConfig
  <2> QED BY <1>6, <2>1, NoCallFacts, CallReturnsKeepsWhole DEF xmpuVars, WholeInv, RegionTypes
<1> QED BY <1>2, <1>3, <1>4, <1>5, <1>6 DEF Configure, configureXMPU

LEMMA SetUpKeepsWhole ==
  ASSUME ControlInv, GateInv, InterruptInv, WholeInv, SetUpUnit
  PROVE  WholeInv'
<1>1. /\ conf' = "idle" /\ conf = "idle" /\ Position = apps["RPU0"].setup
      /\ Position' = apps'["RPU0"].setup
      /\ apps["RPU0"] \in Apps
      /\ apps \in [{"RPU0", "APU"} -> Apps]
  <2>1. UNCHANGED conf
    BY DEF SetUpUnit, pmuVars
  <2>2. apps["RPU0"].setup # "done"
    BY ThenFacts DEF SetUpUnit, Setup, SetupSteps, Preparations
  <2> QED BY <2>1, <2>2, OneConfigurer DEF Position, ControlInv, AppsInv
<1>2. ASSUME NEW from, NEW to, Setup(from, to)
      PROVE  Position = from /\ Position' = to
  BY <1>1, <1>2 DEF Setup, Apps
<1>3. CASE /\ Setup("INIT", "CTRL")
           /\ XMpuPl_CfgInitialize(XMpuPl_LookupConfig(0))
           /\ UNCHANGED <<xmpuVars, call>>
  <2>1. /\ UNCHANGED <<regions, call>>
        /\ inst' = [inst EXCEPT !.IsReady = TRUE, !.MaxRegions = Cardinality(Slots)]
    BY <1>3, LookupFacts DEF XMpuPl_CfgInitialize, xmpuVars
  <2>2. call.pc = "none"
    BY <1>2, <1>3 DEF WholeInv, CallInv
  <2> QED BY <2>1, <2>2, WholeFrame DEF WholeInv, RegionTypes
<1>4. ASSUME NEW step \in DOMAIN Then,
             Setup(step, Then[step]) /\ Prepare("RPU0", step) /\ UNCHANGED <<inst, call>>
      PROVE  WholeInv'
  <2>1. step \in Preparations /\ Position = step /\ apps["RPU0"].setup = step
    BY <1>1, <1>2, <1>4, ThenFacts
  <2>2. UNCHANGED regions
    BY <1>4, <2>1, PrepareGate DEF GateInv
  <2>3. call.pc = "none"
    BY <2>1 DEF WholeInv, CallInv, Preparations
  <2> QED BY <1>4, <2>2, <2>3, WholeFrame DEF WholeInv, RegionTypes
<1>5. CASE /\ \/ Setup("ADD0", "STATUS0") /\ AddRegion(REGION_0)
              \/ Setup("ADD1", "STATUS1") /\ AddRegion(REGION_1)
           /\ UNCHANGED <<xmpuVars, inst>>
  <2>1. Position' \in {"STATUS0", "STATUS1"} /\ AddRegion(RequestAt(Position'))
    BY <1>2, <1>5 DEF RequestAt
  <2> QED BY <1>5, <2>1, AddRegionKeepsWhole DEF xmpuVars
<1>6. CASE UNCHANGED <<inst, apps>> /\ AddRegionWrite("RPU0")
  BY <1>1, <1>6, WriteKeepsWhole
<1>7. CASE UNCHANGED <<inst, apps, xmpuVars>> /\ AddRegionCheck
  <2>1. call'.pc \in {"added", "failed"} /\ call'.slot = 0
        /\ DOMAIN call' = {"pc", "request", "slot"} /\ call.pc = "REGIONS"
    BY <1>7, NoCallFacts DEF AddRegionCheck
  <2>2. Position' \in {"STATUS0", "STATUS1"}
    BY <1>1, <1>7, <2>1 DEF WholeInv, CallInv
  <2> QED BY <1>7, <2>1, <2>2, CallReturnsKeepsWhole DEF xmpuVars, WholeInv, RegionTypes
<1>8. CASE call' = NoCall /\ UNCHANGED <<xmpuVars, inst>>
  BY <1>8, NoCallFacts, CallReturnsKeepsWhole DEF xmpuVars, WholeInv, RegionTypes
<1>9. CASE apps["RPU0"].setup = "CONFIG" /\ XMpuPl_GetConfig /\ UNCHANGED <<xmpuVars, call>>
  <2>1. call.pc = "none" /\ UNCHANGED <<regions, call>>
        /\ inst' = [inst EXCEPT !.Regs = regions]
    BY <1>1, <1>9 DEF WholeInv, CallInv, xmpuVars, XMpuPl_GetConfig
  <2> QED BY <2>1, WholeFrame DEF WholeInv, RegionTypes
<1> QED BY <1>3, <1>4, <1>5, <1>6, <1>7, <1>8, <1>9 DEF SetUpUnit

LEMMA WholeInvNext ==
  ControlInv /\ GateInv /\ InterruptInv /\ WholeInv /\ [Next]_vars => WholeInv'
<1> SUFFICES ASSUME ControlInv, GateInv, InterruptInv, WholeInv, [Next]_vars
             PROVE  WholeInv'
  OBVIOUS
<1>1. CASE Load \/ Task \/ Configure \/ SetUpUnit
  BY <1>1, LoadKeepsWhole, TaskKeepsWhole, ConfigureKeepsWhole, SetUpKeepsWhole
<1>2. CASE ~Load /\ ~Task /\ ~Configure /\ ~SetUpUnit
  <2>1. UNCHANGED <<regions, inst, call>> /\ (Position' = Position \/ call.pc = "none")
    BY <1>2, OthersKeepCall, OthersKeepRegions DEF WholeInv
  <2> QED BY <2>1, WholeFrame DEF WholeInv, RegionTypes
<1> QED BY <1>1, <1>2

LEMMA WholeInit == Init => WholeInv
<1> SUFFICES ASSUME Init PROVE WholeInv
  OBVIOUS
<1>1. PICK n \in RegionsMax : regions = [i \in 0 .. n - 1 |-> AtReset.region]
  BY DEF Init, XmpuInit
<1>2. Slots = 0 .. n - 1 /\ \A i \in Slots : ~Enabled(i)
  BY <1>1 DEF Slots, Enabled, AtReset
<1>3. AtReset.region \in RegionValues
  BY DriverAssumption DEF AtReset, RegionValues, PageNumbers, Masters, RegionFlags
<1>4. inst = NotReady /\ call = NoCall
  BY DEF Init, DriverInit
<1>5. RegionTypes
  BY <1>1, <1>2, <1>3, <1>4, NoCallFacts DEF RegionTypes, NotReady, CallPCs
<1>6. CallInv
  BY <1>4 DEF CallInv, NoCall, Writing
<1> QED BY <1>2, <1>5, <1>6 DEF WholeInv, EnabledRegionsAreWhole

LEMMA WholeInvariance == Spec => []WholeInv
  BY WholeInit, WholeInvNext, RegistersInvariance, PTL DEF Spec

\* A region is enabled only with all its registers written, for any number of
\* regions and wherever the block RAM is (XMpuPl_AddRegion).
THEOREM RegionsAreWhole == Spec => []EnabledRegionsAreWhole
  BY WholeInvariance, PTL DEF WholeInv

\* The registers, the call in progress, the PMU's steps and the programs' rows
\* stay what they are declared as (zupl_xmpu.h, xpfw_pl_xmpu.c).
THEOREM ExampleIsTyped == Spec => []FaultInjectionTypeOK
<1>1. ASSUME ControlInv, GateInv, InterruptInv, TestInv, WholeInv
      PROVE  FaultInjectionTypeOK
  <2>1. /\ ctrl \subseteq CtrlFlags /\ lock \in BOOLEAN /\ bypass \subseteq Masters
        /\ imr \subseteq Interrupts /\ isr \subseteq Interrupts
        /\ handler.isr \subseteq Interrupts /\ irq.isr \subseteq Interrupts
    BY <1>1 DEF GateInv, InterruptInv, AtReset, CtrlFlags, Masters, XMPU_LOCK_MASTERS
  <2>2. \A i \in Slots : regions[i] \in RegionValues
    BY <1>1 DEF WholeInv, RegionTypes
  <2>3. inst.IsReady \in BOOLEAN /\ inst.MaxRegions \in 0 .. Cardinality(Slots)
        /\ call.slot \in 0 .. inst.MaxRegions
    BY <1>1, SlotFacts DEF WholeInv, RegionTypes
  <2>4. call.pc \in {"none", "added", "failed", "REGIONS"} \cup DOMAIN Order
    BY <1>1 DEF WholeInv, RegionTypes, CallPCs, Writing, Order
  <2>5. conf \in {"idle", "ADD0", "STATUS0", "ADD1", "STATUS1"} \cup DOMAIN Then
    BY <1>1, ThenFacts DEF ControlInv, PmuInv, ConfSteps
  <2>6. \A m \in DOMAIN apps :
          apps[m].row \in 0 .. Finished /\ apps[m].failed \subseteq DOMAIN Rows
    BY <1>1 DEF ControlInv, AppsInv, Apps
  <2>7. /\ poison \in {ResetPoison, "0xDEADBEEF"}
        /\ loads \in 0 .. MaxLoads /\ ipis \in 0 .. MaxIpis
    BY <1>1 DEF TestInv, ControlInv, CountersInv
  <2>8. \A i \in Slots : /\ regions[i].start \in 0 .. PAGE_NUMBERS - 1
                         /\ regions[i].end \in 0 .. PAGE_NUMBERS - 1
                         /\ regions[i].masters \subseteq Masters
                         /\ regions[i].config \subseteq RegionFlags
    BY <2>2 DEF RegionValues, PageNumbers
  <2> QED BY <2>1, <2>3, <2>4, <2>5, <2>6, <2>7, <2>8 DEF FaultInjectionTypeOK
<1>2. Spec => []TestInv
  <2>1. Init => TestInv
    BY DEF Init, XmpuInit, DriverInit, NoTest, TestInv
  <2> QED BY <2>1, TestInvNext, RegistersInvariance, PTL DEF Spec
<1> QED BY <1>1, <1>2, WholeInvariance, RegistersInvariance, PTL

-----------------------------------------------------------------------------
(* The builds of the firmware *)

AllVersions == {"v2019_1", "v2019_2", "v2020_1", "v2021_1", "v2021_2", "v2022_1",
                "v2022_2", "v2023_1", "v2023_2"}

LEMMA VersionFacts == Versions = AllVersions
  BY DEF Versions, Header, AllVersions

\* No header has a value for ENABLE_POS_QSPI.
LEMMA ValuesFacts ==
  ASSUME NEW version \in Versions
  PROVE  "ENABLE_POS_QSPI" \notin Switches(version)
<1> DEFINE Without(values) == "ENABLE_POS_QSPI" \notin values.on \cup values.off
<1>1. Without(Values_2019_1)
  BY DEF Values_2019_1, Prints
<1>2. Without(Values_2019_2)
  BY <1>1 DEF Values_2019_2, Values_2019_1
<1>3. Without(Values_2020_1)
  BY <1>2 DEF Values_2020_1, Values_2019_2, Values_2019_1
<1>4. Without(Values_2021_1)
  BY <1>3 DEF Values_2021_1, Values_2020_1, Values_2019_2, Values_2019_1
<1>5. Without(Values_2021_2)
  BY <1>4 DEF Values_2021_2, Values_2021_1, Values_2020_1, Values_2019_2, Values_2019_1
<1>6. Without(Values_2022_1)
  BY <1>5
     DEF Values_2022_1, Values_2021_2, Values_2021_1, Values_2020_1, Values_2019_2,
         Values_2019_1
<1>7. Without(Header[version].values)
  BY <1>1, <1>2, <1>3, <1>4, <1>5, <1>6, VersionFacts
     DEF AllVersions, Header, Values_2022_2, Values_2023_1, Values_2023_2
<1> QED BY <1>7 DEF Switches

\* What a macro brings, in the three tables the headers have: ENABLE_POS_QSPI only
\* with ENABLE_POS, and the modules of a runtime feature.
BringsWell(brings) ==
  \A m \in DOMAIN brings :
    /\ brings[m] \cap ({"ENABLE_POS", "ENABLE_DDR_SR_WR"} \cup Runtime) = {}
    /\ "ENABLE_POS_QSPI" \in brings[m] => m = "ENABLE_POS"

BringsRuntime(brings) ==
  /\ Runtime \subseteq DOMAIN brings
  /\ \A m \in Runtime : "ENABLE_IOCTL" \in brings[m]
  /\ "ENABLE_EM" \in brings["ENABLE_RUNTIME_OVERTEMP"]

LEMMA BringsFacts ==
  /\ BringsWell([ENABLE_POS |-> {"ENABLE_POS_QSPI"}])
  /\ BringsWell(Brings_2021_2) /\ BringsRuntime(Brings_2021_2)
  /\ BringsWell(Brings_2022_1) /\ BringsRuntime(Brings_2022_1)
<1>1. BringsWell([ENABLE_POS |-> {"ENABLE_POS_QSPI"}])
  BY DEF BringsWell, Runtime
<1>2. BringsWell(Brings_2021_2) /\ BringsRuntime(Brings_2021_2)
  BY DEF BringsWell, BringsRuntime, Brings_2021_2, Runtime
<1>3. BringsWell(Brings_2022_1) /\ BringsRuntime(Brings_2022_1)
  BY DEF BringsWell, BringsRuntime, Brings_2022_1, Runtime
<1> QED BY <1>1, <1>2, <1>3

BeforeRuntime == {"v2019_1", "v2019_2", "v2020_1", "v2021_1"}

DDROnly == {"ENABLE_POS", "ENABLE_DDR_SR_WR"}

\* Every header asks for DDR for both features, and brings what they need; from
\* 2021.2 on also for the runtime features, in 2021.2 unless they were given.
LEMMA RuleFacts ==
  ASSUME NEW version \in Versions
  PROVE  LET rules == Header[version].rules IN
         /\ DDROnly \subseteq rules.ddrOnly
         /\ BringsWell(rules.brings)
         /\ version \notin BeforeRuntime =>
              /\ BringsRuntime(rules.brings)
              /\ version # "v2021_2" => rules.unlessGiven = {}
<1> DEFINE Asks(rules) == DDROnly \subseteq rules.ddrOnly
           table == [ENABLE_POS |-> {"ENABLE_POS_QSPI"}]
           Rules == [ddrOnly : SUBSET (DDROnly \cup {"USE_DDR_FOR_APU_RESTART"}),
                     brings : {table},
                     unlessGiven : {{}}]
<1>1. Rules_2019_1 \in Rules /\ Asks(Rules_2019_1)
  <2>1. Rules_2019_1 = [ddrOnly |-> DDROnly, brings |-> table, unlessGiven |-> {}]
    BY DEF Rules_2019_1, DDROnly
  <2> HIDE DEF table
  <2> QED BY <2>1
<1>2. /\ Rules_2020_1 \in Rules /\ Asks(Rules_2020_1)
      /\ Rules_2019_2 \in Rules /\ Asks(Rules_2019_2)
  BY <1>1 DEF Rules_2020_1, Rules_2019_2
<1>3. Rules_2021_1 \in Rules /\ Asks(Rules_2021_1)
  <2> DEFINE more == Rules_2020_1.ddrOnly \cup {"USE_DDR_FOR_APU_RESTART"}
  <2>1. Rules_2021_1 = [Rules_2020_1 EXCEPT !.ddrOnly = more]
    BY DEF Rules_2021_1
  <2>2. more \in SUBSET (DDROnly \cup {"USE_DDR_FOR_APU_RESTART"}) /\ DDROnly \subseteq more
    BY <1>2
  <2> HIDE DEF more
  <2> QED BY <1>2, <2>1, <2>2
<1>4. /\ Rules_2021_2 \in Rules /\ Asks(Rules_2021_2)
      /\ Rules_2022_1 \in Rules /\ Asks(Rules_2022_1)
  BY <1>3 DEF Rules_2021_2, Rules_2022_1
<1>5. /\ Asks(Rules_2022_2) /\ Rules_2022_2.brings = Brings_2022_1
      /\ Rules_2022_2.unlessGiven = {}
  BY <1>4 DEF Rules_2022_2
<1> HIDE DEF Rules, table
<1>6. CASE version \in BeforeRuntime
  <2>1. /\ version = "v2019_1" => Header[version].rules = Rules_2019_1
        /\ version = "v2019_2" => Header[version].rules = Rules_2019_2
        /\ version = "v2020_1" => Header[version].rules = Rules_2020_1
        /\ version = "v2021_1" => Header[version].rules = Rules_2021_1
    BY DEF Header
  <2> QED BY <1>1, <1>2, <1>3, <1>6, <2>1, BringsFacts DEF BeforeRuntime, Rules, table
<1>7. CASE version = "v2021_2"
  <2>1. Header[version].rules = [Rules_2021_2 EXCEPT !.brings = Brings_2021_2,
                                                     !.unlessGiven = Runtime]
    BY <1>7 DEF Header
  <2>2. /\ Header[version].rules.brings = Brings_2021_2
        /\ Asks(Header[version].rules)
    BY <2>1, <1>4 DEF Rules
  <2> QED BY <1>7, <2>2, BringsFacts
<1>8. CASE version = "v2022_1"
  <2>1. Header[version].rules = [Rules_2022_1 EXCEPT !.brings = Brings_2022_1]
    BY <1>8 DEF Header
  <2>2. /\ Header[version].rules.brings = Brings_2022_1
        /\ Asks(Header[version].rules)
        /\ Header[version].rules.unlessGiven = {}
    BY <2>1, <1>4 DEF Rules
  <2> QED BY <2>2, BringsFacts
<1>9. CASE version \in {"v2022_2", "v2023_1", "v2023_2"}
  <2>1. Header[version].rules = Rules_2022_2
    BY <1>9 DEF Header, Rules_2023_1, Rules_2023_2
  <2> QED BY <2>1, <1>5, BringsFacts
<1> QED BY <1>6, <1>7, <1>8, <1>9, VersionFacts DEF AllVersions, BeforeRuntime

\* What a build defines, whichever switches were changed and macros given.
LEMMA DefinedIsSupported ==
  ASSUME NEW version \in Versions, NEW ddr \in BOOLEAN, NEW edits,
         NEW given \in SUBSET Knobs, Compiles(ddr, given),
         NEW macros, macros = Defined(version, ddr, edits, given)
  PROVE  /\ macros \cap {"ENABLE_POS", "ENABLE_DDR_SR_WR", "ENABLE_POS_QSPI"} # {} => ddr
         /\ \A m \in Runtime \cap macros :
              \/ version \in BeforeRuntime
              \/ version = "v2021_2" /\ m \in given
              \/ /\ "ENABLE_IOCTL" \in macros
                 /\ m = "ENABLE_RUNTIME_OVERTEMP" => "ENABLE_EM" \in macros
<1> DEFINE rules == Header[version].rules
           own == given \cup (On(version, edits) \ (IF ddr THEN {} ELSE rules.ddrOnly))
           bring == {m \in own \cap DOMAIN rules.brings :
                       ~(m \in rules.unlessGiven /\ m \in given)}
<1>1. macros = own \cup UNION {rules.brings[m] : m \in bring}
  BY DEF Defined
<1>2. "ENABLE_POS_QSPI" \notin own
  BY KnobsAssumption, ValuesFacts DEF On, Switches
<1>3. ~ddr => own \cap DDROnly = {}
  BY RuleFacts DEF Compiles, DDROnly
<1> HIDE DEF own, rules
<1>4. \A m \in bring : rules.brings[m] \cap (DDROnly \cup Runtime) = {}
                       /\ ("ENABLE_POS_QSPI" \in rules.brings[m] => m = "ENABLE_POS")
  BY RuleFacts DEF BringsWell, DDROnly, rules
<1>5. ~ddr => macros \cap {"ENABLE_POS", "ENABLE_DDR_SR_WR", "ENABLE_POS_QSPI"} = {}
  <2> SUFFICES ASSUME ~ddr, NEW x \in {"ENABLE_POS", "ENABLE_DDR_SR_WR", "ENABLE_POS_QSPI"},
                      x \in macros
               PROVE  FALSE
    OBVIOUS
  <2>1. x \notin own
    BY <1>2, <1>3 DEF DDROnly
  <2>2. PICK m \in bring : x \in rules.brings[m]
    BY <1>1, <2>1
  <2> QED BY <1>3, <1>4, <2>2 DEF DDROnly
<1>6. ASSUME NEW m \in Runtime \cap macros, version \notin BeforeRuntime,
             ~(version = "v2021_2" /\ m \in given)
      PROVE  /\ "ENABLE_IOCTL" \in macros
             /\ m = "ENABLE_RUNTIME_OVERTEMP" => "ENABLE_EM" \in macros
  <2>1. m \in own
    BY <1>1, <1>4
  <2>2. /\ m \in DOMAIN rules.brings
        /\ "ENABLE_IOCTL" \in rules.brings[m]
        /\ m = "ENABLE_RUNTIME_OVERTEMP" => "ENABLE_EM" \in rules.brings[m]
        /\ version # "v2021_2" => rules.unlessGiven = {}
    BY <1>6, RuleFacts DEF BringsRuntime, rules
  <2>3. m \in bring
    BY <1>6, <2>1, <2>2
  <2> QED BY <1>1, <2>2, <2>3
<1> QED BY <1>5, <1>6

\* A build is made once, and gone once flashed.
LEMMA BuildKept == [Next]_vars => build' = build \/ build' = NoBuild \/ MakeSome
<1> SUFFICES ASSUME [Next]_vars PROVE build' = build \/ build' = NoBuild \/ MakeSome
  OBVIOUS
<1>1. CASE UNCHANGED vars
  BY <1>1 DEF vars
<1>2. CASE BuildAndFlash
  BY <1>2 DEF BuildAndFlash, Flash
<1>3. CASE Programs
  BY <1>3
     DEF Programs, StartSome, RpuMain, ApuMain, AccessRow, RegisterRow, RpuSelfTest,
         SetUpUnit, XMpuPl_IntrHandler
<1>4. CASE Load \/ Boot \/ Task \/ Configure \/ Events \/ Handle
  BY <1>4 DEF Load, Boot, Task, Configure, Events, Handle
<1> QED BY <1>1, <1>2, <1>3, <1>4 DEF Next

\* No build of the firmware, whichever version, switches and macros, has a feature
\* without what the feature needs (the rules of xpfw_config.h).
THEOREM BuildsAreSupported == Spec => []FeaturesAreSupported
<1>1. Init => FeaturesAreSupported
  BY DEF Init, ConfigInit, NoBuild, FeaturesAreSupported
<1>2. FeaturesAreSupported /\ [Next]_vars => FeaturesAreSupported'
  <2> SUFFICES ASSUME FeaturesAreSupported, [Next]_vars PROVE FeaturesAreSupported'
    OBVIOUS
  <2>1. CASE build' = build
    BY <2>1 DEF FeaturesAreSupported
  <2>2. CASE MakeSome
    <3>1. PICK version \in Versions, ddr \in BOOLEAN :
            \E edits \in UpTo(MaxEdits, Knobs \cap Switches(version)),
               given \in UpTo(MaxGiven, Knobs) : Make(version, ddr, edits, given)
      BY <2>2 DEF MakeSome
    <3>2. PICK edits \in UpTo(MaxEdits, Knobs \cap Switches(version)),
               given \in UpTo(MaxGiven, Knobs) : Make(version, ddr, edits, given)
      BY <3>1
    <3>3. given \in SUBSET Knobs
      BY DEF UpTo
    <3>4. /\ build'.version = version /\ build'.ddr = ddr /\ build'.given = given
          /\ build'.compiled = Compiles(ddr, given)
          /\ build'.macros = Defined(version, ddr, edits, given)
      BY <3>2 DEF Make
    <3>5. Compiles(ddr, given) =>
            /\ build'.macros \cap {"ENABLE_POS", "ENABLE_DDR_SR_WR", "ENABLE_POS_QSPI"} # {}
                 => ddr
            /\ \A m \in Runtime \cap build'.macros :
                 \/ version \in BeforeRuntime
                 \/ version = "v2021_2" /\ m \in given
                 \/ /\ "ENABLE_IOCTL" \in build'.macros
                    /\ m = "ENABLE_RUNTIME_OVERTEMP" => "ENABLE_EM" \in build'.macros
      BY <3>3, <3>4, DefinedIsSupported
    <3> QED BY <3>4, <3>5 DEF FeaturesAreSupported, BeforeRuntime
  <2>3. CASE build' = NoBuild
    BY <2>3 DEF NoBuild, FeaturesAreSupported
  <2> QED BY <2>1, <2>2, <2>3, BuildKept
<1> QED BY <1>1, <1>2, PTL DEF Spec

-----------------------------------------------------------------------------
(* Fourth layer: how much of the configuration is in place.  Until a later   *)
(* bitstream resets the unit, the slots below InPlace hold the regions, in   *)
(* order, and the others are disabled: no failure and no retry of the task   *)
(* leaves a region in another slot.                                          *)

\* The unit is configured: the PMU's task has succeeded, or the simple example
\* has gone through its set-up.
Configured ==
  \/ XMpuPl_Initialized
  \/ apps["RPU0"].program = "simple_example" /\ apps["RPU0"].setup = "done"

InPlace ==
  CASE Position = "STATUS0" -> IF call.pc \in Writing THEN 0 ELSE 1
    [] Position = "ADD1"    -> 1
    [] Position = "STATUS1" -> IF call.pc \in Writing THEN 1 ELSE 2
    [] Position = "CONFIG"  -> 2
    [] OTHER                -> IF Configured THEN 2 ELSE 0

HasRoom == loads <= 1 /\ Cardinality(Slots) >= 2

SlotsInOrder ==
  /\ \A i \in Slots : Enabled(i) <=> i < InPlace
  /\ InPlace >= 1 => regions[0] = Whole(REGION_0)
  /\ InPlace = 2 => regions[1] = Whole(REGION_1)

\* With room for both regions no call of AddRegion fails, and the second comes
\* after the first.
CallSucceeds ==
  /\ Position \in {"STATUS0", "STATUS1"} => call.pc \in Writing \cup {"REGIONS", "added"}
  /\ call.pc \in Writing \cup {"REGIONS"} =>
       call.slot = (IF Position = "STATUS0" THEN 0 ELSE 1)

InstanceKnows ==
  /\ Position \notin {"done", "INIT"} => inst.MaxRegions = Cardinality(Slots)
  /\ Configured => inst.Regs = regions

RoomInv == HasRoom => SlotsInOrder /\ CallSucceeds /\ InstanceKnows

\* With room for one region the PMU never gets past the second, however often it tries.
NoRoomInv ==
  Cardinality(Slots) = 1 =>
    /\ ~XMpuPl_Initialized
    /\ conf = "ADD1" => Enabled(0)
    /\ conf = "STATUS0" /\ call.pc = "added" => Enabled(0)
    /\ conf = "STATUS1" => call.pc = "failed"

LEMMA ConfiguredIsDone ==
  ASSUME ControlInv
  PROVE  /\ Configured => Position = "done" /\ loads # 0
         /\ Position \in SetupSteps
         /\ conf # "idle" => ~Configured /\ Position = conf
  BY DEF ControlInv, PmuInv, AppsInv, Configured, Position, Apps, ConfSteps, SetupSteps,
         Preparations

LEMMA ConfiguredIsDoneNext ==
  ASSUME ControlInv'
  PROVE  Configured' => Position' = "done"
  BY DEF ControlInv, PmuInv, AppsInv, Configured, Position

\* The slot the next region goes to.
LEMMA NextInOrder ==
  ASSUME RegionTypes, inst.MaxRegions = Cardinality(Slots), Cardinality(Slots) >= 2,
         NEW k \in {0, 1}, \A i \in Slots : Enabled(i) <=> i < k
  PROVE  NextRegion = k /\ k \in Slots /\ k < inst.MaxRegions
<1>1. PICK n \in 1 .. 16 : n = Cardinality(Slots) /\ Slots = 0 .. n - 1 /\ n >= 2
  BY SlotFacts
<1>2. k \in Slots /\ k < inst.MaxRegions /\ k \in Nat
  <2>1. n \in Int /\ 2 <= n /\ (k = 0 \/ k = 1)
    BY <1>1
  <2>2. k \in 0 .. n - 1 /\ k < n /\ k \in Nat
    BY <2>1
  <2> QED BY <1>1, <2>2
<1>3. 0 .. inst.MaxRegions - 1 = Slots /\ Slots \subseteq Nat
  BY <1>1
<1>4. FreeSlots = {i \in Slots : ~Enabled(i)}
  BY <1>3 DEF FreeSlots
<1>5. \A i \in FreeSlots : i \in Nat /\ k <= i
  <2>1. \A i \in Slots : i \in Nat /\ (~Enabled(i) => k <= i)
    BY <1>2, <1>3
  <2> QED BY <1>4, <2>1
<1>6. k \in FreeSlots
  <2>1. ~Enabled(k)
    BY <1>2
  <2> QED BY <1>2, <1>4, <2>1
<1>7. \A i \in FreeSlots : (\A j \in FreeSlots : i <= j) => i = k
  BY <1>2, <1>5, <1>6
<1> HIDE DEF FreeSlots
<1>8. NextRegion = k
  BY <1>5, <1>6, <1>7 DEF NextRegion
<1> QED BY <1>2, <1>8

\* What the REGIONS register counts then.
LEMMA CountInOrder ==
  ASSUME RegionTypes, Cardinality(Slots) >= 2,
         NEW k \in {1, 2}, \A i \in Slots : Enabled(i) <=> i < k
  PROVE  REGIONS = k
<1>1. PICK n \in 1 .. 16 : n = Cardinality(Slots) /\ Slots = 0 .. n - 1 /\ n >= 2
  BY SlotFacts
<1>2. {i \in Slots : Enabled(i)} = {i \in Slots : i < k}
  OBVIOUS
<1>3. {i \in Slots : i < k} = 0 .. k - 1
  <2>1. n \in Int /\ 2 <= n /\ k \in Int /\ k <= 2
    BY <1>1
  <2>2. {i \in 0 .. n - 1 : i < k} = 0 .. k - 1
    BY <2>1
  <2> QED BY <1>1, <2>2
<1>4. Cardinality(0 .. k - 1) = k
  BY FS_Interval
<1> QED BY <1>2, <1>3, <1>4 DEF REGIONS

\* What the PMU or the example does between two calls.
LEMMA RoomFrame ==
  ASSUME RoomInv, UNCHANGED <<regions, call, inst, loads>>, InPlace' = InPlace,
         Configured' = Configured,
         Position' = Position \/ (call.pc = "none" /\ Position' \notin {"STATUS0", "STATUS1"}
                                  /\ (Position \in {"done", "INIT"}
                                        => Position' \in {"done", "INIT"}))
  PROVE  RoomInv'
<1>1. Slots' = Slots /\ \A i : Enabled(i)' = Enabled(i)
  BY DEF Slots, Enabled
<1>2. HasRoom' = HasRoom
  BY <1>1 DEF HasRoom
<1>3. SlotsInOrder => SlotsInOrder'
  BY <1>1 DEF SlotsInOrder
<1>4. CallSucceeds => CallSucceeds'
  BY DEF CallSucceeds, Writing
<1>5. InstanceKnows => InstanceKnows'
  BY <1>1 DEF InstanceKnows
<1> QED BY <1>2, <1>3, <1>4, <1>5 DEF RoomInv

\* The instance is initialised: by the task, or by main.
LEMMA InitialisingKeepsRoom ==
  ASSUME ControlInv, ControlInv', WholeInv, RoomInv, Position \in {"done", "INIT"},
         ~Configured, Position' = "CTRL", UNCHANGED <<regions, call, loads>>,
         inst'.MaxRegions = Cardinality(Slots)
  PROVE  RoomInv'
<1>1. Slots' = Slots /\ \A i : Enabled(i)' = Enabled(i)
  BY DEF Slots, Enabled
<1>2. call.pc = "none" /\ ~Configured'
  BY ConfiguredIsDoneNext DEF WholeInv, CallInv
<1>3. InPlace = 0 /\ InPlace' = 0
  BY <1>2 DEF InPlace
<1>4. SlotsInOrder => SlotsInOrder'
  BY <1>1, <1>3 DEF SlotsInOrder
<1>5. CallSucceeds' /\ InstanceKnows'
  BY <1>1, <1>2 DEF CallSucceeds, InstanceKnows, Writing
<1> QED BY <1>1, <1>4, <1>5 DEF RoomInv, HasRoom

\* A register is prepared.
LEMMA PreparingKeepsRoom ==
  ASSUME ControlInv, ControlInv', WholeInv, RoomInv, Position \in Preparations,
         Position' \in Preparations \cup {"ADD0"}, UNCHANGED <<regions, call, inst, loads>>
  PROVE  RoomInv'
<1>1. ~Configured /\ ~Configured'
  BY ConfiguredIsDone, ConfiguredIsDoneNext DEF Preparations
<1>2. call.pc = "none"
  BY DEF WholeInv, CallInv, Preparations
<1>3. InPlace = 0 /\ InPlace' = 0
  BY <1>1 DEF InPlace, Preparations
<1>4. InPlace' = InPlace /\ Configured' = Configured
  BY <1>1, <1>3 DEF Configured
<1>5. Position \notin {"done", "INIT"} /\ Position' \notin {"STATUS0", "STATUS1"}
  BY DEF Preparations
<1> QED BY <1>2, <1>4, <1>5, RoomFrame

\* AddRegion is called.
LEMMA AddingKeepsRoom ==
  ASSUME ControlInv, ControlInv', WholeInv, RoomInv, UNCHANGED <<regions, inst, loads>>,
         \/ Position = "ADD0" /\ Position' = "STATUS0"
         \/ Position = "ADD1" /\ Position' = "STATUS1",
         AddRegion(RequestAt(Position'))
  PROVE  RoomInv'
<1> SUFFICES ASSUME HasRoom' PROVE (SlotsInOrder /\ CallSucceeds /\ InstanceKnows)'
  BY DEF RoomInv
<1>1. Slots' = Slots /\ \A i : Enabled(i)' = Enabled(i)
  BY DEF Slots, Enabled
<1>2. SlotsInOrder /\ CallSucceeds /\ InstanceKnows /\ Cardinality(Slots) >= 2
  BY <1>1 DEF RoomInv, HasRoom
<1>3. ~Configured /\ ~Configured'
  BY ConfiguredIsDone, ConfiguredIsDoneNext
<1> DEFINE k == IF Position = "ADD0" THEN 0 ELSE 1
<1>4. InPlace = k /\ k \in {0, 1}
  BY <1>3 DEF InPlace
<1>5. inst.MaxRegions = Cardinality(Slots)
  BY <1>2 DEF InstanceKnows
<1>6. NextRegion = k /\ k < inst.MaxRegions
  <2>1. \A i \in Slots : Enabled(i) <=> i < k
    BY <1>2, <1>4 DEF SlotsInOrder
  <2> HIDE DEF k
  <2> QED BY <1>2, <1>4, <1>5, <2>1, NextInOrder DEF WholeInv
<1>7. Accepts(RequestAt(Position').start, RequestAt(Position').size)
  BY RequestFacts DEF RequestAt
<1>8. call'.pc = "START" /\ call'.slot = k
  BY <1>6, <1>7 DEF AddRegion
<1>9. InPlace' = k
  BY <1>3, <1>8 DEF InPlace, Writing
<1>10. SlotsInOrder'
  BY <1>1, <1>2, <1>4, <1>9 DEF SlotsInOrder
<1>11. CallSucceeds'
  BY <1>8 DEF CallSucceeds, Writing
<1>12. InstanceKnows'
  BY <1>1, <1>3, <1>5 DEF InstanceKnows
<1> QED BY <1>10, <1>11, <1>12

\* A register of the region is written; with the last one it is in place.
LEMMA WritingKeepsRoom ==
  ASSUME ControlInv, ControlInv', GateInv, WholeInv, WholeInv', RoomInv,
         UNCHANGED <<inst, loads>>, Position' = Position,
         NEW m \in {"PMU", "RPU0"}, AddRegionWrite(m)
  PROVE  RoomInv'
<1> DEFINE s == call.slot
<1>1. /\ call.pc \in Writing /\ Position \in {"STATUS0", "STATUS1"}
      /\ s \in Slots /\ ~Enabled(s)
      /\ regions \in [Slots -> RegionValues]
      /\ call.request = RequestAt(Position)
  BY DEF AddRegionWrite, Order, Writing, WholeInv, CallInv, RegionTypes
<1>2. /\ Slots' = Slots
      /\ \A i \in Slots \ {s} : regions'[i] = regions[i]
      /\ call.pc # "CONFIG" => regions'[s].config = regions[s].config
  <2>1. /\ DOMAIN regions' = Slots
        /\ \A i \in Slots \ {s} : regions'[i] = regions[i]
    BY <1>1, OneRegisterWritten
  <2>2. ASSUME call.pc # "CONFIG" PROVE regions'[s].config = regions[s].config
    <3>1. call.pc \in {"START", "END", "MASTERS"} /\ regions[s] \in RegionValues
      BY <1>1, <2>2 DEF Writing
    <3>2. CASE call.pc = "START"
      BY <1>1, <3>1, <3>2, OneRegisterWritten DEF RegionValues
    <3>3. CASE call.pc = "END"
      BY <1>1, <3>1, <3>3, OneRegisterWritten DEF RegionValues
    <3>4. CASE call.pc = "MASTERS"
      BY <1>1, <3>1, <3>4, OneRegisterWritten DEF RegionValues
    <3> QED BY <3>1, <3>2, <3>3, <3>4
  <2> QED BY <2>1, <2>2 DEF Slots
<1>3. call'.pc = Order[call.pc] /\ call'.slot = s /\ call'.request = call.request
  BY DEF AddRegionWrite, WholeInv, RegionTypes
<1>4. ~Configured /\ ~Configured'
  BY <1>1, ConfiguredIsDone, ConfiguredIsDoneNext
<1> SUFFICES ASSUME HasRoom' PROVE (SlotsInOrder /\ CallSucceeds /\ InstanceKnows)'
  BY DEF RoomInv
<1>5. SlotsInOrder /\ CallSucceeds /\ InstanceKnows /\ Cardinality(Slots) >= 2
  BY <1>2 DEF RoomInv, HasRoom
<1> DEFINE k == IF Position = "STATUS0" THEN 0 ELSE 1
<1>6. s = k /\ InPlace = k
  BY <1>1, <1>4, <1>5 DEF InPlace, CallSucceeds, Writing
<1>7. CallSucceeds'
  BY <1>1, <1>3, <1>6 DEF CallSucceeds, Order, Writing
<1>8. InstanceKnows'
  BY <1>1, <1>2, <1>4, <1>5 DEF InstanceKnows
<1>9. CASE call.pc # "CONFIG"
  <2>1. call'.pc \in Writing
    BY <1>1, <1>3, <1>9 DEF Order, Writing
  <2>2. InPlace' = k
    BY <1>1, <1>4, <2>1 DEF InPlace
  <2>3. \A i \in Slots : Enabled(i)' = Enabled(i)
    BY <1>2, <1>9 DEF Enabled
  <2>4. k = 1 => 0 \in Slots \ {s}
    BY <1>5, <1>6, SlotFacts DEF WholeInv
  <2>5. k = 1 => regions'[0] = Whole(REGION_0)
    BY <1>2, <1>5, <1>6, <2>4 DEF SlotsInOrder
  <2>6. SlotsInOrder'
    BY <1>2, <1>5, <1>6, <2>2, <2>3, <2>5 DEF SlotsInOrder
  <2> QED BY <1>7, <1>8, <2>6
<1>10. CASE call.pc = "CONFIG"
  <2>1. call'.pc = "REGIONS" /\ InPlace' = k + 1
    BY <1>1, <1>3, <1>4, <1>10 DEF Order, InPlace, Writing
  <2>2. regions'[s] = Whole(RequestAt(Position))
    BY <1>1, <1>3, <2>1 DEF WholeInv, CallInv
  <2>3. \A i \in Slots : Enabled(i)' <=> i = k \/ Enabled(i)
    <3>1. "ENABLE" \in regions'[s].config
      BY <2>2, RequestFacts DEF Whole, RequestAt
    <3> QED BY <1>2, <1>6, <3>1 DEF Enabled
  <2>4. \A i \in Slots : Enabled(i)' <=> i < k + 1
    <3>1. \A i \in Slots : i \in Int
      <4>1. \A i \in Slots : i \in Nat
        BY SlotsAreNumbers DEF WholeInv
      <4> QED BY <4>1
    <3>2. \A i \in Int : i < k + 1 <=> i = k \/ i < k
      OBVIOUS
    <3>3. \A i \in Slots : Enabled(i) <=> i < k
      BY <1>5, <1>6 DEF SlotsInOrder
    <3> HIDE DEF k
    <3> QED BY <2>3, <3>1, <3>2, <3>3
  <2>5. k = 1 => 0 \in Slots \ {s}
    BY <1>5, <1>6, SlotFacts DEF WholeInv
  <2>6. regions'[0] = Whole(REGION_0) /\ (k = 1 => regions'[1] = Whole(REGION_1))
    BY <1>1, <1>2, <1>5, <1>6, <2>2, <2>5 DEF SlotsInOrder, RequestAt
  <2>7. SlotsInOrder'
    BY <1>2, <2>1, <2>4, <2>6 DEF SlotsInOrder
  <2> QED BY <1>7, <1>8, <2>7
<1> QED BY <1>9, <1>10

\* The regions are counted, for the call's status.
LEMMA CheckingKeepsRoom ==
  ASSUME ControlInv, ControlInv', WholeInv, RoomInv,
         UNCHANGED <<regions, inst, loads>>, Position' = Position, AddRegionCheck
  PROVE  RoomInv'
<1>1. Slots' = Slots /\ \A i : Enabled(i)' = Enabled(i)
  BY DEF Slots, Enabled
<1>2. call.pc = "REGIONS" /\ Position \in {"STATUS0", "STATUS1"}
  BY DEF AddRegionCheck, WholeInv, CallInv
<1>3. ~Configured /\ ~Configured'
  BY <1>2, ConfiguredIsDone, ConfiguredIsDoneNext
<1> SUFFICES ASSUME HasRoom' PROVE (SlotsInOrder /\ CallSucceeds /\ InstanceKnows)'
  BY DEF RoomInv
<1>4. SlotsInOrder /\ CallSucceeds /\ InstanceKnows /\ Cardinality(Slots) >= 2
  BY <1>1 DEF RoomInv, HasRoom
<1> DEFINE k == IF Position = "STATUS0" THEN 1 ELSE 2
<1>5. InPlace = k /\ call.slot = k - 1 /\ k \in {1, 2}
  BY <1>2, <1>3, <1>4 DEF InPlace, CallSucceeds, Writing
<1>6. REGIONS = k
  <2>1. \A i \in Slots : Enabled(i) <=> i < k
    BY <1>4, <1>5 DEF SlotsInOrder
  <2> HIDE DEF k
  <2> QED BY <1>4, <1>5, <2>1, CountInOrder DEF WholeInv
<1>7. call'.pc = "added"
  BY <1>5, <1>6, NoCallFacts DEF AddRegionCheck
<1>8. InPlace' = k
  BY <1>2, <1>3, <1>7 DEF InPlace, Writing
<1>9. SlotsInOrder'
  BY <1>1, <1>4, <1>5, <1>8 DEF SlotsInOrder
<1>10. CallSucceeds'
  BY <1>7 DEF CallSucceeds, Writing
<1>11. InstanceKnows'
  BY <1>1, <1>3, <1>4 DEF InstanceKnows
<1> QED BY <1>9, <1>10, <1>11

\* The configurer reads the status of the first region and goes on; or that of the
\* second, and has configured the unit, or has only to fill the instance.
LEMMA ReturningKeepsRoom ==
  ASSUME ControlInv, ControlInv', WholeInv, RoomInv, UNCHANGED <<regions, loads>>,
         call'.pc = "none", inst'.MaxRegions = inst.MaxRegions,
         AddRegionReturned \/ Position = "CONFIG",
         \/ Position = "STATUS0" /\ Position' = "ADD1"
         \/ Position = "STATUS1" /\ Position' = "CONFIG"
         \/ /\ Position \in {"STATUS1", "CONFIG"}
            /\ HasRoom => Position' = "done" /\ Configured' /\ inst'.Regs = regions
  PROVE  RoomInv'
<1>1. Slots' = Slots /\ \A i : Enabled(i)' = Enabled(i)
  BY DEF Slots, Enabled
<1> SUFFICES ASSUME HasRoom' PROVE (SlotsInOrder /\ CallSucceeds /\ InstanceKnows)'
  BY DEF RoomInv
<1>2. HasRoom /\ SlotsInOrder /\ CallSucceeds /\ InstanceKnows
  BY <1>1 DEF RoomInv, HasRoom
<1>3. ~Configured /\ (Position' # "done" => ~Configured')
  BY ConfiguredIsDone, ConfiguredIsDoneNext
<1>4. InPlace' = InPlace
  BY <1>2, <1>3 DEF InPlace, AddRegionReturned, Writing
<1>5. SlotsInOrder'
  BY <1>1, <1>2, <1>4 DEF SlotsInOrder
<1>6. CallSucceeds'
  BY <1>2 DEF CallSucceeds, Writing
<1>7. InstanceKnows'
  BY <1>1, <1>2, <1>3 DEF InstanceKnows
<1> QED BY <1>5, <1>6, <1>7

\* A first bitstream resets a unit nobody has configured; after a later one
\* RoomInv says nothing.
LEMMA LoadKeepsRoom ==
  ASSUME ControlInv, WholeInv, RoomInv, Load
  PROVE  RoomInv'
<1>1. /\ UNCHANGED <<inst, call, conf, apps>>
      /\ Position = "done" /\ Position' = "done"
      /\ regions' = [i \in Slots |-> AtReset.region]
      /\ loads' = loads + 1
      /\ UNCHANGED XMpuPl_Initialized
  BY LoadResets DEF Load, LoadBitstream
<1> SUFFICES ASSUME HasRoom' PROVE (SlotsInOrder /\ CallSucceeds /\ InstanceKnows)'
  BY DEF RoomInv
<1>2. loads = 0
  BY <1>1 DEF HasRoom, ControlInv, CountersInv
<1>3. ~Configured /\ ~Configured'
  BY <1>1, <1>2, ConfiguredIsDone DEF Configured
<1>4. call.pc = "none"
  BY <1>1 DEF WholeInv, CallInv
<1>5. Slots' = Slots /\ \A i \in Slots : ~Enabled(i)'
  BY <1>1, LoadResets DEF Slots, Enabled
<1>6. InPlace' = 0
  BY <1>1, <1>3 DEF InPlace
<1>7. SlotsInOrder'
  <2>1. \A i \in Slots : ~(i < 0)
    <3>1. \A i \in Slots : i \in Nat
      BY <1>1, SlotsAreNumbers DEF WholeInv
    <3> QED BY <3>1
  <2> QED BY <1>5, <1>6, <2>1 DEF SlotsInOrder
<1> QED BY <1>1, <1>3, <1>4, <1>7 DEF CallSucceeds, InstanceKnows, Writing

LEMMA TaskKeepsRoom ==
  ASSUME ControlInv, ControlInv', WholeInv, RoomInv, Task
  PROVE  RoomInv'
<1>1. /\ UNCHANGED <<regions, call, loads, apps>>
      /\ inst' = [inst EXCEPT !.IsReady = TRUE, !.MaxRegions = Cardinality(Slots)]
      /\ conf = "idle" /\ scheduled /\ ~XMpuPl_Initialized
      /\ conf' = "CTRL"
  BY LookupFacts DEF Task, XMpuPl_PmuTask, XMpuPl_CfgInitialize, xmpuVars, appVars
<1>2. Position = "done" /\ Position' = "CTRL"
  BY <1>1, OneConfigurer DEF Position
<1>3. ~Configured
  BY <1>1 DEF Configured, ControlInv, PmuInv, AppsInv
<1>4. inst'.MaxRegions = Cardinality(Slots)
  BY <1>1 DEF WholeInv, RegionTypes
<1> QED BY <1>1, <1>2, <1>3, <1>4, InitialisingKeepsRoom

LEMMA ConfigureKeepsRoom ==
  ASSUME ControlInv, ControlInv', GateInv, InterruptInv, WholeInv, WholeInv', RoomInv,
         Configure
  PROVE  RoomInv'
<1>1. conf # "idle" /\ UNCHANGED <<apps, loads>> /\ Position = conf
  BY ThenFacts DEF Configure, configureXMPU, PrepareUnit, AddFirst, AddSecond, FirstAdded,
     SecondAdded, appVars, Position, Preparations
<1>2. conf' # "idle" => Position' = conf'
  BY DEF Position
<1>3. CASE PrepareUnit /\ UNCHANGED <<call, inst, XMpuPl_Initialized>>
  <2>1. PICK step \in Preparations : step = conf /\ Prepare("PMU", step) /\ conf' = Then[step]
    BY <1>3, ThenFacts DEF PrepareUnit
  <2>2. UNCHANGED regions
    BY <2>1, PrepareGate DEF GateInv
  <2>3. Position' \in Preparations \cup {"ADD0"}
    BY <1>2, <2>1 DEF Then, Preparations
  <2> QED BY <1>1, <1>3, <2>1, <2>2, <2>3, PreparingKeepsRoom
<1>4. CASE (AddFirst \/ AddSecond) /\ UNCHANGED <<xmpuVars, inst, XMpuPl_Initialized>>
  <2>1. /\ \/ Position = "ADD0" /\ Position' = "STATUS0"
           \/ Position = "ADD1" /\ Position' = "STATUS1"
        /\ AddRegion(RequestAt(Position'))
    BY <1>1, <1>2, <1>4 DEF AddFirst, AddSecond, RequestAt
  <2> QED BY <1>1, <1>4, <2>1, AddingKeepsRoom DEF xmpuVars
<1>5. CASE AddRegionWrite("PMU") /\ UNCHANGED <<inst, conf, XMpuPl_Initialized>>
  BY <1>1, <1>2, <1>5, WritingKeepsRoom
<1>6. CASE AddRegionCheck /\ UNCHANGED <<xmpuVars, inst, conf, XMpuPl_Initialized>>
  BY <1>1, <1>2, <1>6, CheckingKeepsRoom DEF xmpuVars
<1>7. CASE (FirstAdded \/ SecondAdded) /\ UNCHANGED xmpuVars
  <2>1. /\ UNCHANGED regions
        /\ AddRegionReturned /\ call' = NoCall
        /\ inst' = inst \/ inst' = [inst EXCEPT !.Regs = regions]
    BY <1>7 DEF FirstAdded, SecondAdded, XMpuPl_GetConfig, xmpuVars
  <2>2. inst'.MaxRegions = inst.MaxRegions /\ call'.pc = "none"
    BY <2>1, NoCallFacts DEF WholeInv, RegionTypes
  <2>3. HasRoom' => HasRoom
    BY <1>1, <2>1 DEF HasRoom, Slots
  <2>4. CASE ~HasRoom
    BY <2>3, <2>4 DEF RoomInv
  <2>5. CASE HasRoom
    <3>1. call.pc = "added"
      BY <1>1, <1>7, <2>1, <2>5
         DEF RoomInv, CallSucceeds, FirstAdded, SecondAdded, AddRegionReturned, Writing
    <3>2. CASE FirstAdded
      BY <1>1, <1>2, <2>1, <2>2, <3>1, <3>2, ReturningKeepsRoom DEF FirstAdded
    <3>3. CASE SecondAdded
      <4>1. /\ XMpuPl_Initialized' /\ conf' = "idle" /\ Position = "STATUS1"
            /\ inst' = [inst EXCEPT !.Regs = regions]
        BY <1>1, <3>1, <3>3 DEF SecondAdded, XMpuPl_GetConfig
      <4>2. Configured' /\ Position' = "done" /\ inst'.Regs = regions
        BY <4>1, ConfiguredIsDoneNext DEF Configured, WholeInv, RegionTypes
      <4> QED BY <1>1, <2>1, <2>2, <4>1, <4>2, ReturningKeepsRoom
    <3> QED BY <1>7, <3>2, <3>3
  <2> QED BY <2>4, <2>5
<1> QED BY <1>3, <1>4, <1>5, <1>6, <1>7 DEF Configure, configureXMPU

LEMMA SetUpKeepsRoom ==
  ASSUME ControlInv, ControlInv', GateInv, InterruptInv, WholeInv, WholeInv', RoomInv,
         SetUpUnit
  PROVE  RoomInv'
<1>1. /\ conf' = "idle" /\ conf = "idle" /\ UNCHANGED loads
      /\ Position = apps["RPU0"].setup
      /\ Position' = apps'["RPU0"].setup
      /\ apps["RPU0"] \in Apps
      /\ apps \in [{"RPU0", "APU"} -> Apps]
      /\ ~Configured
  <2>1. UNCHANGED <<conf, loads>>
    BY DEF SetUpUnit, pmuVars
  <2>2. apps["RPU0"].setup # "done"
    BY ThenFacts DEF SetUpUnit, Setup, SetupSteps, Preparations
  <2>3. conf = "idle" /\ ~Configured
    BY <2>2, OneConfigurer, ConfiguredIsDone DEF Position
  <2> QED BY <2>1, <2>3 DEF Position, ControlInv, AppsInv
<1>2. ASSUME NEW from, NEW to, Setup(from, to)
      PROVE  Position = from /\ Position' = to
  BY <1>1, <1>2 DEF Setup, Apps
<1>3. CASE /\ Setup("INIT", "CTRL")
           /\ XMpuPl_CfgInitialize(XMpuPl_LookupConfig(0))
           /\ UNCHANGED <<xmpuVars, call>>
  <2>1. /\ UNCHANGED <<regions, call>>
        /\ inst' = [inst EXCEPT !.IsReady = TRUE, !.MaxRegions = Cardinality(Slots)]
    BY <1>3, LookupFacts DEF XMpuPl_CfgInitialize, xmpuVars
  <2>2. inst'.MaxRegions = Cardinality(Slots)
    BY <2>1 DEF WholeInv, RegionTypes
  <2> QED BY <1>1, <1>2, <1>3, <2>1, <2>2, InitialisingKeepsRoom
<1>4. ASSUME NEW step \in DOMAIN Then,
             Setup(step, Then[step]) /\ Prepare("RPU0", step) /\ UNCHANGED <<inst, call>>
      PROVE  RoomInv'
  <2>1. step \in Preparations /\ Position = step /\ apps["RPU0"].setup = step
        /\ Position' = Then[step]
    BY <1>1, <1>2, <1>4, ThenFacts
  <2>2. UNCHANGED regions
    BY <1>4, <2>1, PrepareGate DEF GateInv
  <2>3. Position' \in Preparations \cup {"ADD0"}
    BY <2>1 DEF Then, Preparations
  <2> QED BY <1>1, <1>4, <2>1, <2>2, <2>3, PreparingKeepsRoom
<1>5. CASE /\ \/ Setup("ADD0", "STATUS0") /\ AddRegion(REGION_0)
              \/ Setup("ADD1", "STATUS1") /\ AddRegion(REGION_1)
           /\ UNCHANGED <<xmpuVars, inst>>
  <2>1. /\ \/ Position = "ADD0" /\ Position' = "STATUS0"
           \/ Position = "ADD1" /\ Position' = "STATUS1"
        /\ AddRegion(RequestAt(Position'))
    BY <1>2, <1>5 DEF RequestAt
  <2> QED BY <1>1, <1>5, <2>1, AddingKeepsRoom DEF xmpuVars
<1>6. CASE UNCHANGED <<inst, apps>> /\ AddRegionWrite("RPU0")
  BY <1>1, <1>6, WritingKeepsRoom
<1>7. CASE UNCHANGED <<inst, apps, xmpuVars>> /\ AddRegionCheck
  BY <1>1, <1>7, CheckingKeepsRoom DEF xmpuVars
<1>8. CASE /\ Setup("STATUS0", "ADD1") \/ Setup("STATUS1", "CONFIG")
           /\ AddRegionReturned
           /\ call' = NoCall
           /\ UNCHANGED <<xmpuVars, inst>>
  <2>1. \/ Position = "STATUS0" /\ Position' = "ADD1"
        \/ Position = "STATUS1" /\ Position' = "CONFIG"
    BY <1>2, <1>8
  <2> QED BY <1>1, <1>8, <2>1, NoCallFacts, ReturningKeepsRoom DEF xmpuVars
<1>9. CASE /\ apps["RPU0"].setup = "CONFIG"
           /\ apps' = [apps EXCEPT !["RPU0"].setup = "done", !["RPU0"].fresh = TRUE]
           /\ XMpuPl_GetConfig
           /\ UNCHANGED <<xmpuVars, call>>
  <2>1. call'.pc = "none" /\ UNCHANGED <<regions, call>>
        /\ inst' = [inst EXCEPT !.Regs = regions]
    BY <1>1, <1>9 DEF WholeInv, CallInv, xmpuVars, XMpuPl_GetConfig
  <2>2. inst'.Regs = regions /\ inst'.MaxRegions = inst.MaxRegions
    BY <2>1 DEF WholeInv, RegionTypes
  <2>3. apps["RPU0"].program = "simple_example"
    BY <1>9 DEF ControlInv, AppsInv
  <2>4. /\ apps'["RPU0"].setup = "done"
        /\ apps'["RPU0"].program = apps["RPU0"].program
    BY <1>1, <1>9 DEF Apps
  <2>5. Position = "CONFIG" /\ Position' = "done" /\ Configured'
    BY <1>1, <1>9, <2>3, <2>4 DEF Configured
  <2> QED BY <1>1, <2>1, <2>2, <2>5, ReturningKeepsRoom
<1> QED BY <1>3, <1>4, <1>5, <1>6, <1>7, <1>8, <1>9 DEF SetUpUnit

\* Everybody who does not configure: the configuration stays as far as it was.
LEMMA OthersKeepPosition ==
  ASSUME ControlInv, [Next]_vars, ~Load, ~Task, ~Configure, ~SetUpUnit
  PROVE  /\ UNCHANGED <<loads, XMpuPl_Initialized, conf>>
         /\ Configured' = Configured
         /\ \/ Position' = Position
            \/ Position = "done" /\ Position' = "INIT" /\ ~Configured
<1>1. CASE StartSome
  <2>1. UNCHANGED <<loads, XMpuPl_Initialized, conf>>
    BY <1>1 DEF StartSome, pmuVars
  <2>2. CASE apps'["RPU0"] = apps["RPU0"]
    BY <2>1, <2>2 DEF Configured, Position
  <2>3. CASE apps'["RPU0"] # apps["RPU0"]
    <3>1. PICK program \in {"fault_injection", "self_test", "simple_example"} :
             /\ Start("RPU0", program, TRUE)
             /\ program = "simple_example" =>
                  image.macros \cap {"ENABLE_EM", "ENABLE_SCHEDULER"} = {}
      <4>1. \A secure \in BOOLEAN : ~Start("APU", "fault_injection", secure)
        BY <2>3 DEF Start, ControlInv, AppsInv
      <4> QED BY <1>1, <4>1 DEF StartSome
    <3>2. PICK app \in Apps :
             /\ apps' = [apps EXCEPT !["RPU0"] = app]
             /\ app.program = program
             /\ app.fresh = (XMpuPl_Initialized /\ program = "fault_injection")
             /\ app.setup = IF program = "simple_example" THEN "INIT" ELSE "done"
             /\ app.row = IF program = "self_test" THEN Finished ELSE 1
             /\ app.failed = {}
      BY <3>1, StartedProgram, Zenon
    <3>3. apps'["RPU0"] = app
      BY <3>2 DEF ControlInv, AppsInv
    <3>4. apps["RPU0"].program = "none" /\ apps["RPU0"].setup = "done"
      BY <3>1, OneConfigurer DEF Start
    <3>5. Configured' = Configured
      BY <2>1, <3>2, <3>3, <3>4 DEF Configured
    <3>6. CASE program = "simple_example"
      <4>1. ~scheduled /\ ~XMpuPl_Initialized /\ conf = "idle"
        BY <3>1, <3>6 DEF ControlInv, PmuInv, HasScheduler
      <4> QED BY <2>1, <3>2, <3>3, <3>4, <3>5, <3>6, <4>1 DEF Configured, Position
    <3>7. CASE program # "simple_example"
      BY <2>1, <3>2, <3>3, <3>4, <3>5, <3>7 DEF Position
    <3> QED BY <3>6, <3>7
  <2> QED BY <2>2, <2>3
<1>2. ASSUME NEW m \in {"RPU0", "APU"}, AccessRow(m) \/ RegisterRow(m)
      PROVE  /\ UNCHANGED <<loads, XMpuPl_Initialized, conf>>
             /\ Configured' = Configured /\ Position' = Position
  <2>1. UNCHANGED <<loads, XMpuPl_Initialized, conf>>
    BY <1>2 DEF AccessRow, RegisterRow, pmuVars
  <2>2. /\ apps'["RPU0"].setup = apps["RPU0"].setup
        /\ apps'["RPU0"].program = apps["RPU0"].program
    BY <1>2, NextRow DEF ControlInv, AppsInv
  <2> QED BY <2>1, <2>2 DEF Position, Configured
<1>3. CASE BuildAndFlash \/ Boot
  BY <1>3 DEF BuildAndFlash, Flash, Boot, ModSchInit, EmCfgInit, FsblCompletes,
     CheckFsblCompletion, Position, Configured, appVars, pmuVars
<1>4. CASE Events \/ Handle
  BY <1>4 DEF Events, EmEventHandler, EmIpiHandler, Handle, PL_ErrorHandler, Position,
     Configured, appVars
<1>5. CASE RpuSelfTest \/ XMpuPl_IntrHandler
  BY <1>5 DEF RpuSelfTest, XMpuPl_IntrHandler, Position, Configured, appVars, pmuVars
<1>6. CASE UNCHANGED vars
  BY <1>6 DEF vars, Position, Configured, appVars, pmuVars
<1> QED BY <1>1, <1>2, <1>3, <1>4, <1>5, <1>6 DEF Next, Programs, RpuMain, ApuMain

LEMMA RoomInvNext ==
  ControlInv /\ GateInv /\ InterruptInv /\ WholeInv /\ RoomInv /\ [Next]_vars => RoomInv'
<1> SUFFICES ASSUME ControlInv, GateInv, InterruptInv, WholeInv, RoomInv, [Next]_vars
             PROVE  RoomInv'
  OBVIOUS
<1>1. ControlInv' /\ WholeInv'
  BY ControlInvNext, WholeInvNext
<1>2. CASE Load \/ Task \/ Configure \/ SetUpUnit
  BY <1>1, <1>2, LoadKeepsRoom, TaskKeepsRoom, ConfigureKeepsRoom, SetUpKeepsRoom
<1>3. CASE ~Load /\ ~Task /\ ~Configure /\ ~SetUpUnit
  <2>1. UNCHANGED <<regions, inst, call, loads>> /\ Configured' = Configured
    BY <1>3, OthersKeepCall, OthersKeepRegions, OthersKeepPosition DEF WholeInv
  <2>2. \/ Position' = Position
        \/ Position = "done" /\ Position' = "INIT" /\ ~Configured
    BY <1>3, OthersKeepPosition
  <2>3. Position = "done" => call.pc = "none"
    BY DEF WholeInv, CallInv
  <2>4. InPlace' = InPlace
    BY <2>1, <2>2 DEF InPlace
  <2> QED BY <2>1, <2>2, <2>3, <2>4, RoomFrame
<1> QED BY <1>2, <1>3

LEMMA RoomInit == Init => RoomInv
<1> SUFFICES ASSUME Init PROVE RoomInv
  OBVIOUS
<1>1. PICK n \in RegionsMax : regions = [i \in 0 .. n - 1 |-> AtReset.region]
  BY DEF Init, XmpuInit
<1>2. Slots = 0 .. n - 1 /\ \A i \in Slots : ~Enabled(i) /\ i \in Nat
  <2>1. Slots = 0 .. n - 1 /\ \A i \in Slots : ~Enabled(i)
    BY <1>1 DEF Slots, Enabled, AtReset
  <2>2. n \in Int /\ \A i \in 0 .. n - 1 : i \in Nat
    BY <1>1, RegionsMaxAssumption
  <2> QED BY <2>1, <2>2
<1>3. Position = "done" /\ ~Configured /\ call.pc = "none"
  BY DEF Init, PmuInit, AppInit, NoApp, Position, Configured, DriverInit, NoCall
<1>4. InPlace = 0
  BY <1>3 DEF InPlace
<1> QED BY <1>2, <1>3, <1>4 DEF RoomInv, SlotsInOrder, CallSucceeds, InstanceKnows, Writing

\* The core keeps the regions it was built with.
LEMMA SlotsStay ==
  ASSUME ControlInv, GateInv, InterruptInv, WholeInv, [Next]_vars
  PROVE  Slots' = Slots
<1>1. ASSUME NEW m \in {"PMU", "RPU0"}, AddRegionWrite(m) PROVE Slots' = Slots
  <2>1. call.slot \in Slots /\ regions \in [Slots -> RegionValues]
    BY <1>1 DEF AddRegionWrite, Order, WholeInv, CallInv, RegionTypes, Writing
  <2> QED BY <1>1, <2>1, OneRegisterWritten DEF Slots
<1>2. CASE Load
  BY <1>2, LoadResets DEF Slots
<1>3. CASE Task
  BY <1>3 DEF Task, xmpuVars, Slots
<1>4. CASE Configure
  <2>1. CASE PrepareUnit
    <3>1. PICK step \in Preparations : step = conf /\ Prepare("PMU", step)
      BY <2>1, ThenFacts DEF PrepareUnit
    <3> QED BY <3>1, PrepareGate DEF GateInv, Slots
  <2> QED BY <1>1, <1>4, <2>1 DEF Configure, configureXMPU, xmpuVars, Slots
<1>5. CASE SetUpUnit
  <2>1. ASSUME NEW step \in DOMAIN Then, Setup(step, Then[step]) /\ Prepare("RPU0", step)
        PROVE  Slots' = Slots
    <3>1. step \in Preparations /\ apps["RPU0"].setup = step
      BY <2>1, ThenFacts DEF Setup
    <3> QED BY <2>1, <3>1, PrepareGate DEF GateInv, Slots
  <2> QED BY <1>1, <1>5, <2>1 DEF SetUpUnit, xmpuVars, Slots
<1>6. CASE ~Load /\ ~Task /\ ~Configure /\ ~SetUpUnit
  BY <1>6, OthersKeepRegions DEF Slots
<1> QED BY <1>2, <1>3, <1>4, <1>5, <1>6

LEMMA ConfigureKeepsNoRoom ==
  ASSUME ControlInv, GateInv, WholeInv, Configure, Cardinality(Slots) = 1, NoRoomInv,
         Slots' = Slots
  PROVE  NoRoomInv'
<1> USE DEF NoRoomInv
<1>1. Slots = {0} /\ inst.MaxRegions \in {0, 1}
  <2>1. Slots = 0 .. 1 - 1
    BY SlotFacts DEF WholeInv
  <2> QED BY <2>1 DEF WholeInv, RegionTypes
<1>2. conf # "idle" /\ Position = conf
  BY ThenFacts DEF Configure, configureXMPU, PrepareUnit, AddFirst, AddSecond, FirstAdded,
     SecondAdded, Position, Preparations
<1>3. CASE PrepareUnit /\ UNCHANGED <<call, inst, XMpuPl_Initialized>>
  BY <1>3 DEF PrepareUnit, Then
<1>4. CASE AddFirst /\ UNCHANGED <<xmpuVars, inst, XMpuPl_Initialized>>
  BY <1>4, NoCallFacts DEF AddFirst, AddRegion
<1>5. CASE AddSecond /\ UNCHANGED <<xmpuVars, inst, XMpuPl_Initialized>>
  <2>1. Enabled(0) /\ conf' = "STATUS1"
    BY <1>5 DEF AddSecond
  <2>2. 0 .. inst.MaxRegions - 1 \subseteq {0}
    BY <1>1
  <2>3. FreeSlots = {}
    BY <2>1, <2>2 DEF FreeSlots
  <2>4. ~(NextRegion < inst.MaxRegions)
    BY <2>3, NextRegionIsFree DEF WholeInv
  <2>5. call'.pc = "failed"
    BY <1>5, <2>4, NoCallFacts DEF AddSecond, AddRegion
  <2> QED BY <1>5, <2>1, <2>5
<1>6. CASE AddRegionWrite("PMU") /\ conf \in {"STATUS0", "STATUS1"}
           /\ UNCHANGED <<inst, conf, XMpuPl_Initialized>>
  <2>1. call.pc \in Writing /\ call'.pc = Order[call.pc]
    BY <1>6 DEF AddRegionWrite, Order, Writing, WholeInv, RegionTypes
  <2>2. call.pc # "failed" /\ call'.pc # "added"
    BY <2>1 DEF Order, Writing
  <2> QED BY <1>6, <2>2
<1>7. CASE AddRegionCheck /\ conf \in {"STATUS0", "STATUS1"}
           /\ UNCHANGED <<xmpuVars, inst, conf, XMpuPl_Initialized>>
  <2>1. call.pc = "REGIONS" /\ conf = "STATUS0"
    BY <1>7 DEF AddRegionCheck
  <2>2. regions[0] = Whole(RequestAt(Position))
    BY <1>1, <2>1 DEF WholeInv, CallInv
  <2>3. Enabled(0)
    BY <2>2, RequestFacts DEF Enabled, Whole, RequestAt
  <2>4. Enabled(0)'
    BY <1>7, <2>3 DEF Enabled, xmpuVars
  <2> QED BY <1>7, <2>1, <2>4
<1>8. CASE FirstAdded /\ UNCHANGED xmpuVars
  <2>1. /\ UNCHANGED XMpuPl_Initialized
        /\ conf' \in {"ADD1", "idle"}
        /\ conf' = "ADD1" => Enabled(0)
    BY <1>8 DEF FirstAdded
  <2>2. Enabled(0) => Enabled(0)'
    BY <1>8 DEF Enabled, xmpuVars
  <2> QED BY <2>1, <2>2
<1>9. CASE SecondAdded /\ UNCHANGED xmpuVars
  BY <1>9 DEF SecondAdded
<1> QED BY <1>3, <1>4, <1>5, <1>6, <1>7, <1>8, <1>9 DEF Configure, configureXMPU

LEMMA NoRoomInvNext ==
  ControlInv /\ GateInv /\ InterruptInv /\ WholeInv /\ NoRoomInv /\ [Next]_vars
    => NoRoomInv'
<1> SUFFICES ASSUME ControlInv, GateInv, InterruptInv, WholeInv, NoRoomInv, [Next]_vars
             PROVE  NoRoomInv'
  OBVIOUS
<1>1. Slots' = Slots
  BY SlotsStay
<1>2. CASE Cardinality(Slots) # 1
  BY <1>1, <1>2 DEF NoRoomInv
<1>3. CASE Configure /\ Cardinality(Slots) = 1
  BY <1>1, <1>3, ConfigureKeepsNoRoom
<1>4. CASE Load
  BY <1>1, <1>4 DEF Load, LoadBitstream, NoRoomInv
<1>5. CASE Task
  BY <1>1, <1>5 DEF Task, XMpuPl_PmuTask, NoRoomInv
<1>6. CASE SetUpUnit
  <2>1. apps["RPU0"].setup # "done" /\ UNCHANGED pmuVars
    BY <1>6, ThenFacts DEF SetUpUnit, Setup, SetupSteps, Preparations
  <2>2. conf' = "idle" /\ UNCHANGED XMpuPl_Initialized
    BY <2>1, OneConfigurer DEF pmuVars
  <2> QED BY <1>1, <2>2 DEF NoRoomInv
<1>7. CASE ~Load /\ ~Task /\ ~Configure /\ ~SetUpUnit
  <2>1. UNCHANGED <<regions, call, conf, XMpuPl_Initialized>>
    BY <1>7, OthersKeepCall, OthersKeepRegions, OthersKeepPosition DEF WholeInv
  <2> QED BY <1>1, <2>1 DEF NoRoomInv, Enabled
<1> QED BY <1>2, <1>3, <1>4, <1>5, <1>6, <1>7

LEMMA RoomInvariance == Spec => [](RoomInv /\ NoRoomInv)
<1>1. Init => NoRoomInv
  BY DEF Init, PmuInit, NoRoomInv
<1> QED
  BY <1>1, RoomInit, RoomInvNext, NoRoomInvNext, WholeInvariance, RegistersInvariance, PTL
     DEF Spec

-----------------------------------------------------------------------------
(* What a configured unit does to an access *)

RoomyOnceConfigured == Configured /\ Cardinality(Slots) >= 2 /\ loads = 1

\* Both regions stand, in the first two slots.
LEMMA RegionsStand ==
  ASSUME ControlInv, WholeInv, RoomInv, RoomyOnceConfigured
  PROVE  /\ \A i \in Slots : Enabled(i) <=> i \in {0, 1}
         /\ {0, 1} \subseteq Slots
         /\ regions[0] = Whole(REGION_0)
         /\ regions[1] = Whole(REGION_1)
         /\ inst.Regs = regions
<1>1. Position = "done" /\ HasRoom
  BY ConfiguredIsDone DEF RoomyOnceConfigured, HasRoom
<1>2. InPlace = 2
  BY <1>1 DEF InPlace, RoomyOnceConfigured
<1>3. PICK n \in 1 .. 16 : n = Cardinality(Slots) /\ Slots = 0 .. n - 1
  BY SlotFacts DEF WholeInv
<1>4. /\ {0, 1} \subseteq Slots
      /\ \A i \in Slots : i < 2 <=> i \in {0, 1}
  <2>1. n \in Int /\ n >= 2
    BY <1>3 DEF RoomyOnceConfigured
  <2>2. {0, 1} \subseteq 0 .. n - 1 /\ \A i \in 0 .. n - 1 : i < 2 <=> i \in {0, 1}
    BY <2>1
  <2> QED BY <1>3, <2>2
<1> QED BY <1>1, <1>2, <1>4 DEF RoomInv, SlotsInOrder, InstanceKnows, RoomyOnceConfigured

\* The unit blocks the accesses that the requests refuse, and no other.
LEMMA BlocksAsRequested ==
  ASSUME ControlInv, GateInv, WholeInv, RoomInv, RoomyOnceConfigured,
         NEW a, a.page \in Int, a.last = FALSE, a.master \in Masters, a.secure \in BOOLEAN,
         a.write \in BOOLEAN
  PROVE  Blocked(a) <=> ~RequestAllows(a)
<1> DEFINE hit == {i \in Slots : Hits(regions[i], a)}
<1>1. BRAM \in Nat
  BY FirmwareAssumption
<1>2. /\ Whole(REGION_0).start = BRAM /\ Whole(REGION_0).end = BRAM + 3
      /\ Whole(REGION_0).masters = {"RPU0"}
      /\ Whole(REGION_0).config = {"WR_ALLOW", "RD_ALLOW", "ENABLE"}
      /\ Whole(REGION_1).start = BRAM + 12 /\ Whole(REGION_1).end = BRAM + 15
      /\ Whole(REGION_1).masters = {"APU"}
      /\ Whole(REGION_1).config = {"WR_ALLOW", "RD_ALLOW", "ENABLE"}
  <2>1. Whole(REGION_0).end = BRAM + 3 /\ Whole(REGION_1).end = BRAM + 15
    BY RequestFacts DEF Whole
  <2> QED BY <2>1 DEF Whole, REGION_0, REGION_1, PL_BRAM_S_BASE, PL_BRAM_NS_BASE
<1>3. /\ Hits(regions[0], a) <=> BRAM <= a.page /\ a.page <= BRAM + 3
      /\ Hits(regions[1], a) <=> BRAM + 12 <= a.page /\ a.page <= BRAM + 15
  BY <1>1, <1>2, RegionsStand DEF Hits
<1>4. /\ Allows(regions[0], a) <=> a.secure /\ a.master = "RPU0"
      /\ Allows(regions[1], a) <=> a.secure /\ a.master = "APU"
  BY <1>2, RegionsStand DEF Allows
<1>5. \A i \in Slots : Hits(regions[i], a) => i \in {0, 1}
  BY RegionsStand DEF Hits, Enabled
<1>6. /\ {"DEFRD", "DEFWR", "PSNADDREN"} \subseteq ctrl
      /\ "EXTSINKEN" \notin ctrl
  BY DEF GateInv, AtReset
<1>7. /\ AsksFor(REGION_0, a) <=> BRAM <= a.page /\ a.page <= BRAM + 3
      /\ AsksFor(REGION_1, a) <=> BRAM + 12 <= a.page /\ a.page <= BRAM + 15
      /\ RequestAllows(a) <=>
           /\ AsksFor(REGION_0, a) => a.secure /\ a.master = "RPU0"
           /\ AsksFor(REGION_1, a) => a.secure /\ a.master = "APU"
  <2>1. /\ REGION_0.start = BRAM /\ REGION_0.size = 1
        /\ REGION_0.masters = {"RPU0"} /\ "REGIONNS" \notin REGION_0.config
        /\ REGION_1.start = BRAM + 12 /\ REGION_1.size = 1
        /\ REGION_1.masters = {"APU"} /\ "REGIONNS" \notin REGION_1.config
    BY DEF REGION_0, REGION_1, PL_BRAM_S_BASE, PL_BRAM_NS_BASE
  <2>2. /\ AsksFor(REGION_0, a) <=> BRAM <= a.page /\ a.page <= BRAM + 3
        /\ AsksFor(REGION_1, a) <=> BRAM + 12 <= a.page /\ a.page <= BRAM + 15
    BY <1>1, <2>1 DEF AsksFor
  <2>3. RequestAllows(a) <=>
          /\ AsksFor(REGION_0, a) => a.secure /\ a.master = "RPU0"
          /\ AsksFor(REGION_1, a) => a.secure /\ a.master = "APU"
    BY <2>1, Zenon DEF RequestAllows
  <2> QED BY <2>2, <2>3, Zenon
<1>8. CASE BRAM <= a.page /\ a.page <= BRAM + 3
  <2>1. hit = {0}
    BY <1>1, <1>3, <1>5, <1>8, RegionsStand
  <2>2. Blocked(a) <=> ~Allows(regions[0], a)
    BY <1>6, <2>1 DEF Blocked
  <2>3. RequestAllows(a) <=> a.master = "RPU0" /\ a.secure
    <3>1. AsksFor(REGION_0, a) /\ ~AsksFor(REGION_1, a)
      BY <1>1, <1>8, <1>7
    <3> QED BY <1>7, <3>1, Zenon
  <2> QED BY <1>4, <2>2, <2>3
<1>9. CASE BRAM + 12 <= a.page /\ a.page <= BRAM + 15
  <2>1. hit = {1}
    BY <1>1, <1>3, <1>5, <1>9, RegionsStand
  <2>2. Blocked(a) <=> ~Allows(regions[1], a)
    BY <1>6, <2>1 DEF Blocked
  <2>3. RequestAllows(a) <=> a.master = "APU" /\ a.secure
    <3>1. AsksFor(REGION_1, a) /\ ~AsksFor(REGION_0, a)
      BY <1>1, <1>9, <1>7
    <3> QED BY <1>7, <3>1, Zenon
  <2> QED BY <1>4, <2>2, <2>3
<1>10. CASE /\ ~(BRAM <= a.page /\ a.page <= BRAM + 3)
            /\ ~(BRAM + 12 <= a.page /\ a.page <= BRAM + 15)
  <2>1. hit = {}
    BY <1>3, <1>5, <1>10
  <2>2. ~Blocked(a)
    BY <1>6, <2>1 DEF Blocked
  <2>3. RequestAllows(a)
    BY <1>7, <1>10, Zenon
  <2> QED BY <2>2, <2>3
<1> QED BY <1>8, <1>9, <1>10

ProtectedOnEveryPage ==
  UnitConfigured =>
    /\ inst.Regs = regions
    /\ \A a \in [master : Masters, page : Int, last : {FALSE},
                  write : BOOLEAN, secure : BOOLEAN] :
         Blocked(a) <=> ~RequestAllows(a)

\* Once the unit is configured, by the PMU's task or by the simple example, and
\* whatever was tried before, it blocks what the requested regions refuse and
\* nothing else, on every page and not only next to the regions' borders, for any
\* number of regions and any build (configureXMPU, XMpuPl_AddRegion, main of
\* pl_xmpu_example.c).
THEOREM EveryPageIsProtected == Spec => []ProtectedOnEveryPage
<1>1. ASSUME ControlInv, GateInv, WholeInv, RoomInv, NoRoomInv
      PROVE  ProtectedOnEveryPage
  <2> SUFFICES ASSUME UnitConfigured
               PROVE  /\ inst.Regs = regions
                      /\ \A a \in [master : Masters, page : Int, last : {FALSE},
                                   write : BOOLEAN, secure : BOOLEAN] :
                           Blocked(a) <=> ~RequestAllows(a)
    BY DEF ProtectedOnEveryPage
  <2>1. RoomyOnceConfigured
    <3>1. loads = 1 /\ Configured
      BY DEF UnitConfigured, Configured
    <3>2. Cardinality(Slots) \in 1 .. 16
      BY <1>1, SlotFacts DEF WholeInv
    <3>3. Cardinality(Slots) >= 2
      BY <1>1, <3>2 DEF UnitConfigured, NoRoomInv
    <3> QED BY <3>1, <3>3 DEF RoomyOnceConfigured
  <2>2. \A a \in [master : Masters, page : Int, last : {FALSE},
                  write : BOOLEAN, secure : BOOLEAN] : Blocked(a) <=> ~RequestAllows(a)
    BY <1>1, <2>1, BlocksAsRequested
  <2> QED BY <1>1, <2>1, <2>2, RegionsStand
<1> QED BY <1>1, RoomInvariance, WholeInvariance, RegistersInvariance, PTL

\* The same on the pages that the run looks at.
THEOREM ProtectionIsAsConfigured == Spec => []ProtectedAsConfigured
<1>1. Boundaries \subseteq Int
  BY FirmwareAssumption DEF Boundaries
<1>2. ProtectedOnEveryPage => ProtectedAsConfigured
  BY <1>1 DEF ProtectedOnEveryPage, ProtectedAsConfigured
<1> QED BY <1>2, EveryPageIsProtected, PTL

-----------------------------------------------------------------------------
(* What the programs print *)

Reports(m) ==
  /\ ~apps[m].fresh => apps[m].failed = {}
  /\ apps[m].fresh /\ loads = 1 /\ Cardinality(Slots) >= 2 =>
       apps[m].failed = {row \in DOMAIN Rows :
                           row < apps[m].row /\ ~RequestAllows(AccessOf(m, row))}

ReportInv == \A m \in {"RPU0", "APU"} : Reports(m)

LEMMA ReportFrame ==
  ASSUME NEW m \in {"RPU0", "APU"}, Reports(m), UNCHANGED <<apps[m], loads, Slots>>
  PROVE  Reports(m)'
  BY DEF Reports, AccessOf

\* A program has gone no further than it was when it became fresh.
LEMMA ReportBegins ==
  ASSUME NEW m \in {"RPU0", "APU"}, apps'[m].failed = {},
         apps'[m].fresh => apps'[m].row = 1
  PROVE  Reports(m)'
<1>1. \A row \in DOMAIN Rows : ~(row < 1)
  BY RowFacts
<1> QED BY <1>1 DEF Reports

LEMMA RowTypes ==
  \A row \in DOMAIN Rows : Rows[row].page \in Int /\ Rows[row].write \in BOOLEAN
<1> SUFFICES ASSUME NEW row \in DOMAIN Rows
             PROVE  Rows[row].page \in Int /\ Rows[row].write \in BOOLEAN
  OBVIOUS
<1>1. row = 1 \/ row = 2 \/ row = 3 \/ row = 4 \/ row = 5 \/ row = 6
  BY RowFacts
<1>2. /\ Rows[1] = [page |-> BRAM, write |-> FALSE]
      /\ Rows[2] = [page |-> BRAM, write |-> TRUE]
      /\ Rows[3] = [page |-> BRAM + 4, write |-> FALSE]
      /\ Rows[4] = [page |-> BRAM + 4, write |-> TRUE]
      /\ Rows[5] = [page |-> BRAM + 12, write |-> FALSE]
      /\ Rows[6] = [page |-> BRAM + 12, write |-> TRUE]
  BY DEF Rows
<1>3. BRAM \in Int /\ BRAM + 4 \in Int /\ BRAM + 12 \in Int
  BY FirmwareAssumption
<1> DEFINE Typed == [page : Int, write : BOOLEAN]
<1>4. /\ Rows[1] \in Typed /\ Rows[2] \in Typed /\ Rows[3] \in Typed
      /\ Rows[4] \in Typed /\ Rows[5] \in Typed /\ Rows[6] \in Typed
  BY <1>2, <1>3
<1>5. Rows[row] \in Typed
  <2> HIDE DEF Typed
  <2> QED BY <1>1, <1>4
<1> QED BY <1>5

\* Each row adds what the unit did to its access, and the unit does as it should.
LEMMA RowsReport ==
  ASSUME ControlInv, GateInv, WholeInv, RoomInv, ReportInv,
         NEW m \in {"RPU0", "APU"}, AccessRow(m) \/ RegisterRow(m)
  PROVE  ReportInv'
<1>1. UNCHANGED <<loads, Slots>>
  BY DEF AccessRow, RegisterRow, Transact, WriteCtrl, WriteLock, Slots, pmuVars
<1>2. PICK app \in Apps :
         /\ apps' = [apps EXCEPT ![m] = app]
         /\ app.secure = apps[m].secure
         /\ app.fresh = apps[m].fresh
         /\ apps[m].row \in 1 .. 8
         /\ app.row = apps[m].row + 1
         /\ app.failed = IF /\ AccessRow(m)
                            /\ apps[m].fresh /\ Failed(m, apps[m].row)
                         THEN apps[m].failed \cup {apps[m].row}
                         ELSE apps[m].failed
  BY NextRow
<1>3. apps'[m] = app /\ \A x \in {"RPU0", "APU"} \ {m} : apps'[x] = apps[x]
  BY <1>2 DEF ControlInv, AppsInv
<1>4. \A x \in {"RPU0", "APU"} \ {m} : Reports(x)'
  BY <1>1, <1>3, ReportFrame DEF ReportInv
<1>5. \A row : AccessOf(m, row)' = AccessOf(m, row)
  BY <1>2, <1>3 DEF AccessOf
<1>6. ~app.fresh => app.failed = {}
  BY <1>2 DEF ReportInv, Reports
<1>7. ASSUME app.fresh, loads = 1, Cardinality(Slots) >= 2
      PROVE  app.failed = {row \in DOMAIN Rows :
                             row < app.row /\ ~RequestAllows(AccessOf(m, row))}
  <2> DEFINE now == apps[m].row
             Past(n) == {row \in DOMAIN Rows : row < n /\ ~RequestAllows(AccessOf(m, row))}
  <2>1. apps[m].failed = Past(now)
    BY <1>2, <1>7 DEF ReportInv, Reports
  <2>2. RoomyOnceConfigured
    BY <1>2, <1>7 DEF RoomyOnceConfigured, Configured, ControlInv, AppsInv
  <2>3. now \in DOMAIN Rows => (Failed(m, now) <=> ~RequestAllows(AccessOf(m, now)))
    <3> SUFFICES ASSUME now \in DOMAIN Rows
                 PROVE  Failed(m, now) <=> ~RequestAllows(AccessOf(m, now))
      OBVIOUS
    <3>1. Rows[now].page \in Int /\ Rows[now].write \in BOOLEAN
      BY RowTypes
    <3>2. apps[m].secure \in BOOLEAN
      BY DEF ControlInv, AppsInv, Apps
    <3>3. /\ AccessOf(m, now).page \in Int /\ AccessOf(m, now).last = FALSE
          /\ AccessOf(m, now).master \in Masters
          /\ AccessOf(m, now).secure \in BOOLEAN /\ AccessOf(m, now).write \in BOOLEAN
      <4> HIDE DEF now
      <4> QED BY <3>1, <3>2 DEF AccessOf, Masters
    <3> QED BY <2>2, <3>3, BlocksAsRequested DEF Failed
  <2>4. AccessRow(m) <=> now \in DOMAIN Rows
    <3>1. AccessRow(m) => now \in DOMAIN Rows
      BY DEF AccessRow
    <3>2. RegisterRow(m) => now = CtrlRow \/ now = UnlockRow
      BY Zenon DEF RegisterRow
    <3>3. CtrlRow \notin DOMAIN Rows /\ UnlockRow \notin DOMAIN Rows
      BY RowFacts
    <3> QED BY <3>1, <3>2, <3>3
  <2>5. Past(now + 1) = IF now \in DOMAIN Rows /\ ~RequestAllows(AccessOf(m, now))
                        THEN Past(now) \cup {now} ELSE Past(now)
    <3>1. now \in Int /\ DOMAIN Rows \subseteq Int
      BY <1>2, RowFacts
    <3>2. \A row \in DOMAIN Rows : row < now + 1 <=> row < now \/ row = now
      BY <3>1
    <3> HIDE DEF now
    <3> QED BY <3>1, <3>2
  <2> QED BY <1>2, <1>7, <2>1, <2>3, <2>4, <2>5
<1>8. Reports(m)'
  BY <1>1, <1>3, <1>5, <1>6, <1>7 DEF Reports
<1> QED BY <1>4, <1>8 DEF ReportInv

LEMMA SetUpReports ==
  ASSUME ControlInv, ReportInv, SetUpUnit, Slots' = Slots
  PROVE  ReportInv'
<1>1. UNCHANGED loads
  BY DEF SetUpUnit, pmuVars
<1>2. /\ apps["RPU0"].setup # "done" => apps["RPU0"].row = 1 /\ apps["RPU0"].failed = {}
      /\ apps \in [{"RPU0", "APU"} -> Apps]
  BY DEF ControlInv, PmuInv, AppsInv, ReportInv, Reports
<1>3. apps'["APU"] = apps["APU"]
  BY <1>2 DEF SetUpUnit, Setup
<1>4. \/ apps'["RPU0"] = apps["RPU0"]
      \/ apps'["RPU0"].failed = {} /\ apps'["RPU0"].row = 1
  <2>1. ASSUME NEW from \in SetupSteps \ {"done"}, NEW to, Setup(from, to)
        PROVE  apps'["RPU0"].failed = {} /\ apps'["RPU0"].row = 1
    BY <1>2, <2>1 DEF Setup, Apps
  <2>2. CASE /\ apps["RPU0"].setup = "CONFIG"
             /\ apps' = [apps EXCEPT !["RPU0"].setup = "done", !["RPU0"].fresh = TRUE]
    BY <1>2, <2>2 DEF Apps
  <2>3. ASSUME NEW step \in DOMAIN Then, Setup(step, Then[step])
        PROVE  apps'["RPU0"].failed = {} /\ apps'["RPU0"].row = 1
    BY <2>1, <2>3, ThenFacts DEF SetupSteps, Preparations
  <2>4. CASE \/ Setup("INIT", "CTRL")
             \/ Setup("ADD0", "STATUS0") \/ Setup("ADD1", "STATUS1")
             \/ Setup("STATUS0", "ADD1") \/ Setup("STATUS1", "CONFIG")
    BY <2>1, <2>4 DEF SetupSteps, Preparations
  <2> QED BY <2>2, <2>3, <2>4 DEF SetUpUnit
<1> QED BY <1>1, <1>3, <1>4, ReportFrame, ReportBegins DEF ReportInv

LEMMA StartReports ==
  ASSUME ControlInv, ReportInv, StartSome, Slots' = Slots
  PROVE  ReportInv'
<1>1. UNCHANGED loads
  BY DEF StartSome, pmuVars
<1>2. ASSUME NEW m \in {"RPU0", "APU"},
             NEW program \in {"fault_injection", "self_test", "simple_example"},
             NEW secure \in BOOLEAN, Start(m, program, secure)
      PROVE  ReportInv'
  <2>1. PICK app \in Apps :
           /\ apps' = [apps EXCEPT ![m] = app]
           /\ app.program = program
           /\ app.fresh = (XMpuPl_Initialized /\ program = "fault_injection")
           /\ app.setup = IF program = "simple_example" THEN "INIT" ELSE "done"
           /\ app.row = IF program = "self_test" THEN Finished ELSE 1
           /\ app.failed = {}
    BY <1>2, StartedProgram
  <2>2. apps'[m] = app /\ \A x \in {"RPU0", "APU"} \ {m} : apps'[x] = apps[x]
    BY <2>1 DEF ControlInv, AppsInv
  <2>3. Reports(m)'
    BY <2>1, <2>2, ReportBegins
  <2>4. \A x \in {"RPU0", "APU"} \ {m} : Reports(x)'
    BY <1>1, <2>2, ReportFrame DEF ReportInv
  <2> QED BY <2>3, <2>4 DEF ReportInv
<1> QED BY <1>2 DEF StartSome

LEMMA ReportInvNext ==
  /\ ControlInv /\ GateInv /\ InterruptInv /\ WholeInv /\ RoomInv /\ ReportInv
  /\ [Next]_vars
  => ReportInv'
<1> SUFFICES ASSUME ControlInv, GateInv, InterruptInv, WholeInv, RoomInv, ReportInv,
                    [Next]_vars
             PROVE  ReportInv'
  OBVIOUS
<1>1. Slots' = Slots
  BY SlotsStay
<1>2. CASE StartSome \/ SetUpUnit \/ RpuMain \/ ApuMain
  BY <1>1, <1>2, StartReports, SetUpReports, RowsReport DEF RpuMain, ApuMain
<1>3. CASE Load
  <2>1. apps' = apps /\ loads' = loads + 1 /\ loads \in Nat
    BY <1>3, LoadResets DEF ControlInv, CountersInv
  <2>2. ASSUME NEW m \in {"RPU0", "APU"}, apps[m].fresh PROVE loads' # 1
    <3>1. Configured
      BY <2>2 DEF Configured, ControlInv, AppsInv
    <3> QED BY <2>1, <3>1, ConfiguredIsDone
  <2> QED BY <2>1, <2>2 DEF ReportInv, Reports
<1>4. CASE ~Load /\ ~StartSome /\ ~SetUpUnit /\ ~RpuMain /\ ~ApuMain
  <2>1. apps' = apps
    BY <1>4
       DEF Next, vars, BuildAndFlash, Boot, Task, Configure, Events, Handle, Programs,
           RpuSelfTest, XMpuPl_IntrHandler, appVars
  <2>2. loads' = loads
    BY <1>4
       DEF Next, vars, pmuVars, BuildAndFlash, Flash, Boot, ModSchInit, EmCfgInit,
           FsblCompletes, CheckFsblCompletion, Task, XMpuPl_PmuTask, Configure,
           configureXMPU, Events, EmEventHandler, EmIpiHandler, Handle, PL_ErrorHandler,
           Programs, RpuSelfTest, XMpuPl_IntrHandler
  <2> QED BY <1>1, <2>1, <2>2, ReportFrame DEF ReportInv
<1> QED BY <1>2, <1>3, <1>4

\* A program that started after the unit was configured, or configured it, prints
\* FAILED! for exactly the accesses the requested regions refuse it, whatever
\* interrupts and other programs come between (readReg and writeReg of the
\* fault injection programs).
THEOREM ProgramsPrintTheVerdicts == Spec => []VerdictsMatchRegions
<1>1. Init => ReportInv
  BY DEF Init, AppInit, NoApp, ReportInv, Reports
<1>2. ASSUME ControlInv, ReportInv PROVE VerdictsMatchRegions
  <2>1. DOMAIN apps = {"RPU0", "APU"}
    BY <1>2 DEF ControlInv, AppsInv
  <2> QED BY <1>2, <2>1 DEF ReportInv, Reports, VerdictsMatchRegions
<1> QED
  BY <1>1, <1>2, ReportInvNext, RoomInvariance, WholeInvariance, RegistersInvariance, PTL
     DEF Spec
=============================================================================
