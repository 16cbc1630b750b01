---------------------------- MODULE PmuFirmware -----------------------------
(***************************************************************************)
(* What was added to the PMU firmware for the protection unit: a scheduler *)
(* task that configures it once the programmable logic is loaded           *)
(* (xpfw_pl_xmpu.c, xpfw_mod_sched.c), and the error manager's handler of  *)
(* its interrupt (xpfw_mod_em.c).  An image is a build reduced to the      *)
(* macros this code tests; version 2019.1 alone has the task that waits    *)
(* for the first-stage boot loader.  The rest of the firmware, which calls *)
(* these functions, is external.                                           *)
(*                                                                         *)
(* The PMU runs one function at a time.  The interrupt of an error may     *)
(* preempt the task between two register accesses.                         *)
(***************************************************************************)
EXTENDS XmpuDriver, PmuConfig

CONSTANTS
  BRAM,       \* XPAR_BRAM_0_BASEADDR, as a page
  MaxLoads,   \* bound: bitstreams loaded
  Requests,   \* the actions other processors ask for: <<error, action>>
  MaxIpis     \* bound: requests to the error manager

ASSUME FirmwareAssumption ==
  /\ BRAM \in Nat /\ BRAM + 16 < PAGE_NUMBERS
  /\ MaxLoads \in Nat /\ MaxIpis \in Nat
  /\ Requests \subseteq {"PL", "FPD_SWDT"} \X {"CUSTOM", "SRST", "NONE"}

VARIABLES
  image,          \* what the PMU runs, or NoImage
  loads,          \* the bitstreams loaded so far
  fsbl,           \* the boot loader: "runs", "completed", and "seen" by 2019.1's task
  em,             \* the error manager is initialised
  em_action,      \* the actions it has for the errors
  scheduled,      \* XMpuPl_PmuTask is a task of the scheduler
  conf,           \* configureXMPU's next step, or "idle"
  XMpuPl_Initialized,
  handler,        \* PL_ErrorHandler: its next step and the ISR it read
  error_status,   \* the PL bits of PMU_GLOBAL_ERROR_STATUS_2
  ipis            \* requests to the error manager so far

pmuVars == <<image, loads, fsbl, em, em_action, scheduled, conf, XMpuPl_Initialized,
             handler, error_status, ipis>>

NoImage == [flashed |-> FALSE]
NotHandling == [pc |-> "idle", isr |-> {}]

PmuInit ==
  /\ image = NoImage
  /\ loads = 0
  /\ fsbl = "runs"
  /\ em = FALSE
  /\ em_action = [PL |-> "NONE", FPD_SWDT |-> "NONE"]
  /\ scheduled = FALSE
  /\ conf = "idle"
  /\ XMpuPl_Initialized = FALSE
  /\ handler = NotHandling
  /\ error_status = FALSE
  /\ ipis = 0

-----------------------------------------------------------------------------
(* xpfw_pl_xmpu.h *)

XMPU_CTRL == {"DEFRD", "DEFWR", "PSNATTREN", "PSNADDREN", "ARSP_DEC"}
XMPU_INT_EN == {"WRVIO", "RDVIO"}
XMPU_LOCK_MASTERS == {"PMU", "RPU0"}
PL_BRAM_S_BASE == BRAM
PL_BRAM_NS_SHARED_BASE == BRAM + 4

PL_BRAM_NS_BASE == BRAM + 12

REGION_0 == [start |-> PL_BRAM_S_BASE, size |-> 1, masters |-> {"RPU0"},
             config |-> {"WR_ALLOW", "RD_ALLOW", "ENABLE"}]
REGION_1 == [start |-> PL_BRAM_NS_BASE, size |-> 1, masters |-> {"APU"},
             config |-> {"WR_ALLOW", "RD_ALLOW", "ENABLE"}]

-----------------------------------------------------------------------------
(* Start-up *)

\* The macros the code of an image tests.
Tested(fsblTask) ==
  {"ENABLE_EM", "ENABLE_SCHEDULER"} \cup (IF fsblTask THEN {"ENABLE_RECOVERY"} ELSE {})

Flash ==
  /\ build.made
  /\ build.compiled
  /\ ~image.flashed
  /\ LET fsblTask == build.version = "v2019_1" /\ "ENABLE_EM" \in build.macros IN
     image' = [flashed  |-> TRUE,
               macros   |-> build.macros \cap Tested(fsblTask),
               fsblTask |-> fsblTask]
  /\ build' = NoBuild
  /\ UNCHANGED <<loads, fsbl, em, em_action, scheduled, conf, XMpuPl_Initialized,
                 handler, error_status, ipis>>

\* The core calls the modules' configuration handlers, when it could create
\* the module.  The scheduler's adds the task.
ModSchInit ==
  /\ image.flashed
  /\ "ENABLE_SCHEDULER" \in image.macros
  /\ ~scheduled
  /\ scheduled' = TRUE
  /\ UNCHANGED <<image, loads, fsbl, em, em_action, conf, XMpuPl_Initialized, handler,
                 error_status, ipis>>

\* The error manager's takes the PL errors; the table of the other errors,
\* gone through next, has no action for them.
EmCfgInit ==
  /\ image.flashed
  /\ "ENABLE_EM" \in image.macros
  /\ ~em
  /\ em' = TRUE
  /\ em_action' = [em_action EXCEPT !.PL = "PL_ErrorHandler"]
  /\ UNCHANGED <<image, loads, fsbl, scheduled, conf, XMpuPl_Initialized, handler,
                 error_status, ipis>>

\* The boot loader loads the first bitstream, then completes and starts the
\* applications; later bitstreams are loaded by the PMU for them, so not
\* while it is busy.
LoadBitstream ==
  /\ image.flashed
  /\ loads < MaxLoads
  /\ loads = 0 \/ fsbl # "runs"
  /\ conf = "idle"
  /\ handler.pc = "idle"
  /\ loads' = loads + 1
  /\ XmpuReset
  /\ UNCHANGED <<image, fsbl, em, em_action, scheduled, conf, XMpuPl_Initialized,
                 handler, error_status, ipis>>

FsblCompletes ==
  /\ loads > 0
  /\ fsbl = "runs"
  /\ fsbl' = "completed"
  /\ UNCHANGED <<image, loads, em, em_action, scheduled, conf, XMpuPl_Initialized,
                 handler, error_status, ipis>>

WdtAction(macros) == IF "ENABLE_RECOVERY" \in macros THEN "CUSTOM" ELSE "SRST"

\* Version 2019.1: the watchdog's action waits for the boot loader.
CheckFsblCompletion ==
  /\ em
  /\ image.fsblTask
  /\ fsbl = "completed"
  /\ handler.pc = "idle"
  /\ fsbl' = "seen"
  /\ em_action' = [em_action EXCEPT !.FPD_SWDT = WdtAction(image.macros)]
  /\ UNCHANGED <<image, loads, em, scheduled, conf, XMpuPl_Initialized, handler,
                 error_status, ipis>>

-----------------------------------------------------------------------------
(* The task *)

PmuRuns == handler.pc = "idle"

XMpuPl_PmuTask ==
  /\ scheduled
  /\ PmuRuns
  /\ conf = "idle"
  /\ ~XMpuPl_Initialized
  /\ loads > 0
  /\ XMpuPl_CfgInitialize(XMpuPl_LookupConfig(0))
  /\ conf' = "CTRL"
  /\ UNCHANGED <<image, loads, fsbl, em, em_action, scheduled, XMpuPl_Initialized, handler,
                 error_status, ipis>>

\* The four writes that precede the regions, by the master that configures
\* the unit; Then is the step after each.
\* Mutant: the unit is locked before RPU0 is let past the lock.
LockedEarly == [CTRL |-> "LOCK", LOCK |-> "BYPASS", BYPASS |-> "IER", IER |-> "ADD0"]

Then == [CTRL |-> "BYPASS", BYPASS |-> "LOCK", LOCK |-> "IER", IER |-> "ADD0"]

Prepare(m, step) ==
  CASE step = "CTRL"   -> WriteCtrl(m, XMPU_CTRL)
    [] step = "BYPASS" -> WriteBypass(m, XMPU_LOCK_MASTERS)
    [] step = "LOCK"   -> WriteLock(m, TRUE)
    [] step = "IER"    -> WriteIER(XMPU_INT_EN)

PrepareUnit ==
  /\ PmuRuns
  /\ conf \in DOMAIN Then
  /\ Prepare("PMU", conf)
  /\ conf' = Then[conf]

\* A call of XMpuPl_AddRegion, and what its status decides: after a failure
\* nothing more is configured, and the task starts over 25 ms later.
AddFirst == conf = "ADD0" /\ AddRegion(REGION_0) /\ conf' = "STATUS0"
AddSecond == conf = "ADD1" /\ AddRegion(REGION_1) /\ conf' = "STATUS1"

FirstAdded ==
  /\ conf = "STATUS0"
  /\ AddRegionReturned
  /\ call' = NoCall
  /\ conf' = IF call.pc = "added" THEN "ADD1" ELSE "idle"
  /\ UNCHANGED <<inst, XMpuPl_Initialized>>

SecondAdded ==
  /\ conf = "STATUS1"
  /\ AddRegionReturned
  /\ call' = NoCall
  /\ conf' = "idle"
  /\ IF call.pc = "added" THEN XMpuPl_GetConfig /\ XMpuPl_Initialized' = TRUE
                          ELSE UNCHANGED <<inst, XMpuPl_Initialized>>

configureXMPU ==
  /\ PmuRuns
  /\ \/ PrepareUnit /\ UNCHANGED <<call, inst, XMpuPl_Initialized>>
     \/ (AddFirst \/ AddSecond) /\ UNCHANGED <<xmpuVars, inst, XMpuPl_Initialized>>
     \/ /\ conf \in {"STATUS0", "STATUS1"}
        /\ AddRegionWrite("PMU")
        /\ UNCHANGED <<inst, conf, XMpuPl_Initialized>>
     \/ /\ conf \in {"STATUS0", "STATUS1"}
        /\ AddRegionCheck
        /\ UNCHANGED <<xmpuVars, inst, conf, XMpuPl_Initialized>>
     \/ (FirstAdded \/ SecondAdded) /\ UNCHANGED xmpuVars
  /\ UNCHANGED <<image, loads, fsbl, em, em_action, scheduled, handler, error_status, ipis>>

-----------------------------------------------------------------------------
(* The error manager *)

\* The PL error bits latch the unit's interrupt line, a level.
Line == isr # {}

EmEventHandler ==
  /\ em
  /\ error_status
  /\ em_action.PL = "PL_ErrorHandler"
  /\ handler.pc = "idle"
  /\ handler' = [pc |-> "status", isr |-> {}]
  /\ UNCHANGED <<image, loads, fsbl, em, em_action, scheduled, conf, XMpuPl_Initialized,
                 error_status, ipis>>

ReadStatus ==
  /\ handler.pc = "status"
  /\ handler' = [pc |-> "clear", isr |-> isr]
  /\ UNCHANGED <<xmpuVars, error_status>>

\* Mutant: clears every violation, also one that came after the read.
ClearAll ==
  /\ handler.pc = "clear"
  /\ WriteISR(Interrupts)
  /\ handler' = [pc |-> "acknowledge", isr |-> {}]
  /\ UNCHANGED error_status

\* The violations read are reported; they alone are cleared.
XmpuPl_Interrupt_Handler ==
  /\ handler.pc = "clear"
  /\ WriteISR(handler.isr)
  /\ handler' = [pc |-> "acknowledge", isr |-> {}]
  /\ UNCHANGED error_status

\* Mutant: the line is taken to have gone with what was cleared.
ForgetsTheLine ==
  /\ handler.pc = "acknowledge"
  /\ error_status' = FALSE
  /\ handler' = NotHandling
  /\ UNCHANGED xmpuVars

\* The PMU's own status, which latches a line that is still raised again.
Acknowledge ==
  /\ handler.pc = "acknowledge"
  /\ error_status' = Line
  /\ handler' = NotHandling
  /\ UNCHANGED xmpuVars

PL_ErrorHandler ==
  /\ ReadStatus \/ XmpuPl_Interrupt_Handler \/ Acknowledge
  /\ UNCHANGED <<image, loads, fsbl, em, em_action, scheduled, conf, XMpuPl_Initialized,
                 ipis>>

\* A request of another processor: a new action, always with the table's own
\* handler, or none; refused where the processor has no permission.
EmIpiHandler ==
  /\ em
  /\ ipis < MaxIpis
  /\ handler.pc = "idle"
  /\ ipis' = ipis + 1
  /\ \E permitted \in BOOLEAN, request \in Requests :
       em_action' = IF permitted THEN [em_action EXCEPT ![request[1]] = request[2]]
                                 ELSE em_action
  /\ UNCHANGED <<image, loads, fsbl, em, scheduled, conf, XMpuPl_Initialized, handler,
                 error_status>>
=============================================================================
