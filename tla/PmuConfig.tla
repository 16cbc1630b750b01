----------------------------- MODULE PmuConfig ------------------------------
(***************************************************************************)
(* The build configuration of the PMU firmware: what the xpfw_config.h of  *)
(* each firmware version defines, given the values in the header, the      *)
(* macros on the compiler's command line and whether the design has DDR.   *)
(*                                                                         *)
(* A header has two parts: a value for every switch, and rules that define *)
(* a macro where its switch is on.  Both are written here as what a header *)
(* adds to the one before it.  From 2022.1 on the header stayed as it was. *)
(***************************************************************************)
EXTENDS Naturals, FiniteSets

CONSTANTS
  Knobs,      \* the switches and macros a build may change
  MaxEdits,   \* how many values it may change
  MaxGiven    \* how many macros it may define on the command line

\* A build changes switches; ENABLE_POS_QSPI is no switch but what ENABLE_POS
\* defines, and no header asks for DDR where the command line defines it.
ASSUME KnobsAssumption == "ENABLE_POS_QSPI" \notin Knobs

VARIABLE build   \* the build that was made, or NoBuild

-----------------------------------------------------------------------------
(* The values: the switches that are on, and those that are off *)

Prints == {"XPFW_PRINT", "XPFW_DEBUG_ERROR", "XPFW_DEBUG_DETAILED"}

Values_2019_1 ==
  [on  |-> {"ENABLE_PM", "ENABLE_EM", "ENABLE_SCHEDULER", "ENABLE_FPGA_LOAD",
            "ENABLE_SECURE", "XPU_INTR_DEBUG_PRINT_ENABLE",
            "ENABLE_UNUSED_RPU_PWR_DWN", "CONNECT_PMU_GPO_2",
            "CONNECT_PMU_GPO_3", "CONNECT_PMU_GPO_4", "CONNECT_PMU_GPO_5"}
           \cup Prints,
   off |-> {"ENABLE_RECOVERY", "ENABLE_RECOVERY_RESET_SYSTEM",
            "ENABLE_RECOVERY_RESET_PS_ONLY", "ENABLE_ESCALATION",
            "CHECK_HEALTHY_BOOT", "ENABLE_WDT", "ENABLE_CUSTOM_MOD", "ENABLE_STL",
            "ENABLE_RTC_TEST", "ENABLE_IPI_CRC", "EFUSE_ACCESS", "PM_LOG_LEVEL",
            "IDLE_PERIPHERALS", "ENABLE_NODE_IDLING", "DEBUG_MODE", "ENABLE_POS",
            "ENABLE_DDR_SR_WR", "DISABLE_CLK_PERMS", "PMU_MIO_INPUT_PIN",
            "BOARD_SHUTDOWN_PIN", "BOARD_SHUTDOWN_PIN_STATE", "SECURE_ACCESS"}]

Values_2019_2 == [Values_2019_1 EXCEPT
  !.on = @ \cup {"ENABLE_FPGA_READ_CONFIG_DATA", "ENABLE_FPGA_READ_CONFIG_REG"}]

Values_2020_1 == [Values_2019_2 EXCEPT
  !.off = @ \cup {"ENABLE_MOD_ULTRA96", "USE_DDR_FOR_APU_RESTART",
                  "ENABLE_RPU_RUN_MODE"}]

Values_2021_1 == [Values_2020_1 EXCEPT
  !.on = @ \cup {"USE_DDR_FOR_APU_RESTART"},
  !.off = @ \ {"USE_DDR_FOR_APU_RESTART", "ENABLE_IPI_CRC"}]

Values_2021_2 == [Values_2021_1 EXCEPT
  !.off = @ \cup {"ENABLE_IOCTL", "ENABLE_RUNTIME_OVERTEMP", "ENABLE_RUNTIME_EXTWDT"}]

Values_2022_1 == [Values_2021_2 EXCEPT
  !.off = @ \cup {"ENABLE_DYNAMIC_MIO_CONFIG", "ENABLE_DDR_XMPU"}]

Values_2022_2 == Values_2022_1
Values_2023_1 == Values_2022_2
Values_2023_2 == Values_2023_1

-----------------------------------------------------------------------------
(* The rules *)

\* Mutant: nothing depends on the memory controller.
UnconditionalRules == [ddrOnly |-> {}, brings |-> [ENABLE_POS |-> {"ENABLE_POS_QSPI"}],
                       unlessGiven |-> {}]

\* ddrOnly: defined from their switch only in a design with DDR.  brings: what
\* a defined macro defines in its turn.  unlessGiven: those that do so only
\* where the switch defines them, not when the command line did.
Rules_2019_1 ==
  [ddrOnly     |-> {"ENABLE_POS", "ENABLE_DDR_SR_WR"},
   brings      |-> [ENABLE_POS |-> {"ENABLE_POS_QSPI"}],
   unlessGiven |-> {}]

\* The new switches' blocks apart, and the renamed watchdog action.
Rules_2019_2 == Rules_2019_1

\* USE_DDR_FOR_APU_RESTART does not ask for DDR yet.
Rules_2020_1 == Rules_2019_2

Rules_2021_1 == [Rules_2020_1 EXCEPT !.ddrOnly = @ \cup {"USE_DDR_FOR_APU_RESTART"}]

Rules_2021_2 == Rules_2021_1
Brings_2021_2 ==
  [ENABLE_POS              |-> {"ENABLE_POS_QSPI"},
   ENABLE_RUNTIME_OVERTEMP |-> {"ENABLE_MOD_OVERTEMP", "ENABLE_EM", "ENABLE_IOCTL"},
   ENABLE_RUNTIME_EXTWDT   |-> {"ENABLE_MOD_EXTWDT", "ENABLE_IOCTL"}]

Rules_2022_1 == Rules_2021_2

\* Mutant: the block of the external watchdog is guarded as in 2021.2.
ForgetsIoctl ==
  [ENABLE_POS                |-> {"ENABLE_POS_QSPI"},
   ENABLE_RUNTIME_OVERTEMP   |-> {"ENABLE_MOD_OVERTEMP", "ENABLE_EM", "ENABLE_IOCTL",
                                  "ENABLE_FEATURE_CONFIG"},
   ENABLE_RUNTIME_EXTWDT     |-> {"ENABLE_MOD_EXTWDT", "ENABLE_FEATURE_CONFIG"},
   ENABLE_DYNAMIC_MIO_CONFIG |-> {"ENABLE_IOCTL"}]

Brings_2022_1 ==
  [ENABLE_POS                |-> {"ENABLE_POS_QSPI"},
   ENABLE_RUNTIME_OVERTEMP   |-> {"ENABLE_MOD_OVERTEMP", "ENABLE_EM", "ENABLE_IOCTL",
                                  "ENABLE_FEATURE_CONFIG"},
   ENABLE_RUNTIME_EXTWDT     |-> {"ENABLE_MOD_EXTWDT", "ENABLE_IOCTL",
                                  "ENABLE_FEATURE_CONFIG"},
   ENABLE_DYNAMIC_MIO_CONFIG |-> {"ENABLE_IOCTL"}]

Rules_2022_2 == [Rules_2022_1 EXCEPT !.brings = Brings_2022_1]
Rules_2023_1 == Rules_2022_2
Rules_2023_2 == Rules_2023_1

-----------------------------------------------------------------------------
(* Builds *)

Runtime == {"ENABLE_RUNTIME_OVERTEMP", "ENABLE_RUNTIME_EXTWDT"}

Header ==
  [v2019_1 |-> [values |-> Values_2019_1, rules |-> Rules_2019_1],
   v2019_2 |-> [values |-> Values_2019_2, rules |-> Rules_2019_2],
   v2020_1 |-> [values |-> Values_2020_1, rules |-> Rules_2020_1],
   v2021_1 |-> [values |-> Values_2021_1, rules |-> Rules_2021_1],
   v2021_2 |-> [values |-> Values_2021_2,
                rules  |-> [Rules_2021_2 EXCEPT !.brings = Brings_2021_2,
                                                !.unlessGiven = Runtime]],
   v2022_1 |-> [values |-> Values_2022_1,
                rules  |-> [Rules_2022_1 EXCEPT !.brings = Brings_2022_1]],
   v2022_2 |-> [values |-> Values_2022_2, rules |-> Rules_2022_2],
   v2023_1 |-> [values |-> Values_2023_1, rules |-> Rules_2023_1],
   v2023_2 |-> [values |-> Values_2023_2, rules |-> Rules_2023_2]]

Versions == DOMAIN Header

Switches(version) == Header[version].values.on \cup Header[version].values.off

\* The switches on after the edits, each of which changes one value.
On(version, edits) ==
  (Header[version].values.on \ edits) \cup (Header[version].values.off \cap edits)

\* The macros defined after the header, what a macro brings included.
Defined(version, ddr, edits, given) ==
  LET rules == Header[version].rules
      own   == given \cup (On(version, edits) \ (IF ddr THEN {} ELSE rules.ddrOnly))
      bring == {m \in own \cap DOMAIN rules.brings :
                  ~(m \in rules.unlessGiven /\ m \in given)}
  IN own \cup UNION {rules.brings[m] : m \in bring}

\* #error: the two features asked for on the command line without DDR.
Compiles(ddr, given) == ~ddr => given \cap {"ENABLE_POS", "ENABLE_DDR_SR_WR"} = {}

NoBuild == [made |-> FALSE]

ConfigInit == build = NoBuild

Make(version, ddr, edits, given) ==
  /\ ~build.made
  /\ build' = [made     |-> TRUE,
               version  |-> version,
               ddr      |-> ddr,
               given    |-> given,
               compiled |-> Compiles(ddr, given),
               macros   |-> Defined(version, ddr, edits, given)]

\* The subsets of S of at most n elements.
UpTo(n, S) == {T \in SUBSET S : Cardinality(T) <= n}

MakeSome ==
  \E version \in Versions, ddr \in BOOLEAN :
    \E edits \in UpTo(MaxEdits, Knobs \cap Switches(version)),
       given \in UpTo(MaxGiven, Knobs) :
      Make(version, ddr, edits, given)

-----------------------------------------------------------------------------
(* Properties *)

\* A firmware that compiles has what its features need: power-off suspend and
\* self-refresh over a warm restart only where there is DDR, and from 2021.2
\* on the runtime features with the modules they are built on, whichever way
\* each was switched on, off or both.  In 2021.2 a runtime feature given on
\* the command line is excepted: it skips the block that brings the rest.
FeaturesAreSupported ==
  build.made /\ build.compiled =>
    /\ build.macros \cap {"ENABLE_POS", "ENABLE_DDR_SR_WR", "ENABLE_POS_QSPI"} # {}
         => build.ddr
    /\ \A m \in Runtime \cap build.macros :
         \/ build.version \in {"v2019_1", "v2019_2", "v2020_1", "v2021_1"}
         \/ build.version = "v2021_2" /\ m \in build.given
         \/ /\ "ENABLE_IOCTL" \in build.macros
            /\ m = "ENABLE_RUNTIME_OVERTEMP" => "ENABLE_EM" \in build.macros
=============================================================================
