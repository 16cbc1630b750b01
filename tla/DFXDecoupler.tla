----------------------------- MODULE DFXDecoupler -----------------------------
(***************************************************************************)
(* Hypervisor/dfx_decoupler_manager.py: the GPIO-driven decouplers of the  *)
(* PR zones and the reconfiguration sequence decouple, download, couple.   *)
(*                                                                         *)
(* The class has no lock: its callers serialise it, so one call of         *)
(* reconfigure_pr_zone is in progress at a time and is kept in reconf.     *)
(* Every access to the hardware may raise when HardwareFaults holds.       *)
(***************************************************************************)
EXTENDS Platform

CONSTANTS
  Decouplers,      \* the zones register_decoupler was called for
  HardwareFaults   \* whether GPIO writes and downloads may raise

ASSUME DFXAssumption ==
  /\ Decouplers \subseteq ZoneIds
  /\ HardwareFaults \in BOOLEAN

\* What a PR region contains: what the static shell put there, a bitstream, or
\* the remains of a download that was interrupted.
Shell == <<NoZone, "shell">>
Corrupt == <<NoZone, "corrupt">>
Contents == Bitstreams \cup {Shell, Corrupt}

VARIABLES
  gpio,        \* the decouple line of each zone: 1 isolates it
  fabric,      \* what the PR region holds
  reconf       \* the call of reconfigure_pr_zone in progress

dfxVars == <<gpio, fabric, reconf>>

Idle == [pc |-> "idle"]
ReconfPCs == {"decouple", "download", "couple", "recover", "true", "false"}

DFXTypeOK ==
  /\ gpio \in [Decouplers -> {0, 1}]
  /\ fabric \in [Decouplers -> Contents]
  /\ reconf \in {Idle} \cup [pc : ReconfPCs, file : Bitstreams]

\* register_decoupler on every zone, then ensure_all_coupled.
DFXInit ==
  /\ gpio = [z \in Decouplers |-> 0]
  /\ fabric = [z \in Decouplers |-> Shell]
  /\ reconf = Idle

-----------------------------------------------------------------------------
(* Setting one decoupler.  An unknown zone raises before anything is written. *)
(* _decoupler_states copies the line in the same call, with nothing that can *)
(* raise in between, and only status reports read it: it is not kept here.   *)

SetDecoupler(z, line) ==
  /\ z \in Decouplers
  /\ gpio' = [gpio EXCEPT ![z] = line]

RaiseDecoupler(z) ==
  /\ z \in Decouplers => HardwareFaults
  /\ UNCHANGED gpio

decouple_zone(z) == SetDecoupler(z, 1)
couple_zone(z) == SetDecoupler(z, 0)

-----------------------------------------------------------------------------
(* reconfigure_pr_zone(zone_id, bitstream_path); the file fixes the zone.    *)

zone_id == reconf.file[1]

BeginReconfigure(file) ==
  /\ reconf = Idle
  /\ reconf' = [pc |-> "decouple", file |-> file]
  /\ UNCHANGED <<gpio, fabric>>

\* Mutant: downloads even when the line could not be raised.
DownloadsAnyway ==
  /\ reconf.pc = "decouple"
  /\ decouple_zone(zone_id) \/ RaiseDecoupler(zone_id)
  /\ reconf' = [reconf EXCEPT !.pc = "download"]
  /\ UNCHANGED fabric

ReconfDecouple ==
  /\ reconf.pc = "decouple"
  /\ \/ decouple_zone(zone_id) /\ reconf' = [reconf EXCEPT !.pc = "download"]
     \/ RaiseDecoupler(zone_id) /\ reconf' = [reconf EXCEPT !.pc = "recover"]
  /\ UNCHANGED fabric

\* Mutant: a download that raises is taken for a success.
IgnoresDownload ==
  /\ reconf.pc = "download"
  /\ \E c \in {fabric[zone_id], Corrupt, reconf.file} :
        fabric' = [fabric EXCEPT ![zone_id] = c]
  /\ reconf' = [reconf EXCEPT !.pc = "couple"]
  /\ UNCHANGED gpio

\* A download that raises may have stopped before or after touching the region.
ReconfDownload ==
  /\ reconf.pc = "download"
  /\ \/ /\ fabric' = [fabric EXCEPT ![zone_id] = reconf.file]
        /\ reconf' = [reconf EXCEPT !.pc = "couple"]
     \/ /\ HardwareFaults
        /\ \E c \in {fabric[zone_id], Corrupt} :
              fabric' = [fabric EXCEPT ![zone_id] = c]
        /\ reconf' = [reconf EXCEPT !.pc = "recover"]
  /\ UNCHANGED gpio

\* Mutant: ignores an exception of the last step.
IgnoresCouple ==
  /\ reconf.pc = "couple"
  /\ couple_zone(zone_id) \/ RaiseDecoupler(zone_id)
  /\ reconf' = [reconf EXCEPT !.pc = "true"]
  /\ UNCHANGED fabric

ReconfCouple ==
  /\ reconf.pc = "couple"
  /\ \/ couple_zone(zone_id) /\ reconf' = [reconf EXCEPT !.pc = "true"]
     \/ RaiseDecoupler(zone_id) /\ reconf' = [reconf EXCEPT !.pc = "recover"]
  /\ UNCHANGED fabric

\* The handler of any exception: couple anyway, ignore how that goes.
ReconfRecover ==
  /\ reconf.pc = "recover"
  /\ couple_zone(zone_id) \/ RaiseDecoupler(zone_id)
  /\ reconf' = [reconf EXCEPT !.pc = "false"]
  /\ UNCHANGED fabric

ReconfStep == ReconfDecouple \/ ReconfDownload \/ ReconfCouple \/ ReconfRecover

\* The call returns TRUE or FALSE to its caller.
ReconfReturns(result) ==
  /\ reconf.pc = (IF result THEN "true" ELSE "false")
  /\ reconf' = Idle

-----------------------------------------------------------------------------
(* The class under arbitrary callers that take turns *)

DFXNext ==
  \/ \E file \in Files : BeginReconfigure(file)
  \/ ReconfStep
  \/ \E result \in BOOLEAN : ReconfReturns(result) /\ UNCHANGED <<gpio, fabric>>
  \/ /\ reconf = Idle
     /\ \E z \in ZoneIds : decouple_zone(z) \/ couple_zone(z)
     /\ UNCHANGED <<fabric, reconf>>

DFXSpec == DFXInit /\ [][DFXNext]_dfxVars /\ WF_dfxVars(ReconfStep)

-----------------------------------------------------------------------------
(* Properties *)

\* A region changes only behind a raised decouple line, and no other region's
\* content or line moves while one zone is being reconfigured.
ReprogramIsIsolated ==
  [][\A z \in Decouplers :
       /\ fabric'[z] # fabric[z] => gpio[z] = 1
       /\ (reconf # Idle /\ z # zone_id)
            => fabric'[z] = fabric[z] /\ gpio'[z] = gpio[z]]_dfxVars

\* TRUE is the truth: when the call reports success the region holds the file
\* that was asked for and is connected to the static shell.
SuccessMeansLoaded ==
  reconf.pc = "true" => /\ zone_id \in Decouplers
                        /\ fabric[zone_id] = reconf.file
                        /\ gpio[zone_id] = 0

=============================================================================
