----------------------------- MODULE ZoneManagers -----------------------------
(***************************************************************************)
(* The two managers of the zones side by side, as the resource manager      *)
(* constructs them: the tables of one and the reconfiguration of the other *)
(* share no state, and change in any order.  Hypervisor composes the same  *)
(* operators in the order its calls make them.                             *)
(***************************************************************************)
EXTENDS PRZoneManager, DFXDecoupler

ManagersInit == PRZoneInit /\ DFXInit

ManagersNext ==
  \/ PRZoneNext /\ UNCHANGED dfxVars
  \/ DFXNext /\ UNCHANGED pzVars

ManagersSpec == ManagersInit /\ [][ManagersNext]_<<pzVars, dfxVars>>

\* Both keep their tables and their sequence well-formed, whatever the other
\* does (PRZoneManager, DFXDecouplerManager).
ManagersTypeOK == PRZoneTypeOK /\ DFXTypeOK
=============================================================================
