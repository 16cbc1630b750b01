------------------------------- MODULE MCFabric -------------------------------
(* What the tenants share of the FPGA, its zones and its pads.  The managers   *)
(* of the zones and the crossbar share no state, so each is explored with the  *)
(* other one not yet used.                                                     *)
(* Zones: two with a decoupler, a file name that carries the number of a third *)
(* one without, and a base name whose file for zone 0 is missing.  Crossbar:   *)
(* two pads and two virtual pins; a map entry has two bits, so 3 is a number   *)
(* past the last virtual pin.                                                  *)
EXTENDS ZoneManagers, AtlasCrossbar, TLC

CONSTANTS t1, t2, h1, h2, h3, sum, conv

MCTenants == {t1, t2}
MCHandles == {h1, h2, h3}
MCZoneIds == 0 .. 2
MCBases == {sum, conv}
MCFiles == {<<0, sum>>, <<1, sum>>, <<1, conv>>, <<2, conv>>}
MCAllowed == t1 :> {<<0, sum>>, <<1, sum>>} @@ t2 :> (MCZoneIds \X MCBases)
MCDecouplers == {0, 1}

managersVars == <<pzVars, dfxVars>>

FabricInit == ManagersInit /\ AtlasInit

FabricNext ==
  \/ AtlasInit /\ ManagersNext /\ UNCHANGED atlasVars
  \/ ManagersInit /\ AtlasNext /\ UNCHANGED managersVars

FabricSpec == FabricInit /\ [][FabricNext]_<<managersVars, atlasVars>>
=============================================================================
