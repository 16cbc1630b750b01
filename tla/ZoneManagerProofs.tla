-------------------------- MODULE ZoneManagerProofs --------------------------
(***************************************************************************)
(* The two tables of the PR zone manager agree in every reachable state,   *)
(* and a region is reprogrammed only in isolation.  The lemmas are about   *)
(* one call or one step each, so that they serve the specifications of the *)
(* two classes and that of the hypervisor.                                 *)
(***************************************************************************)
EXTENDS ZoneManagers, WellFoundedInduction, TLAPS

PRZoneInv == PRZoneTypeOK /\ TablesAgree

\* A freshly constructed manager satisfies the invariant.
LEMMA InitEstablishes == PRZoneInit => PRZoneInv
  BY DEF PRZoneInit, PRZoneInv, PRZoneTypeOK, TablesAgree

\* allocate_zone enters the zone in both tables.
LEMMA AllocatePreserves ==
  ASSUME PRZoneInv,
         NEW t \in Tenants, NEW z \in ZoneIds, NEW f \in Bitstreams,
         NEW h \in Handles,
         allocate_zone(t, z, f, h)
  PROVE  PRZoneInv'
<1>1. PRZoneTypeOK'
  BY DEF PRZoneInv, PRZoneTypeOK, allocate_zone, Allocation
<1>2. TablesAgree'
  BY DEF PRZoneInv, PRZoneTypeOK, TablesAgree, allocate_zone, Allocation,
         is_zone_available
<1> QED BY <1>1, <1>2 DEF PRZoneInv

\* release_zone takes the zone out of the set of the tenant that its
\* allocation names; by TablesAgree that is the only set it is in.
LEMMA ReleasePreserves ==
  ASSUME PRZoneInv, NEW z, release_zone(z)
  PROVE  PRZoneInv'
<1>1. PRZoneTypeOK'
  BY DEF PRZoneInv, PRZoneTypeOK, release_zone, is_zone_available, Restrict,
         Allocation
<1>2. TablesAgree'
  BY DEF PRZoneInv, PRZoneTypeOK, TablesAgree, release_zone, is_zone_available,
         Restrict, Allocation
<1> QED BY <1>1, <1>2 DEF PRZoneInv

\* The zones release_all_tenant_zones walks are those the allocation table
\* gives to the tenant.
LEMMA ReleasedZonesAreTheTenants ==
  ASSUME PRZoneInv, NEW t \in Tenants
  PROVE  ReleasedZones(t) = {z \in DOMAIN allocations : allocations[z].tenant = t}
  BY DEF PRZoneInv, TablesAgree, ReleasedZones, get_tenant_zones

LEMMA ReleaseAllPreserves ==
  ASSUME PRZoneInv, NEW t \in Tenants, release_all_tenant_zones(t)
  PROVE  PRZoneInv'
<1>1. PRZoneTypeOK'
  BY DEF PRZoneInv, PRZoneTypeOK, release_all_tenant_zones, Restrict
<1>2. TablesAgree'
  BY DEF PRZoneInv, PRZoneTypeOK, TablesAgree, release_all_tenant_zones, Restrict
<1> QED BY <1>1, <1>2 DEF PRZoneInv

\* After release_all_tenant_zones the allocation table does not name the
\* tenant, and the other tenants have what they had.
LEMMA ReleaseAllReleases ==
  ASSUME PRZoneInv, NEW t \in Tenants, release_all_tenant_zones(t)
  PROVE  /\ \A z \in DOMAIN allocations' : allocations'[z].tenant # t
         /\ \A u \in Tenants \ {t} : tenant_zones'[u] = tenant_zones[u]
<1>1. \A z \in DOMAIN allocations' : allocations'[z].tenant # t
  BY ReleasedZonesAreTheTenants DEF release_all_tenant_zones, Restrict
<1>2. \A u \in Tenants \ {t} : tenant_zones'[u] = tenant_zones[u]
  BY ReleasedZonesAreTheTenants
     DEF release_all_tenant_zones, PRZoneInv, PRZoneTypeOK
<1> QED BY <1>1, <1>2

-----------------------------------------------------------------------------

\* Every call of the class preserves the invariant.
LEMMA NextPreserves == PRZoneInv /\ [PRZoneNext]_pzVars => PRZoneInv'
<1> SUFFICES ASSUME PRZoneInv, [PRZoneNext]_pzVars PROVE PRZoneInv'
  OBVIOUS
<1>1. CASE UNCHANGED pzVars
  BY <1>1 DEF PRZoneInv, PRZoneTypeOK, TablesAgree, pzVars
<1>2. ASSUME NEW t \in Tenants, NEW z \in ZoneIds, NEW base \in Bases,
             NEW h \in Handles, Allocate(t, z, base, h)
      PROVE  PRZoneInv'
  BY <1>2, AllocatePreserves, <<z, base>> \in Bitstreams DEF Allocate, Bitstreams
<1>3. ASSUME NEW z \in ZoneIds, release_zone(z) PROVE PRZoneInv'
  BY <1>3, ReleasePreserves
<1>4. ASSUME NEW h \in Handles, release_zone_by_handle(h) PROVE PRZoneInv'
  BY <1>4, ReleasePreserves DEF release_zone_by_handle
<1>5. ASSUME NEW t \in Tenants, release_all_tenant_zones(t) PROVE PRZoneInv'
  BY <1>5, ReleaseAllPreserves
<1> QED BY <1>1, <1>2, <1>3, <1>4, <1>5 DEF PRZoneNext

\* The tables of the PR zone manager are well typed and each other's inverse
\* after any sequence of calls (_allocations and _tenant_zones).
THEOREM TablesAlwaysAgree == PRZoneSpec => [](PRZoneTypeOK /\ TablesAgree)
<1>1. PRZoneInv => PRZoneTypeOK /\ TablesAgree
  BY DEF PRZoneInv
<1> QED BY <1>1, InitEstablishes, NextPreserves, PTL DEF PRZoneSpec

\* Every entry of both tables stays what the code reads from it takes it for.
THEOREM TablesAreTyped == PRZoneSpec => []PRZoneTypeOK
  BY TablesAlwaysAgree, PTL

\* No call changes the allocation of a zone that stays allocated.
THEOREM ZonesAreNeverTakenOver == PRZoneSpec => NoTakeover
<1>1. PRZoneInv /\ [PRZoneNext]_pzVars =>
        [\A z \in DOMAIN allocations \cap DOMAIN allocations' :
            allocations'[z] = allocations[z]]_pzVars
  BY DEF PRZoneNext, pzVars, Allocate, allocate_zone, is_zone_available,
         release_zone, release_zone_by_handle, release_all_tenant_zones, Restrict
<1> QED BY <1>1, InitEstablishes, NextPreserves, PTL DEF PRZoneSpec, NoTakeover

\* When release_all_tenant_zones returns the tenant has no allocation left and
\* nobody else lost one.
THEOREM ReleaseAllAlwaysComplete == PRZoneSpec => ReleaseAllIsComplete
<1>1. PRZoneInv /\ [PRZoneNext]_pzVars =>
        [\A t \in Tenants : release_all_tenant_zones(t) =>
           /\ \A z \in DOMAIN allocations' : allocations'[z].tenant # t
           /\ \A u \in Tenants \ {t} : tenant_zones'[u] = tenant_zones[u]]_pzVars
  BY ReleaseAllReleases
<1> QED
  BY <1>1, InitEstablishes, NextPreserves, PTL DEF PRZoneSpec, ReleaseAllIsComplete

-----------------------------------------------------------------------------

\* Min of a non-empty set of naturals is a member of it.
LEMMA MinIsMember ==
  ASSUME NEW S \in SUBSET Nat, S # {}
  PROVE  Min(S) \in S
<1> DEFINE R == {ss \in Nat \X Nat : ss[1] < ss[2]}
<1>1. OpToRel(<, Nat) = R
  BY Zenon DEF OpToRel
<1>2. IsWellFoundedOn(R, Nat)
  BY <1>1, NatLessThanWellFounded, Zenon
<1> HIDE DEF R
<1>3. PICK x \in S : \A y \in S : ~(<<y, x>> \in R)
  BY <1>2, WFMin
<1>4. ASSUME NEW y \in S PROVE x =< y
  <2>1. x \in Nat /\ y \in Nat
    OBVIOUS
  <2>2. y < x => <<y, x>> \in R
    BY <2>1 DEF R
  <2> QED BY <1>3, <2>1, <2>2
<1> QED BY <1>4 DEF Min

\* The search proposes nothing, the zone the request names, or a candidate:
\* in each case a free zone whose file exists.
LEMMA SearchProposesLoadable ==
  ASSUME NEW req \in Requests, NEW allowed,
         find_best_zone_for_bitstream(req, allowed) # NoZone
  PROVE  LET z == find_best_zone_for_bitstream(req, allowed)
         IN  /\ z \in ZoneIds
             /\ is_zone_available(z)
             /\ <<z, req.base>> \in Files
<1> DEFINE z == find_best_zone_for_bitstream(req, allowed)
           C == Candidates(req.base, allowed)
<1>1. CASE req.zone # NoZone /\ ~is_zone_available(req.zone)
  BY <1>1 DEF find_best_zone_for_bitstream
<1>2. CASE req.zone # NoZone /\ is_zone_available(req.zone)
             /\ <<req.zone, req.base>> \in Files
  BY <1>2 DEF find_best_zone_for_bitstream, Requests
<1>3. CASE /\ ~(req.zone # NoZone /\ ~is_zone_available(req.zone))
           /\ ~(req.zone # NoZone /\ is_zone_available(req.zone)
                  /\ <<req.zone, req.base>> \in Files)
  <2>1. z = LowestCandidate(req.base, allowed)
    BY <1>3 DEF find_best_zone_for_bitstream
  <2>2. C # {} /\ z = Min(C)
    BY <2>1 DEF LowestCandidate
  <2>3. C \in SUBSET Nat
    BY PlatformAssumption DEF Candidates, get_available_zones, Zones
  <2>4. z \in C
    BY <2>2, <2>3, MinIsMember
  <2> QED
    BY <2>4, PlatformAssumption DEF Candidates, get_available_zones,
       find_bitstream_for_zone, is_zone_available
<1> QED BY <1>1, <1>2, <1>3

\* What find_best_zone_for_bitstream proposes can be loaded as it stands.
THEOREM ProposalsAreLoadable == PRZoneSpec => []ProposalIsLoadable
<1>1. ProposalIsLoadable
  BY SearchProposesLoadable DEF ProposalIsLoadable
<1> QED BY <1>1, PTL

-----------------------------------------------------------------------------
(* The DFX decoupler manager *)

\* A step of the DFX manager's sequence neither begins nor ends it.
LEMMA ReconfStepTypes ==
  ASSUME DFXTypeOK, ReconfStep
  PROVE  /\ DFXTypeOK'
         /\ reconf # Idle
         /\ reconf' # Idle
         /\ reconf'.file = reconf.file
         /\ zone_id' = zone_id
         /\ zone_id \in ZoneIds
<1>1. /\ reconf.pc # "idle"
      /\ reconf \in [pc : ReconfPCs, file : Bitstreams]
  BY DEF ReconfStep, ReconfDecouple, ReconfDownload, ReconfCouple, ReconfRecover,
         DFXTypeOK, Idle
<1>2. \E pc \in ReconfPCs : reconf' = [reconf EXCEPT !.pc = pc]
  BY DEF ReconfStep, ReconfDecouple, ReconfDownload, ReconfCouple, ReconfRecover,
         ReconfPCs
<1>3. /\ reconf' \in [pc : ReconfPCs, file : Bitstreams]
      /\ reconf'.pc \in ReconfPCs
      /\ reconf'.file = reconf.file
  BY <1>1, <1>2
<1>4. zone_id' = zone_id /\ zone_id \in ZoneIds
  BY <1>1, <1>3 DEF zone_id, Bitstreams
<1>5. gpio' \in [Decouplers -> {0, 1}]
  BY DEF ReconfStep, ReconfDecouple, ReconfDownload, ReconfCouple, ReconfRecover,
         decouple_zone, couple_zone, SetDecoupler, RaiseDecoupler, DFXTypeOK
<1>6. fabric' \in [Decouplers -> Contents]
  BY <1>1 DEF ReconfStep, ReconfDecouple, ReconfDownload, ReconfCouple, ReconfRecover,
     DFXTypeOK, Contents
<1> QED BY <1>1, <1>3, <1>4, <1>5, <1>6 DEF DFXTypeOK, Idle, ReconfPCs

\* What one step of the sequence does to the regions.
LEMMA SequenceAdvances ==
  ASSUME DFXTypeOK, ReconfStep,
         reconf.pc \in {"download", "couple", "true"} => zone_id \in Decouplers,
         reconf.pc = "couple" => fabric[zone_id] = reconf.file
  PROVE  /\ \A z \in Decouplers \ {zone_id} : fabric'[z] = fabric[z] /\ gpio'[z] = gpio[z]
         /\ reconf'.pc \in {"download", "couple", "true"} => zone_id \in Decouplers
         /\ reconf'.pc \in {"couple", "true"} => fabric'[zone_id] = reconf.file
         /\ reconf'.pc = "true" => /\ reconf.pc = "couple"
                                   /\ gpio'[zone_id] = 0
                                   /\ fabric' = fabric
<1> USE DEF DFXTypeOK, Idle
<1>1. CASE ReconfDecouple
  BY <1>1 DEF ReconfDecouple, decouple_zone, SetDecoupler, RaiseDecoupler
<1>2. CASE ReconfDownload
  BY <1>2 DEF ReconfDownload
<1>3. CASE ReconfCouple
  BY <1>3 DEF ReconfCouple, couple_zone, SetDecoupler, RaiseDecoupler
<1>4. CASE ReconfRecover
  BY <1>4 DEF ReconfRecover, couple_zone, SetDecoupler, RaiseDecoupler
<1> QED BY <1>1, <1>2, <1>3, <1>4 DEF ReconfStep

\* What a call of reconfigure_pr_zone has established so far.
DFXInv ==
  /\ DFXTypeOK
  /\ reconf.pc \in {"download", "couple", "true"} => zone_id \in Decouplers
  /\ reconf.pc = "download" => gpio[zone_id] = 1
  /\ reconf.pc \in {"couple", "true"} => fabric[zone_id] = reconf.file
  /\ reconf.pc = "true" => gpio[zone_id] = 0

\* The download is the only step that touches a region, after the line was raised.
LEMMA StepIsIsolated ==
  ASSUME DFXInv, ReconfStep
  PROVE  /\ reconf'.pc = "download" => gpio'[zone_id] = 1
         /\ \A z \in Decouplers : fabric'[z] # fabric[z] => z = zone_id /\ gpio[z] = 1
<1> USE DEF DFXInv, DFXTypeOK, Idle
<1>1. CASE ReconfDecouple
  BY <1>1 DEF ReconfDecouple, decouple_zone, SetDecoupler, RaiseDecoupler
<1>2. CASE ReconfDownload
  BY <1>2 DEF ReconfDownload
<1>3. CASE ReconfCouple
  BY <1>3 DEF ReconfCouple
<1>4. CASE ReconfRecover
  BY <1>4 DEF ReconfRecover
<1> QED BY <1>1, <1>2, <1>3, <1>4 DEF ReconfStep

LEMMA StepKeepsDFXInv ==
  ASSUME DFXInv, ReconfStep
  PROVE  DFXInv'
<1>1. /\ DFXTypeOK'
      /\ reconf'.file = reconf.file
      /\ zone_id' = zone_id
  BY ReconfStepTypes DEF DFXInv
<1>2. /\ reconf'.pc \in {"download", "couple", "true"} => zone_id \in Decouplers
      /\ reconf'.pc \in {"couple", "true"} => fabric'[zone_id] = reconf.file
      /\ reconf'.pc = "true" => gpio'[zone_id] = 0
  BY SequenceAdvances DEF DFXInv
<1> QED BY <1>1, <1>2, StepIsIsolated DEF DFXInv

LEMMA DFXInvNext == DFXInv /\ [DFXNext]_dfxVars => DFXInv'
<1> SUFFICES ASSUME DFXInv, [DFXNext]_dfxVars PROVE DFXInv'
  OBVIOUS
<1>1. ASSUME NEW file \in Files, BeginReconfigure(file) PROVE DFXInv'
  BY <1>1, PlatformAssumption DEF BeginReconfigure, DFXInv, DFXTypeOK, ReconfPCs, Idle
<1>2. CASE ReconfStep
  BY <1>2, StepKeepsDFXInv
<1>3. ASSUME NEW result \in BOOLEAN, ReconfReturns(result), UNCHANGED <<gpio, fabric>>
      PROVE  DFXInv'
  BY <1>3 DEF ReconfReturns, DFXInv, DFXTypeOK, Idle
<1>4. ASSUME NEW z \in ZoneIds, decouple_zone(z) \/ couple_zone(z), reconf = Idle,
             UNCHANGED <<fabric, reconf>>
      PROVE  DFXInv'
  BY <1>4 DEF decouple_zone, couple_zone, SetDecoupler, DFXInv, DFXTypeOK, Idle
<1>5. CASE UNCHANGED dfxVars
  BY <1>5 DEF dfxVars, DFXInv, DFXTypeOK, zone_id
<1> QED BY <1>1, <1>2, <1>3, <1>4, <1>5 DEF DFXNext

LEMMA DFXInitEstablishes == DFXInit => DFXInv
  BY DEF DFXInit, DFXInv, DFXTypeOK, Contents, Idle

LEMMA DFXInvariance == DFXSpec => []DFXInv
  BY DFXInitEstablishes, DFXInvNext, PTL DEF DFXSpec

\* The lines, the regions and the call in progress stay what the code takes them for.
THEOREM SequencesAreTyped == DFXSpec => []DFXTypeOK
<1>1. DFXInv => DFXTypeOK
  BY DEF DFXInv
<1> QED BY <1>1, DFXInvariance, PTL

\* When reconfigure_pr_zone returns True the region holds the file and is connected,
\* whatever failed on the way and whoever used the decouplers before.
THEOREM SuccessIsTruthful == DFXSpec => []SuccessMeansLoaded
<1>1. DFXInv => SuccessMeansLoaded
  BY DEF DFXInv, SuccessMeansLoaded
<1> QED BY <1>1, DFXInvariance, PTL

\* No region changes while its line connects it, and no other zone's line or
\* region moves during a call of reconfigure_pr_zone.
THEOREM ReprogrammingIsIsolated == DFXSpec => ReprogramIsIsolated
<1> DEFINE Isolated ==
      \A z \in Decouplers :
        /\ fabric'[z] # fabric[z] => gpio[z] = 1
        /\ (reconf # Idle /\ z # zone_id)
             => fabric'[z] = fabric[z] /\ gpio'[z] = gpio[z]
<1>1. DFXInv /\ [DFXNext]_dfxVars => [Isolated]_dfxVars
  <2> SUFFICES ASSUME DFXInv, DFXNext PROVE Isolated
    OBVIOUS
  <2>1. CASE ReconfStep
    BY <2>1, StepIsIsolated, SequenceAdvances DEF DFXInv
  <2>2. CASE ~ReconfStep
    BY <2>2 DEF DFXNext, BeginReconfigure, ReconfReturns, Idle
  <2> QED BY <2>1, <2>2
<1> QED BY <1>1, DFXInvariance, PTL DEF DFXSpec, ReprogramIsIsolated

-----------------------------------------------------------------------------

\* Side by side, each manager takes only the steps it takes alone: a step of one
\* is a stutter of the other.  So each safety property proved of one above also
\* holds of the two together (PRZoneManager, DFXDecouplerManager).
THEOREM ManagersAreIndependent ==
  ManagersSpec => PRZoneSpec /\ DFXInit /\ [][DFXNext]_dfxVars
<1>1. ManagersInit => PRZoneInit /\ DFXInit
  BY DEF ManagersInit
<1>2. [ManagersNext]_<<pzVars, dfxVars>> => [PRZoneNext]_pzVars
  BY DEF ManagersNext
<1>3. [ManagersNext]_<<pzVars, dfxVars>> => [DFXNext]_dfxVars
  BY DEF ManagersNext
<1> QED BY <1>1, <1>2, <1>3, PTL DEF ManagersSpec, PRZoneSpec

\* Whatever order the calls of the two managers come in, the tables of one and
\* the lines, regions and sequence of the other stay well-formed.
THEOREM ManagersAreTyped == ManagersSpec => []ManagersTypeOK
<1>1. DFXInit => DFXInv
  BY DFXInitEstablishes
<1>2. PRZoneTypeOK /\ DFXInv => ManagersTypeOK
  BY DEF ManagersTypeOK, DFXInv
<1> QED BY <1>1, <1>2, ManagersAreIndependent, TablesAreTyped, DFXInvNext, PTL
=============================================================================
