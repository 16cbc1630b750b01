---------------------------- MODULE PRZoneManager ----------------------------
(***************************************************************************)
(* Hypervisor/pr_zone_manager.py: which tenant holds which partially       *)
(* reconfigurable (PR) zone of the FPGA.                                   *)
(*                                                                         *)
(* The class keeps the same fact twice, as zone -> allocation and as       *)
(* tenant -> zones; every method runs under the class's own RLock, so each *)
(* is one action here.  The operators of the first part are the methods;   *)
(* module Hypervisor calls them.  The second part lets arbitrary callers   *)
(* drive the class on its own.                                             *)
(*                                                                         *)
(* A request is what parse_bitstream_name makes of the path the tenant     *)
(* sends, a file name directly in bitstream_dir.                           *)
(***************************************************************************)
EXTENDS Platform, FiniteSetsExt, Functions

\* (zone_id, base_name), with None for a name that has no PR_<n>_ prefix.
Requests == [zone : ZoneIds \cup {NoZone}, base : Bases]

Allocation == [tenant : Tenants, bitstream : Bitstreams, handle : Handles]

VARIABLES
  allocations,   \* _allocations: a dictionary, so a function on its keys
  tenant_zones   \* _tenant_zones: {} is an absent key (get_tenant_zones)

pzVars == <<allocations, tenant_zones>>

PRZoneTypeOK ==
  /\ DOMAIN allocations \subseteq ZoneIds
  /\ allocations \in [DOMAIN allocations -> Allocation]
  /\ tenant_zones \in [Tenants -> SUBSET ZoneIds]

PRZoneInit ==
  /\ allocations = [z \in {} |-> {}]
  /\ tenant_zones = [t \in Tenants |-> {}]

-----------------------------------------------------------------------------
(* Queries *)

\* Ranges over the configured zones only ...
get_available_zones == {z \in Zones : z \notin DOMAIN allocations}

\* ... while this one accepts any number.
is_zone_available(z) == z \notin DOMAIN allocations

get_tenant_zones(t) == tenant_zones[t]

\* Mutant: does not look whether the file exists.
AllowedIsEnough(z, base, allowed) == <<z, base>> \in allowed

find_bitstream_for_zone(z, base, allowed) ==
  <<z, base>> \in allowed /\ <<z, base>> \in Files

\* The zones the search may return: the lowest wins.
Candidates(base, allowed) ==
  {z \in get_available_zones : find_bitstream_for_zone(z, base, allowed)}

LowestCandidate(base, allowed) ==
  IF Candidates(base, allowed) = {} THEN NoZone ELSE Min(Candidates(base, allowed))

\* The zone to load the request into; its file is then <<zone, base>>.  A name
\* with a prefix is refused when its zone is busy, taken without a look at
\* the allowed list when its file exists, and searched for otherwise.
find_best_zone_for_bitstream(req, allowed) ==
  CASE req.zone # NoZone /\ ~is_zone_available(req.zone)  -> NoZone
    [] req.zone # NoZone /\ is_zone_available(req.zone)
         /\ <<req.zone, req.base>> \in Files              -> req.zone
    [] OTHER -> LowestCandidate(req.base, allowed)

-----------------------------------------------------------------------------
(* Updates *)

\* Mutant: counts the zones it hands out from 1.
OneBased(t, z, file, h) ==
  /\ is_zone_available(z)
  /\ allocations' =
       [x \in DOMAIN allocations \cup {z} |->
          IF x = z THEN [tenant |-> t, bitstream |-> file, handle |-> h]
                   ELSE allocations[x]]
  /\ tenant_zones' = [tenant_zones EXCEPT ![t] = @ \cup {z + 1}]

allocate_zone(t, z, file, h) ==
  /\ is_zone_available(z)
  /\ allocations' =
       [x \in DOMAIN allocations \cup {z} |->
          IF x = z THEN [tenant |-> t, bitstream |-> file, handle |-> h]
                   ELSE allocations[x]]
  /\ tenant_zones' = [tenant_zones EXCEPT ![t] = @ \cup {z}]

\* Mutant: forgets the tenant's own set.
ReleaseHalf(z) ==
  /\ ~is_zone_available(z)
  /\ allocations' = Restrict(allocations, DOMAIN allocations \ {z})
  /\ UNCHANGED tenant_zones

release_zone(z) ==
  /\ ~is_zone_available(z)
  /\ allocations' = Restrict(allocations, DOMAIN allocations \ {z})
  /\ tenant_zones' = [tenant_zones EXCEPT ![allocations[z].tenant] = @ \ {z}]

release_zone_by_handle(h) ==
  \E z \in DOMAIN allocations : allocations[z].handle = h /\ release_zone(z)

\* Walks the tenant's own set of zones and releases each one that is
\* allocated.  release_zone takes each zone out of the set of the tenant the
\* allocation names, whoever that is.
ReleasedZones(t) == get_tenant_zones(t) \cap DOMAIN allocations

release_all_tenant_zones(t) ==
  /\ allocations' = Restrict(allocations, DOMAIN allocations \ ReleasedZones(t))
  /\ tenant_zones' =
       [u \in Tenants |-> tenant_zones[u] \
          {z \in ReleasedZones(t) : allocations[z].tenant = u}]

-----------------------------------------------------------------------------
(* The class under arbitrary callers.  Handles are fresh: uuid4 names.      *)

FreshHandle(h) == \A z \in DOMAIN allocations : allocations[z].handle # h

Allocate(t, z, base, h) ==
  FreshHandle(h) /\ allocate_zone(t, z, <<z, base>>, h)

PRZoneNext ==
  \/ \E t \in Tenants, z \in ZoneIds, base \in Bases, h \in Handles :
        Allocate(t, z, base, h)
  \/ \E z \in ZoneIds : release_zone(z)
  \/ \E h \in Handles : release_zone_by_handle(h)
  \/ \E t \in Tenants : release_all_tenant_zones(t)

PRZoneSpec == PRZoneInit /\ [][PRZoneNext]_pzVars

-----------------------------------------------------------------------------
(* Properties *)

\* The two tables are each other's inverse: a tenant's set holds exactly the
\* zones whose allocation names it.  create_mmio and create_dma trust the one,
\* allocate_zone and the search trust the other.
TablesAgree ==
  \A t \in Tenants :
    tenant_zones[t] = {z \in DOMAIN allocations : allocations[z].tenant = t}

\* A zone never passes from one allocation to another without being free in
\* between: what a tenant holds is not taken over, re-labelled or reloaded.
NoTakeover ==
  [][\A z \in DOMAIN allocations \cap DOMAIN allocations' :
        allocations'[z] = allocations[z]]_pzVars

\* When release_all_tenant_zones returns, the allocation table no longer
\* names the tenant, although the method walks the other table; and no other
\* tenant lost a zone.
ReleaseAllIsComplete ==
  [][\A t \in Tenants : release_all_tenant_zones(t) =>
        /\ \A z \in DOMAIN allocations' : allocations'[z].tenant # t
        /\ \A u \in Tenants \ {t} : tenant_zones'[u] = tenant_zones[u]]_pzVars

\* Whatever zone the search proposes is free, and the file that will be loaded
\* into it exists: load_overlay reprograms it without asking again.
ProposalIsLoadable ==
  \A t \in Tenants, req \in Requests :
    LET z == find_best_zone_for_bitstream(req, AllowedBitstreams[t])
    IN  z # NoZone => is_zone_available(z) /\ <<z, req.base>> \in Files
=============================================================================
