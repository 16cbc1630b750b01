-------------------------- MODULE HypervisorProperties --------------------------
(* What module Hypervisor is expected to guarantee. *)
EXTENDS Hypervisor

Critical == {"reconfigure", "decouple", "handles"}

\* A thread is inside a multi-step method exactly when it holds the resource
\* manager's lock, so at most one is; and the DFX manager, which has no lock
\* of its own, has a call in progress only on behalf of that thread.
LockDiscipline ==
  /\ \A w \in Workers : worker[w].pc \in Critical <=> rm_lock = {w}
  /\ reconf # Idle <=> \E w \in Workers : At(w, "reconfigure")

\* The three books agree whenever no method is half way: each allocated zone
\* belongs to one overlay of the same tenant in the resource table, and each
\* overlay in the table has its zone.  A zone missing from the table can never
\* be freed; an overlay without a zone is one the tenant only believes in.
ZonesMatchOverlays ==
  rm_lock = {} =>
    /\ \A z \in DOMAIN allocations :
         LET h == allocations[z].handle IN
         /\ h \in DOMAIN resources
         /\ resources[h] = [tenant |-> allocations[z].tenant, type |-> "overlay",
                            zone |-> z, size |-> 0]
    /\ \A h \in DOMAIN resources : resources[h].type = "overlay" =>
         /\ resources[h].zone \in DOMAIN allocations
         /\ allocations[resources[h].zone].handle = h

\* The zone a load_overlay is reprogramming stays free until the commit: the
\* search saw it free several steps earlier, and allocate_zone never refuses
\* after the region was overwritten.
ReprogrammedZoneIsFree == reconf # Idle => zone_id \notin DOMAIN allocations

\* What a tenant holds is what runs: the region of an allocated zone contains
\* the tenant's bitstream and is connected, through every failed load of
\* somebody else, cleanup and restart.
AllocatedZoneRuns ==
  \A z \in DOMAIN allocations :
    /\ z \in Decouplers
    /\ fabric[z] = allocations[z].bitstream
    /\ gpio[z] = 0

\* An MMIO or DMA handle lives no longer than its owner's hold on the zone it
\* reaches, although the handles do not record the overlay they were made for
\* and mmio_write checks the owner of the handle only.
HandlesReachOwnZones ==
  rm_lock = {} =>
    \A h \in DOMAIN resources : resources[h].type \in {"mmio", "dma"} =>
      resources[h].zone \in get_tenant_zones(resources[h].tenant)

\* The calls of the hypervisor write no register of somebody else's region: who
\* has written an allocated region since it was programmed is its holder, or
\* has had its UIO device mapped and needs no call.  A region without a UIO
\* device holds its holder's writes only.
HandlesWriteOwnRegions ==
  \A z \in DOMAIN allocations :
    writers[z] \subseteq {allocations[z].tenant} \cup Mappers(z)

\* The bytes of a tenant's resources, <<h, i>> being the i-th of h.
BytesOf(t) == UNION {{h} \X (1 .. resources[h].size) : h \in Owned(t)}
Bytes(t) == Cardinality(BytesOf(t))

\* What a tenant is charged for is what it has, type by type and byte by byte,
\* when its client makes one call at a time.
ChargedForWhatItHas ==
  rm_lock = {} =>
    \A t \in SerialTenants :
      /\ \A type \in Types : tracked[t].handles[type] = OwnedOf(t, type)
      /\ tracked[t].total_memory_bytes = Bytes(t)

\* "Controlla se il tenant puo' allocare un altro overlay" (tenant_manager.py:84)
\* and the buffer limits: no tenant that makes one call at a time ever owns
\* more overlays, buffers or bytes than its configuration allows.
WithinQuota ==
  \A t \in SerialTenants :
    /\ Cardinality(OwnedOf(t, "overlay")) <= MaxOverlays[t]
    /\ Cardinality(OwnedOf(t, "buffer")) <= MaxBuffers[t]
    /\ Bytes(t) <= MaxMemory[t]

\* The same limit on overlays without the assumption about the client.
OverlaysWithinQuota ==
  \A t \in Tenants : Cardinality(OwnedOf(t, "overlay")) <= MaxOverlays[t]

\* A step that leaves a tenant what it has in the table and its charges ...
SameHoldings(t) ==
  /\ Owned(t)' = Owned(t)
  /\ \A h \in Owned(t) : resources'[h] = resources[h]
  /\ tracked'[t] = tracked[t]

\* ... and its zones, in both tables of the PR zone manager.
SameZones(t) ==
  /\ get_tenant_zones(t)' = get_tenant_zones(t)
  /\ \A z \in DOMAIN allocations : allocations[z].tenant = t =>
       z \in DOMAIN allocations' /\ allocations'[z] = allocations[z]

\* A CleanupResources takes everything from its tenant and nothing from anybody
\* else: when it answers success to a client that makes one call at a time, no
\* zone, handle or charge is left, whatever the others were doing; and no step
\* of it, whatever its outcome, changes what another tenant holds.
CleanupIsComplete ==
  [][\A w \in Workers :
       (worker[w] # Resting /\ worker[w].op = "CleanupResources" /\ Step(w)) =>
         /\ (Reply(w) /\ worker[w].tenant \in SerialTenants) =>
              /\ Owned(worker[w].tenant) = {}
              /\ get_tenant_zones(worker[w].tenant) = {}
              /\ tracked[worker[w].tenant] = TenantResources
         /\ \A t \in Tenants \ {worker[w].tenant} : SameHoldings(t) /\ SameZones(t)]_vars

\* "Pulisci tutte le risorse del tenant corrente" (servicer.py:306): when the
\* call returns to a client that makes one call at a time, whatever the answer,
\* the tenant's resources are gone.
CleanupAlwaysCleans ==
  [][\A w \in Workers :
       (worker[w] # Resting /\ worker[w].op = "CleanupResources"
          /\ (Reply(w) \/ Abort(w)) /\ worker[w].tenant \in SerialTenants)
       => Owned(worker[w].tenant) = {}]_vars

\* "Decouple le zone rilasciate per sicurezza" (pynq_resource_manager.py:817):
\* a region nobody holds, still programmed by a tenant, is isolated.
ReleasedZonesAreIsolated ==
  rm_lock = {} =>
    \A z \in Decouplers \ DOMAIN allocations :
      fabric[z] \in Bitstreams => gpio[z] = 1

\* The UIO device of an allocated zone belongs to the zone's tenant, so the
\* container can map it and the previous holder cannot open it again.
UioFollowsAllocation ==
  \A z \in DOMAIN allocations \cap UioDevices : uio_owner[z] = {allocations[z].tenant}

\* A thread that holds the resource manager's lock gives it back.
LockIsReleased == \A w \in Workers : rm_lock = {w} ~> rm_lock # {w}

\* The hypervisor implements the promise of VFPGALease: through every
\* interleaving, fault and restart, what a tenant sees of its regions is a
\* sequence of programming, granting and revoking steps.
Lease == INSTANCE VFPGALease WITH
  Regions <- Decouplers,
  PowerOnContent <- Shell,
  lease <- [z \in DOMAIN allocations |->
              [tenant |-> allocations[z].tenant, bitstream |-> allocations[z].bitstream]],
  running <- fabric

ImplementsLease == Lease!LeaseSpec
=============================================================================
