------------------------------ MODULE Hypervisor ------------------------------
(***************************************************************************)
(* The hypervisor process: gRPC worker threads (servicer.py) calling the   *)
(* resource manager (pynq_resource_manager.py), which composes the PR zone *)
(* manager, the DFX decouplers and the tenant manager.                     *)
(*                                                                         *)
(* The resource manager has one RLock.  A method that holds it throughout  *)
(* and drives no hardware sequence is one action; load_overlay and         *)
(* cleanup_tenant_resources, which do, take several steps with the lock    *)
(* held.  What runs without the lock are the iteration of                  *)
(* get_tenant_resources_summary and the last assignment of                 *)
(* CleanupResources, and those interleave with everything.                 *)
(*                                                                         *)
(* The arguments of a request are chosen when its handler uses them.       *)
(* Modelled on a board where the pynq_char_mapper kernel module is not     *)
(* loaded (_char_device_enabled is False).                                 *)
(***************************************************************************)
EXTENDS PRZoneManager, DFXDecoupler, TenantManager

CONSTANTS
  Workers,           \* the threads of the gRPC servers' pools
  AllowedZones,      \* tenant -> allowed_pr_zones
  UioDevices,        \* the zones for which /dev/uio<z> exists
  BufferSizes,       \* the sizes in bytes a request may ask for
  Calls,             \* the RPCs the tenants issue
  BuildableReplies,  \* the RPCs whose reply the generated messages can hold
  SerialTenants,     \* the tenants whose client makes one call at a time
  MappingTenants     \* the tenants whose programs map /dev/uio<z>

ASSUME HypervisorAssumption ==
  /\ AllowedZones \in [Tenants -> SUBSET ZoneIds]
  /\ BufferSizes \subseteq Nat
  /\ SerialTenants \subseteq Tenants
  /\ UioDevices \subseteq ZoneIds
  /\ MappingTenants \subseteq Tenants

VARIABLES
  resources,    \* _resources: handle -> ManagedResource
  rm_lock,      \* PYNQResourceManager._lock: {} or the thread that holds it
  worker,       \* what each thread is doing
  uio_owner,    \* owner of /dev/uio<z>: {} is root
  writers,      \* whose register writes the region has taken since programmed
  mapped        \* the tenants whose programs have had /dev/uio<z> mapped

rmVars == <<resources, rm_lock, worker, uio_owner, writers>>
vars == <<rmVars, pzVars, dfxVars, tracked, mapped>>

ManagedResource ==
  [tenant : Tenants, type : Types, zone : ZoneIds \cup {NoZone}, size : Nat]

Resting == [pc |-> "idle"]
PCs == {"lock", "reconfigure", "iterate", "cleanup", "decouple", "handles",
        "replace", "reply", "error"}

\* made: the handles this call registered; seen: the size of the table when
\* the summary began to iterate; todo: the zones cleanup has yet to decouple.
Busy == [pc : PCs, tenant : Tenants, op : Calls, made : SUBSET Handles,
         seen : Nat, todo : SUBSET ZoneIds]

HypervisorTypeOK ==
  /\ PRZoneTypeOK
  /\ DFXTypeOK
  /\ TenantManagerTypeOK
  /\ DOMAIN resources \subseteq Handles
  /\ resources \in [DOMAIN resources -> ManagedResource]
  /\ rm_lock \in SUBSET Workers
  /\ worker \in [Workers -> Busy \cup {Resting}]
  /\ uio_owner \in [UioDevices -> SUBSET Tenants]
  /\ writers \in [Decouplers -> SUBSET Tenants]
  /\ mapped \in [UioDevices -> SUBSET Tenants]

Init ==
  /\ PRZoneInit
  /\ DFXInit
  /\ TenantManagerInit
  /\ resources = [h \in {} |-> {}]
  /\ rm_lock = {}
  /\ worker = [w \in Workers |-> Resting]
  /\ uio_owner = [z \in UioDevices |-> {}]
  /\ writers = [z \in Decouplers |-> {}]
  /\ mapped = [z \in UioDevices |-> {}]

-----------------------------------------------------------------------------
(* Helpers *)

At(w, pc) == worker[w].pc = pc
Serving(w, t) == worker[w] # Resting /\ worker[w].tenant = t
Goto(w, pc) == worker' = [worker EXCEPT ![w].pc = pc]
Ready(w, op) == At(w, "lock") /\ worker[w].op = op /\ rm_lock = {}

Owned(t) == {h \in DOMAIN resources : resources[h].tenant = t}
OwnedOf(t, type) == {h \in Owned(t) : resources[h].type = type}

\* uuid4 names: never one that is still known to some part of the hypervisor.
FreshHandles ==
  {h \in Handles :
     /\ h \notin DOMAIN resources
     /\ \A t \in Tenants, type \in Types : h \notin tracked[t].handles[type]
     /\ \A w \in Workers : worker[w] # Resting => h \notin worker[w].made}

\* Entering the handle in the table and charging it to the caller.
Register(w, h, type, zone, size, pc) ==
  LET t == worker[w].tenant IN
  /\ resources' =
       [x \in DOMAIN resources \cup {h} |->
          IF x = h THEN [tenant |-> t, type |-> type, zone |-> zone, size |-> size]
                   ELSE resources[x]]
  /\ Charge(t, type, h, size)
  /\ worker' = [worker EXCEPT ![w].pc = pc, ![w].made = {h}]

Error(w) ==
  /\ Goto(w, "error")
  /\ UNCHANGED <<resources, rm_lock, uio_owner, writers, pzVars, dfxVars, tracked>>

-----------------------------------------------------------------------------
(* A thread takes a request whose token is valid; a reply or an abort ends it *)

Begin(w, t, op) ==
  /\ At(w, "idle")
  /\ t \in SerialTenants => \A v \in Workers : ~Serving(v, t)
  /\ worker' = [worker EXCEPT ![w] = [pc |-> "lock", tenant |-> t, op |-> op,
                                      made |-> {}, seen |-> 0, todo |-> {}]]
  /\ UNCHANGED <<resources, rm_lock, uio_owner, writers, pzVars, dfxVars, tracked, mapped>>

Finish(w) ==
  /\ worker' = [worker EXCEPT ![w] = Resting]
  /\ UNCHANGED <<resources, rm_lock, uio_owner, writers, pzVars, dfxVars, tracked>>

Reply(w) == At(w, "reply") /\ worker[w].op \in BuildableReplies /\ Finish(w)

\* Assigning a field the message does not have raises inside the handler's try.
ReplyFails(w) == At(w, "reply") /\ worker[w].op \notin BuildableReplies /\ Error(w)

Abort(w) == At(w, "error") /\ Finish(w)

-----------------------------------------------------------------------------
(* LoadOverlay *)

ZoneFor(t, req) == find_best_zone_for_bitstream(req, AllowedBitstreams[t])

MayLoad(t, req) ==
  /\ can_allocate_overlay(t)
  /\ ZoneFor(t, req) # NoZone
  /\ ZoneFor(t, req) \in AllowedZones[t]

LoadRefused(w, req) ==
  /\ Ready(w, "LoadOverlay")
  /\ ~MayLoad(worker[w].tenant, req)
  /\ Error(w)

LoadStarts(w, req) ==
  /\ Ready(w, "LoadOverlay")
  /\ MayLoad(worker[w].tenant, req)
  /\ FreshHandles # {}   \* bound: the supply of handles
  /\ BeginReconfigure(<<ZoneFor(worker[w].tenant, req), req.base>>)
  /\ rm_lock' = {w}
  /\ Goto(w, "reconfigure")
  /\ UNCHANGED <<resources, uio_owner, writers, pzVars, tracked>>

\* Programming a region clears its registers.
LoadReconfigures(w) ==
  /\ At(w, "reconfigure")
  /\ ReconfStep
  /\ writers' = [z \in Decouplers |->
                   IF fabric'[z] # fabric[z] \/ (reconf'.pc = "couple" /\ z = zone_id)
                   THEN {} ELSE writers[z]]
  /\ UNCHANGED <<resources, rm_lock, worker, uio_owner, pzVars, tracked>>

\* Mutant: leaves the method without releasing the lock.
FailsHoldingLock(w) ==
  /\ At(w, "reconfigure")
  /\ ReconfReturns(FALSE)
  /\ Goto(w, "error")
  /\ UNCHANGED <<resources, rm_lock, uio_owner, writers, pzVars, gpio, fabric, tracked>>

LoadFails(w) ==
  /\ At(w, "reconfigure")
  /\ ReconfReturns(FALSE)
  /\ rm_lock' = {}
  /\ Goto(w, "error")
  /\ UNCHANGED <<resources, uio_owner, writers, pzVars, gpio, fabric, tracked>>

\* Mutant: the UIO device stays with whoever had it.
CommitsWithoutUio(w, h) ==
  /\ At(w, "reconfigure")
  /\ ReconfReturns(TRUE)
  /\ allocate_zone(worker[w].tenant, zone_id, reconf.file, h)
  /\ Register(w, h, "overlay", zone_id, 0, "reply")
  /\ rm_lock' = {}
  /\ UNCHANGED <<uio_owner, writers, gpio, fabric>>

\* When the UIO device exists it is given to the tenant, and a chown that
\* fails is only logged.
LoadCommits(w, h) ==
  /\ At(w, "reconfigure")
  /\ ReconfReturns(TRUE)
  /\ allocate_zone(worker[w].tenant, zone_id, reconf.file, h)
  /\ \/ uio_owner' = [z \in UioDevices |-> IF z = zone_id THEN {worker[w].tenant}
                                                           ELSE uio_owner[z]]
     \/ HardwareFaults /\ UNCHANGED uio_owner
  /\ Register(w, h, "overlay", zone_id, 0, "reply")
  /\ rm_lock' = {}
  /\ UNCHANGED <<writers, gpio, fabric>>

-----------------------------------------------------------------------------
(* CreateMMIO, MMIOWrite, AllocateBuffer, CreateDMA: atomic under the lock.   *)
(* A request for MMIO is represented by the zone its address range lies in.  *)

CreateMMIO(w, z, h) ==
  /\ Ready(w, "CreateMMIO")
  /\ z \in get_tenant_zones(worker[w].tenant)
  /\ Register(w, h, "mmio", z, 0, "reply")
  /\ UNCHANGED <<rm_lock, uio_owner, writers, pzVars, dfxVars>>

\* The address is in no zone of the tenant, or the PYNQ constructor raises.
CreateMMIOFails(w, z) ==
  /\ Ready(w, "CreateMMIO")
  /\ z \in get_tenant_zones(worker[w].tenant) => HardwareFaults
  /\ Error(w)

\* Mutant: does not ask who owns the handle.
AnyonesHandle(t, h) == h \in DOMAIN resources /\ resources[h].type = "mmio"

Writable(t, h) ==
  h \in DOMAIN resources /\ resources[h].tenant = t /\ resources[h].type = "mmio"

\* A write does not get past a raised decouple line.
MMIOWrite(w, h) ==
  /\ Ready(w, "MMIOWrite")
  /\ Writable(worker[w].tenant, h)
  /\ writers' = [z \in Decouplers |->
                   IF z = resources[h].zone /\ gpio[z] = 0
                   THEN writers[z] \cup {worker[w].tenant} ELSE writers[z]]
  /\ Goto(w, "reply")
  /\ UNCHANGED <<resources, rm_lock, uio_owner, pzVars, dfxVars, tracked>>

\* Not the caller's handle, an offset or a value out of range, or a bus access
\* that raises.
MMIOWriteFails(w) == Ready(w, "MMIOWrite") /\ Error(w)

\* The buffer is registered and charged; then the f-string of the log line
\* applies the format "x if vm_offset else 0" to vm_offset, which raises.
AllocateBuffer(w, size, h) ==
  /\ Ready(w, "AllocateBuffer")
  /\ can_allocate_buffer(worker[w].tenant, size)
  /\ Register(w, h, "buffer", NoZone, size, "error")
  /\ UNCHANGED <<rm_lock, uio_owner, writers, pzVars, dfxVars>>

\* Over quota, or pynq_allocate raises.
AllocateBufferFails(w, size) ==
  /\ Ready(w, "AllocateBuffer")
  /\ can_allocate_buffer(worker[w].tenant, size) => HardwareFaults
  /\ Error(w)

\* list(tenant_zones)[0]: any zone of the set, in Python's order.
CreateDMA(w, z, h) ==
  /\ Ready(w, "CreateDMA")
  /\ z \in get_tenant_zones(worker[w].tenant)
  /\ Register(w, h, "dma", z, 0, "reply")
  /\ UNCHANGED <<rm_lock, uio_owner, writers, pzVars, dfxVars>>

CreateDMAFails(w) ==
  /\ Ready(w, "CreateDMA")
  /\ get_tenant_zones(worker[w].tenant) = {}
  /\ Error(w)

-----------------------------------------------------------------------------
(* CleanupResources *)

\* get_tenant_resources_summary holds the lock for its first line only, then
\* iterates over the live dictionary.
SummaryBegins(w) ==
  /\ Ready(w, "CleanupResources")
  /\ worker' = [worker EXCEPT ![w].pc = "iterate",
                              ![w].seen = Cardinality(DOMAIN resources)]
  /\ UNCHANGED <<resources, rm_lock, uio_owner, writers, pzVars, dfxVars, tracked>>

SummaryEnds(w) ==
  /\ At(w, "iterate")
  /\ Cardinality(DOMAIN resources) = worker[w].seen
  /\ Goto(w, "cleanup")
  /\ UNCHANGED <<resources, rm_lock, uio_owner, writers, pzVars, dfxVars, tracked>>

\* Mutant: the exception is swallowed and success reported.
SummarySwallows(w) ==
  /\ At(w, "iterate")
  /\ Cardinality(DOMAIN resources) # worker[w].seen
  /\ Goto(w, "reply")
  /\ UNCHANGED <<resources, rm_lock, uio_owner, writers, pzVars, dfxVars, tracked>>

\* "dictionary changed size during iteration": the handler answers
\* success=False and nothing has been cleaned.
SummaryRaises(w) ==
  /\ At(w, "iterate")
  /\ Cardinality(DOMAIN resources) # worker[w].seen
  /\ Error(w)

\* Mutant: removes the handles but never releases the zones.
NeverReleases(w) ==
  /\ At(w, "cleanup")
  /\ rm_lock = {}
  /\ rm_lock' = {w}
  /\ worker' = [worker EXCEPT ![w].pc = "decouple",
                              ![w].todo = ReleasedZones(worker[w].tenant)]
  /\ UNCHANGED <<resources, uio_owner, writers, pzVars, dfxVars, tracked>>

\* Mutant: goes on to decouple the zones of every tenant.
DecouplesEverybody(w) ==
  /\ At(w, "cleanup")
  /\ rm_lock = {}
  /\ rm_lock' = {w}
  /\ release_all_tenant_zones(worker[w].tenant)
  /\ worker' = [worker EXCEPT ![w].pc = "decouple", ![w].todo = DOMAIN allocations]
  /\ UNCHANGED <<resources, uio_owner, writers, dfxVars, tracked>>

\* Mutant: what is to be decoupled is the handles instead of the zones.
ReleasesHandles(w) ==
  /\ At(w, "cleanup")
  /\ rm_lock = {}
  /\ rm_lock' = {w}
  /\ release_all_tenant_zones(worker[w].tenant)
  /\ worker' = [worker EXCEPT ![w].pc = "decouple",
                  ![w].todo = {allocations[z].handle : z \in ReleasedZones(worker[w].tenant)}]
  /\ UNCHANGED <<resources, uio_owner, writers, dfxVars, tracked>>

\* cleanup_tenant_resources: the zones first, then their decouplers ...
CleanupReleases(w) ==
  /\ At(w, "cleanup")
  /\ rm_lock = {}
  /\ rm_lock' = {w}
  /\ release_all_tenant_zones(worker[w].tenant)
  /\ worker' = [worker EXCEPT ![w].pc = "decouple",
                              ![w].todo = ReleasedZones(worker[w].tenant)]
  /\ UNCHANGED <<resources, uio_owner, writers, dfxVars, tracked>>

\* ... where an exception is logged and the zone left as it is ...
CleanupDecouples(w, z) ==
  /\ At(w, "decouple")
  /\ z \in worker[w].todo
  /\ decouple_zone(z) \/ RaiseDecoupler(z)
  /\ worker' = [worker EXCEPT ![w].todo = @ \ {z}]
  /\ UNCHANGED <<resources, rm_lock, uio_owner, writers, pzVars, fabric, reconf, tracked>>

\* Mutant: does not finish the loop.
LeavesSomeCoupled(w) ==
  /\ At(w, "decouple")
  /\ Goto(w, "handles")
  /\ UNCHANGED <<resources, rm_lock, uio_owner, writers, pzVars, dfxVars, tracked>>

CleanupDecoupled(w) ==
  /\ At(w, "decouple")
  /\ worker[w].todo = {}
  /\ Goto(w, "handles")
  /\ UNCHANGED <<resources, rm_lock, uio_owner, writers, pzVars, dfxVars, tracked>>

\* ... then _cleanup_resource on every handle of the tenant, whatever its type.
CleanupRemoves(w, h) ==
  /\ At(w, "handles")
  /\ h \in Owned(worker[w].tenant)
  /\ Discharge(worker[w].tenant, resources[h].type, h, resources[h].size)
  /\ resources' = Restrict(resources, DOMAIN resources \ {h})
  /\ UNCHANGED <<rm_lock, worker, uio_owner, writers, pzVars, dfxVars>>

\* Mutant: only the overlays are gone when it returns.
ForgetsOtherTypes(w) ==
  /\ At(w, "handles")
  /\ OwnedOf(worker[w].tenant, "overlay") = {}
  /\ rm_lock' = {}
  /\ Goto(w, "replace")
  /\ UNCHANGED <<resources, uio_owner, writers, pzVars, dfxVars, tracked>>

CleanupReturns(w) ==
  /\ At(w, "handles")
  /\ Owned(worker[w].tenant) = {}
  /\ rm_lock' = {}
  /\ Goto(w, "replace")
  /\ UNCHANGED <<resources, uio_owner, writers, pzVars, dfxVars, tracked>>

\* Back in the servicer, without the lock.
CleanupReplaces(w) ==
  /\ At(w, "replace")
  /\ ReplaceRecord(worker[w].tenant)
  /\ Goto(w, "reply")
  /\ UNCHANGED <<resources, rm_lock, uio_owner, writers, pzVars, dfxVars>>

-----------------------------------------------------------------------------
(* The process dies at any point and is started again: the constructor loads  *)
(* the static shell and couples every zone.  /dev keeps its owners, and the   *)
(* tenants' programs, which are other processes, keep their mappings.         *)

Restart ==
  /\ allocations' = [z \in {} |-> {}]
  /\ tenant_zones' = [t \in Tenants |-> {}]
  /\ gpio' = [z \in Decouplers |-> 0]
  /\ fabric' = [z \in Decouplers |-> Shell]
  /\ reconf' = Idle
  /\ tracked' = [t \in Tenants |-> TenantResources]
  /\ resources' = [h \in {} |-> {}]
  /\ rm_lock' = {}
  /\ worker' = [w \in Workers |-> Resting]
  /\ writers' = [z \in Decouplers |-> {}]
  /\ UNCHANGED <<uio_owner, mapped>>

-----------------------------------------------------------------------------
(* A tenant's program and /dev/uio<z>, without the hypervisor: the client's   *)
(* MMIO object opens and maps the device, which needs its owner's rights, and *)
(* stores through the mapping, which asks nobody.  That a program unmaps or   *)
(* exits is left out: it only takes behaviours away.                          *)

Mappers(z) == IF z \in UioDevices THEN mapped[z] ELSE {}

MapUio(t, z) ==
  /\ uio_owner[z] = {t}
  /\ mapped' = [mapped EXCEPT ![z] = @ \cup {t}]
  /\ UNCHANGED <<rmVars, pzVars, dfxVars, tracked>>

UioWrite(t, z) ==
  /\ t \in mapped[z]
  /\ z \in Decouplers
  /\ gpio[z] = 0
  /\ writers' = [writers EXCEPT ![z] = @ \cup {t}]
  /\ UNCHANGED <<resources, rm_lock, worker, uio_owner, pzVars, dfxVars, tracked, mapped>>

-----------------------------------------------------------------------------

LoadOverlay(w) ==
  \/ \E req \in Requests : LoadRefused(w, req) \/ LoadStarts(w, req)
  \/ LoadReconfigures(w)
  \/ LoadFails(w)
  \/ \E h \in FreshHandles : LoadCommits(w, h)

SmallCalls(w) ==
  \/ \E z \in ZoneIds, h \in FreshHandles : CreateMMIO(w, z, h)
  \/ \E z \in ZoneIds : CreateMMIOFails(w, z)
  \/ \E h \in Handles : MMIOWrite(w, h)
  \/ MMIOWriteFails(w)
  \/ \E size \in BufferSizes, h \in FreshHandles : AllocateBuffer(w, size, h)
  \/ \E size \in BufferSizes : AllocateBufferFails(w, size)
  \/ \E z \in ZoneIds, h \in FreshHandles : CreateDMA(w, z, h)
  \/ CreateDMAFails(w)

CleanupResources(w) ==
  \/ SummaryBegins(w) \/ SummaryEnds(w) \/ SummaryRaises(w)
  \/ CleanupReleases(w)
  \/ \E z \in ZoneIds : CleanupDecouples(w, z)
  \/ CleanupDecoupled(w)
  \/ \E h \in Handles : CleanupRemoves(w, h)
  \/ CleanupReturns(w)
  \/ CleanupReplaces(w)

Step(w) ==
  /\ \/ LoadOverlay(w) \/ SmallCalls(w) \/ CleanupResources(w)
     \/ Reply(w) \/ ReplyFails(w) \/ Abort(w)
  /\ UNCHANGED mapped

Containers ==
  \E t \in MappingTenants, z \in UioDevices : MapUio(t, z) \/ UioWrite(t, z)

Next ==
  \/ \E w \in Workers, t \in Tenants, op \in Calls : Begin(w, t, op)
  \/ \E w \in Workers : Step(w)
  \/ Restart
  \/ Containers

Spec == Init /\ [][Next]_vars

\* Threads the operating system keeps scheduling, hardware calls that return.
FairSpec == Spec /\ \A w \in Workers : WF_vars(Step(w))
=============================================================================
