------------------------- MODULE HypervisorZoneProofs -------------------------
(***************************************************************************)
(* Second layer of the proofs about the hypervisor: what the regions hold, *)
(* while loads, failures, cleanups and restarts go on around them, and the *)
(* abstract promise that follows.  Third layer: overlays, zones and the    *)
(* handles that reach them agree, and the calls of the hypervisor write     *)
(* the caller's regions only.  Then what a cleanup takes and leaves, and   *)
(* two promises that hold on hardware that does not fail: the regions      *)
(* nobody holds are isolated, and the UIO devices follow the zones.        *)
(***************************************************************************)
EXTENDS HypervisorProofs

Cleaner(w) == worker[w].pc \in {"decouple", "handles"}

\* What the sequence of the DFX manager has established so far.
SequenceInv ==
  /\ ReprogrammedZoneIsFree
  /\ reconf.pc \in {"download", "couple", "true"} => zone_id \in Decouplers
  /\ reconf.pc \in {"couple", "true"} => /\ fabric[zone_id] = reconf.file
                                         /\ writers[zone_id] \subseteq Mappers(zone_id)
  /\ reconf.pc = "true" => gpio[zone_id] = 0

\* The tenant being cleaned has no zone, and the zones still to be isolated
\* were not given to anybody.
CleaningInv ==
  \A w \in Workers : Cleaner(w) =>
    /\ tenant_zones[worker[w].tenant] = {}
    /\ worker[w].todo \cap DOMAIN allocations = {}

ZoneInv == LockInv /\ SequenceInv /\ CleaningInv /\ AllocatedZoneRuns

\* A thread that moves without becoming a cleaner.
NoNewCleaner(w) ==
  /\ \A v \in Workers \ {w} : worker'[v] = worker[v]
  /\ \/ worker'[w].pc \notin {"decouple", "handles"}
     \/ /\ Cleaner(w)
        /\ worker'[w].tenant = worker[w].tenant
        /\ worker'[w].todo \subseteq worker[w].todo

\* A tenant's program adds writes of tenants that have mapped the device only.
LEMMA ContainersGrow ==
  ASSUME LockInv, NEW t \in Tenants, NEW z \in UioDevices, MapUio(t, z) \/ UioWrite(t, z)
  PROVE  /\ \A y : Mappers(y) \subseteq Mappers(y)'
         /\ \A y \in Decouplers : writers'[y] \subseteq writers[y] \cup Mappers(y)
         /\ \A y \in Decouplers : writers[y] \subseteq Mappers(y) => writers'[y] \subseteq Mappers(y)'
<1>1. mapped \in [UioDevices -> SUBSET Tenants] /\ writers \in [Decouplers -> SUBSET Tenants]
  BY DEF LockInv, HypervisorTypeOK
<1>2. CASE MapUio(t, z)
  BY <1>1, <1>2 DEF MapUio, Mappers, rmVars
<1>3. CASE UioWrite(t, z)
  BY <1>1, <1>3 DEF UioWrite, Mappers
<1> QED BY <1>2, <1>3

LEMMA CleaningFrame ==
  ASSUME CleaningInv, NEW w \in Workers, NoNewCleaner(w), UNCHANGED pzVars
  PROVE  CleaningInv'
  BY DEF CleaningInv, Cleaner, NoNewCleaner, pzVars

\* Most steps leave zones, regions and the sequence alone.
LEMMA ZoneFrame ==
  ASSUME ZoneInv, LockInv', NEW w \in Workers, NoNewCleaner(w),
         UNCHANGED <<pzVars, dfxVars>>,
         reconf # Idle => UNCHANGED writers,
         UNCHANGED mapped
  PROVE  ZoneInv'
<1>1. CleaningInv'
  BY CleaningFrame DEF ZoneInv
<1>2. SequenceInv'
  BY DEF ZoneInv, SequenceInv, ReprogrammedZoneIsFree, Mappers, dfxVars, pzVars, zone_id, Idle
<1>3. AllocatedZoneRuns'
  BY DEF ZoneInv, AllocatedZoneRuns, dfxVars, pzVars
<1> QED BY <1>1, <1>2, <1>3 DEF ZoneInv

\* Moving a thread to a step outside the cleanup makes no cleaner.
LEMMA GotoIsNoCleaner ==
  ASSUME LockInv, NEW w \in Workers, NEW pc, Goto(w, pc), worker[w].pc # "idle",
         pc \notin {"decouple", "handles"}
  PROVE  NoNewCleaner(w)
<1>1. worker[w] \in Busy
  BY BusyThread DEF LockInv
<1> QED BY <1>1 DEF Goto, NoNewCleaner, LockInv, HypervisorTypeOK, Busy

LEMMA ErrorZones ==
  ASSUME ZoneInv, LockInv', NEW w \in Workers, worker[w].pc # "idle", Error(w),
         UNCHANGED mapped
  PROVE  ZoneInv'
<1>1. NoNewCleaner(w)
  BY GotoIsNoCleaner DEF Error, ZoneInv
<1> QED BY <1>1, ZoneFrame DEF Error

LEMMA FinishZones ==
  ASSUME ZoneInv, LockInv', NEW w \in Workers, Finish(w),
         UNCHANGED mapped
  PROVE  ZoneInv'
<1>1. NoNewCleaner(w)
  BY DEF Finish, NoNewCleaner, Resting, ZoneInv, LockInv, HypervisorTypeOK
<1> QED BY <1>1, ZoneFrame DEF Finish

-----------------------------------------------------------------------------
(* The sequence *)

LEMMA LoadStartsZones ==
  ASSUME ZoneInv, LockInv', NEW w \in Workers, NEW req \in Requests, LoadStarts(w, req),
         UNCHANGED mapped
  PROVE  ZoneInv'
<1>1. /\ worker[w].tenant \in Tenants
      /\ worker[w].pc # "idle"
      /\ ZoneFor(worker[w].tenant, req) # NoZone
  BY BusyThread DEF LoadStarts, MayLoad, Ready, At, ZoneInv, LockInv, Busy
<1>2. ZoneFor(worker[w].tenant, req) \notin DOMAIN allocations
  BY <1>1, LoadedFileIsABitstream
<1>3. /\ reconf' = [pc |-> "decouple", file |-> <<ZoneFor(worker[w].tenant, req), req.base>>]
      /\ UNCHANGED <<gpio, fabric>>
  BY DEF LoadStarts, BeginReconfigure
<1>4. SequenceInv'
  BY <1>2, <1>3 DEF LoadStarts, SequenceInv, ReprogrammedZoneIsFree, zone_id, pzVars
<1>5. CleaningInv'
  BY <1>1, GotoIsNoCleaner, CleaningFrame DEF LoadStarts, ZoneInv
<1>6. AllocatedZoneRuns'
  BY <1>3 DEF LoadStarts, ZoneInv, AllocatedZoneRuns, pzVars
<1> QED BY <1>4, <1>5, <1>6 DEF ZoneInv

LEMMA LoadReconfiguresZones ==
  ASSUME ZoneInv, LockInv', NEW w \in Workers, LoadReconfigures(w),
         UNCHANGED mapped
  PROVE  ZoneInv'
<1>1. /\ DFXTypeOK
      /\ ReconfStep
      /\ reconf # Idle
      /\ zone_id \notin DOMAIN allocations
      /\ reconf.pc \in {"download", "couple", "true"} => zone_id \in Decouplers
      /\ reconf.pc = "couple" => /\ fabric[zone_id] = reconf.file
                                /\ writers[zone_id] \subseteq Mappers(zone_id)
  BY ReconfStepTypes DEF LoadReconfigures, ZoneInv, SequenceInv, ReprogrammedZoneIsFree,
     LockInv, HypervisorTypeOK
<1>2. /\ \A z \in Decouplers \ {zone_id} : fabric'[z] = fabric[z] /\ gpio'[z] = gpio[z]
      /\ reconf'.pc \in {"download", "couple", "true"} => zone_id \in Decouplers
      /\ reconf'.pc \in {"couple", "true"} => fabric'[zone_id] = reconf.file
      /\ reconf'.pc = "true" => /\ reconf.pc = "couple"
                                /\ gpio'[zone_id] = 0
                                /\ fabric' = fabric
  BY <1>1, SequenceAdvances
<1>3. reconf'.file = reconf.file /\ zone_id' = zone_id
  BY <1>1, ReconfStepTypes
<1>4. reconf'.pc \in {"couple", "true"} => writers'[zone_id] \subseteq Mappers(zone_id)'
  <2>1. Mappers(zone_id)' = Mappers(zone_id)
    BY <1>3 DEF Mappers
  <2>2. CASE reconf'.pc = "couple"
    BY <1>1, <1>2, <2>2 DEF LoadReconfigures
  <2>3. CASE reconf'.pc = "true"
    BY <1>1, <1>2, <2>1, <2>3 DEF LoadReconfigures
  <2> QED BY <2>2, <2>3
<1>5. SequenceInv'
  BY <1>1, <1>2, <1>3, <1>4 DEF SequenceInv, ReprogrammedZoneIsFree, LoadReconfigures, pzVars
<1>6. CleaningInv'
  BY DEF LoadReconfigures, ZoneInv, CleaningInv, Cleaner, pzVars
<1>7. AllocatedZoneRuns'
  BY <1>1, <1>2 DEF LoadReconfigures, ZoneInv, AllocatedZoneRuns, pzVars
<1> QED BY <1>5, <1>6, <1>7 DEF ZoneInv

LEMMA LoadFailsZones ==
  ASSUME ZoneInv, LockInv', NEW w \in Workers, LoadFails(w),
         UNCHANGED mapped
  PROVE  ZoneInv'
<1>1. reconf' = Idle /\ UNCHANGED <<gpio, fabric>>
  BY DEF LoadFails, ReconfReturns
<1>2. SequenceInv'
  BY <1>1 DEF SequenceInv, ReprogrammedZoneIsFree, Idle
<1>3. CleaningInv'
  BY GotoIsNoCleaner, CleaningFrame DEF LoadFails, At, ZoneInv
<1>4. AllocatedZoneRuns'
  BY <1>1 DEF LoadFails, ZoneInv, AllocatedZoneRuns, pzVars
<1> QED BY <1>2, <1>3, <1>4 DEF ZoneInv

\* While a thread is reprogramming a zone no other is cleaning.
LEMMA ReprogrammingIsAlone ==
  ASSUME LockInv, NEW w \in Workers, worker[w].pc = "reconfigure"
  PROVE  /\ \A v \in Workers : ~Cleaner(v)
         /\ reconf # Idle
         /\ rm_lock = {w}
         /\ worker[w] \in Busy
         /\ worker[w].tenant \in Tenants
<1>1. rm_lock = {w} /\ \A v \in Workers : worker[v].pc \in Critical => v = w
  BY DEF LockInv, LockDiscipline, Critical
<1>2. worker[w] \in Busy
  BY BusyThread DEF LockInv
<1> QED BY <1>1, <1>2 DEF LockInv, LockDiscipline, Cleaner, Critical, At, Busy

LEMMA LoadCommitsZones ==
  ASSUME ZoneInv, LockInv', NEW w \in Workers, NEW h \in Handles, LoadCommits(w, h),
         UNCHANGED mapped
  PROVE  ZoneInv'
<1>1. /\ \A v \in Workers : ~Cleaner(v)
      /\ worker[w] \in Busy
      /\ worker[w].tenant \in Tenants
  BY ReprogrammingIsAlone DEF LoadCommits, At, ZoneInv
<1>2. reconf' = Idle /\ reconf.pc = "true" /\ UNCHANGED <<gpio, fabric>>
  BY DEF LoadCommits, ReconfReturns
<1>3. SequenceInv'
  BY <1>2 DEF SequenceInv, ReprogrammedZoneIsFree, Idle
<1>4. \A v \in Workers : ~Cleaner(v)'
  BY <1>1 DEF LoadCommits, Register, Cleaner, ZoneInv, LockInv, HypervisorTypeOK, Busy
<1>5. CleaningInv'
  BY <1>4 DEF CleaningInv
<1>6. AllocatedZoneRuns'
  BY <1>2 DEF LoadCommits, allocate_zone, ZoneInv, SequenceInv, AllocatedZoneRuns
<1> QED BY <1>3, <1>5, <1>6 DEF ZoneInv

-----------------------------------------------------------------------------
(* The calls of one step *)

LEMMA SmallCallsZones ==
  ASSUME ZoneInv, LockInv', NEW w \in Workers, SmallCalls(w),
         UNCHANGED mapped
  PROVE  ZoneInv'
<1>1. ASSUME NEW h, NEW type, NEW z, NEW size, NEW pc \in {"reply", "error"},
             worker[w].pc = "lock", Register(w, h, type, z, size, pc),
             UNCHANGED <<pzVars, dfxVars, writers>>
      PROVE  ZoneInv'
  <2>1. worker[w] \in Busy
    BY <1>1, BusyThread DEF ZoneInv, LockInv
  <2>2. NoNewCleaner(w)
    BY <1>1, <2>1 DEF Register, NoNewCleaner, ZoneInv, LockInv, HypervisorTypeOK, Busy
  <2> QED BY <1>1, <2>2, ZoneFrame
<1>2. ASSUME NEW z \in ZoneIds, NEW h \in FreshHandles, CreateMMIO(w, z, h)
      PROVE  ZoneInv'
  BY <1>1, <1>2 DEF CreateMMIO, Ready, At
<1>3. ASSUME NEW h \in Handles, MMIOWrite(w, h) PROVE ZoneInv'
  <2>1. NoNewCleaner(w)
    BY <1>3, GotoIsNoCleaner DEF MMIOWrite, Ready, At, ZoneInv
  <2>2. reconf = Idle
    BY <1>3 DEF MMIOWrite, Ready, At, ZoneInv, LockInv, LockDiscipline, Critical
  <2> QED BY <1>3, <2>1, <2>2, ZoneFrame DEF MMIOWrite
<1>4. ASSUME NEW size \in BufferSizes, NEW h \in FreshHandles, AllocateBuffer(w, size, h)
      PROVE  ZoneInv'
  BY <1>1, <1>4 DEF AllocateBuffer, Ready, At
<1>5. ASSUME NEW z \in ZoneIds, NEW h \in FreshHandles, CreateDMA(w, z, h)
      PROVE  ZoneInv'
  BY <1>1, <1>5 DEF CreateDMA, Ready, At
<1>6. ASSUME worker[w].pc = "lock", Error(w) PROVE ZoneInv'
  BY <1>6, ErrorZones
<1> QED
  BY <1>2, <1>3, <1>4, <1>5, <1>6
     DEF SmallCalls, CreateMMIOFails, MMIOWriteFails, AllocateBufferFails, CreateDMAFails,
         Ready, At

-----------------------------------------------------------------------------
(* CleanupResources *)

LEMMA CleanupReleasesZones ==
  ASSUME ZoneInv, LockInv', NEW w \in Workers, CleanupReleases(w),
         UNCHANGED mapped
  PROVE  ZoneInv'
<1> DEFINE t == worker[w].tenant
<1>1. /\ worker[w] \in Busy
      /\ t \in Tenants
  BY BusyThread DEF CleanupReleases, At, ZoneInv, LockInv, Busy
<1>2. /\ DOMAIN allocations' = DOMAIN allocations \ ReleasedZones(t)
      /\ \A z \in DOMAIN allocations' : allocations'[z] = allocations[z]
  BY DEF CleanupReleases, release_all_tenant_zones, Restrict
<1>3. tenant_zones'[t] = {}
  <2>1. \A z \in DOMAIN allocations' : allocations'[z].tenant # t
    BY <1>1, ReleaseAllReleases
       DEF CleanupReleases, ZoneInv, LockInv, HypervisorTypeOK, PRZoneInv
  <2> QED BY <1>1, <2>1 DEF LockInv, TablesAgree
<1>4. /\ \A v \in Workers \ {w} : worker'[v] = worker[v]
      /\ worker'[w].tenant = t
      /\ worker'[w].todo = ReleasedZones(t)
  BY <1>1 DEF CleanupReleases, ZoneInv, LockInv, HypervisorTypeOK, Busy
<1>5. reconf = Idle /\ \A v \in Workers : ~Cleaner(v)
  BY DEF CleanupReleases, ZoneInv, LockInv, LockDiscipline, Critical, At, Cleaner
<1>6. SequenceInv'
  BY <1>5 DEF CleanupReleases, dfxVars, SequenceInv, ReprogrammedZoneIsFree, Idle
<1>7. CleaningInv'
  BY <1>2, <1>3, <1>4, <1>5 DEF CleaningInv, Cleaner
<1>8. AllocatedZoneRuns'
  BY <1>2 DEF CleanupReleases, dfxVars, ZoneInv, AllocatedZoneRuns
<1> QED BY <1>6, <1>7, <1>8 DEF ZoneInv

LEMMA CleanupDecouplesZones ==
  ASSUME ZoneInv, LockInv', NEW w \in Workers, NEW z \in ZoneIds, CleanupDecouples(w, z),
         UNCHANGED mapped
  PROVE  ZoneInv'
<1>1. /\ reconf = Idle
      /\ worker[w] \in Busy
      /\ worker[w].pc = "decouple"
  BY CleanupIsAlone DEF CleanupDecouples, At, ZoneInv
<1>2. z \notin DOMAIN allocations
  BY <1>1 DEF CleanupDecouples, ZoneInv, CleaningInv, Cleaner
<1>3. NoNewCleaner(w)
  BY <1>1 DEF CleanupDecouples, NoNewCleaner, Cleaner, ZoneInv, LockInv,
     HypervisorTypeOK, Busy
<1>4. CleaningInv'
  BY <1>3, CleaningFrame DEF CleanupDecouples, ZoneInv
<1>5. SequenceInv'
  BY <1>1 DEF CleanupDecouples, SequenceInv, ReprogrammedZoneIsFree, Idle
<1>6. \A y \in Decouplers \ {z} : gpio'[y] = gpio[y]
  BY DEF CleanupDecouples, decouple_zone, SetDecoupler, RaiseDecoupler, ZoneInv, LockInv,
     HypervisorTypeOK, DFXTypeOK
<1>7. AllocatedZoneRuns'
  BY <1>2, <1>6 DEF CleanupDecouples, pzVars, ZoneInv, AllocatedZoneRuns
<1> QED BY <1>4, <1>5, <1>7 DEF ZoneInv

LEMMA CleanupZones ==
  ASSUME ZoneInv, LockInv', NEW w \in Workers, CleanupResources(w),
         UNCHANGED mapped
  PROVE  ZoneInv'
<1>1. CASE SummaryBegins(w)
  <2>1. worker[w] \in Busy
    BY <1>1, BusyThread DEF SummaryBegins, Ready, At, ZoneInv, LockInv
  <2>2. NoNewCleaner(w)
    BY <1>1, <2>1 DEF SummaryBegins, NoNewCleaner, ZoneInv, LockInv, HypervisorTypeOK, Busy
  <2> QED BY <1>1, <2>2, ZoneFrame DEF SummaryBegins
<1>2. CASE SummaryEnds(w)
  <2>1. NoNewCleaner(w)
    BY <1>2, GotoIsNoCleaner DEF SummaryEnds, At, ZoneInv
  <2> QED BY <1>2, <2>1, ZoneFrame DEF SummaryEnds
<1>3. CASE SummaryRaises(w)
  BY <1>3, ErrorZones DEF SummaryRaises, At
<1>4. CASE CleanupReleases(w)
  BY <1>4, CleanupReleasesZones
<1>5. ASSUME NEW z \in ZoneIds, CleanupDecouples(w, z) PROVE ZoneInv'
  BY <1>5, CleanupDecouplesZones
<1>6. CASE CleanupDecoupled(w)
  <2>1. worker[w] \in Busy /\ worker[w].pc = "decouple"
    BY <1>6, BusyThread DEF CleanupDecoupled, At, ZoneInv, LockInv
  <2>2. NoNewCleaner(w)
    BY <1>6, <2>1 DEF CleanupDecoupled, Goto, NoNewCleaner, Cleaner, ZoneInv, LockInv,
       HypervisorTypeOK, Busy
  <2> QED BY <1>6, <2>2, ZoneFrame DEF CleanupDecoupled
<1>7. ASSUME NEW h \in Handles, CleanupRemoves(w, h) PROVE ZoneInv'
  <2>1. NoNewCleaner(w)
    BY <1>7 DEF CleanupRemoves, At, NoNewCleaner, Cleaner
  <2> QED BY <1>7, <2>1, ZoneFrame DEF CleanupRemoves
<1>8. CASE CleanupReturns(w)
  <2>1. NoNewCleaner(w)
    BY <1>8, GotoIsNoCleaner DEF CleanupReturns, At, ZoneInv
  <2> QED BY <1>8, <2>1, ZoneFrame DEF CleanupReturns
<1>9. CASE CleanupReplaces(w)
  <2>1. NoNewCleaner(w)
    BY <1>9, GotoIsNoCleaner DEF CleanupReplaces, At, ZoneInv
  <2> QED BY <1>9, <2>1, ZoneFrame DEF CleanupReplaces
<1> QED
  BY <1>1, <1>2, <1>3, <1>4, <1>5, <1>6, <1>7, <1>8, <1>9 DEF CleanupResources

-----------------------------------------------------------------------------

LEMMA ZoneInvInit == Init => ZoneInv
<1> SUFFICES ASSUME Init PROVE ZoneInv
  OBVIOUS
<1>1. SequenceInv /\ AllocatedZoneRuns
  BY DEF Init, PRZoneInit, DFXInit, SequenceInv, ReprogrammedZoneIsFree, AllocatedZoneRuns,
         Idle
<1>2. CleaningInv
  BY DEF Init, CleaningInv, Cleaner, Resting
<1> QED BY <1>1, <1>2, LockInvInit DEF ZoneInv

\* The tenants' programs write registers, through mappings they had before.
LEMMA ContainersZones ==
  ASSUME ZoneInv, LockInv', Containers
  PROVE  ZoneInv'
<1>1. PICK t \in Tenants, z \in UioDevices : MapUio(t, z) \/ UioWrite(t, z)
  BY HypervisorAssumption DEF Containers
<1>2. UNCHANGED <<worker, pzVars, dfxVars>>
  BY <1>1 DEF MapUio, UioWrite, rmVars
<1>3. CleaningInv' /\ AllocatedZoneRuns' /\ ReprogrammedZoneIsFree'
  BY <1>2 DEF ZoneInv, SequenceInv, CleaningInv, Cleaner, AllocatedZoneRuns,
     ReprogrammedZoneIsFree, zone_id, pzVars, dfxVars
<1>4. \A y \in Decouplers : writers[y] \subseteq Mappers(y) => writers'[y] \subseteq Mappers(y)'
  BY <1>1, ContainersGrow DEF ZoneInv
<1>5. SequenceInv'
  BY <1>2, <1>3, <1>4 DEF ZoneInv, SequenceInv, zone_id, dfxVars
<1> QED BY <1>3, <1>5 DEF ZoneInv

\* Every step preserves the second layer.
LEMMA ZoneInvNext == ZoneInv /\ [Next]_vars => ZoneInv'
<1> SUFFICES ASSUME ZoneInv, [Next]_vars PROVE ZoneInv'
  OBVIOUS
<1>0. LockInv'
  BY LockInvNext DEF ZoneInv
<1>1. CASE UNCHANGED vars
  BY <1>0, <1>1 DEF vars, rmVars, pzVars, dfxVars, ZoneInv, SequenceInv, CleaningInv,
     AllocatedZoneRuns, ReprogrammedZoneIsFree, Cleaner, Mappers, zone_id
<1>2. ASSUME NEW w \in Workers, NEW t \in Tenants, NEW op \in Calls, Begin(w, t, op)
      PROVE  ZoneInv'
  <2>1. NoNewCleaner(w)
    BY <1>2 DEF Begin, NoNewCleaner, ZoneInv, LockInv, HypervisorTypeOK
  <2> QED BY <1>0, <1>2, <2>1, ZoneFrame DEF Begin
<1>3. ASSUME NEW w \in Workers, Step(w) PROVE ZoneInv'
  <2>0. UNCHANGED mapped
    BY <1>3 DEF Step
  <2>1. ASSUME NEW req \in Requests, LoadRefused(w, req) PROVE ZoneInv'
    BY <1>0, <2>0, <2>1, ErrorZones DEF LoadRefused, Ready, At
  <2>2. ASSUME NEW h \in FreshHandles, LoadCommits(w, h) PROVE ZoneInv'
    BY <1>0, <2>0, <2>2, LoadCommitsZones DEF FreshHandles
  <2>3. CASE LoadOverlay(w)
    BY <1>0, <2>0, <2>1, <2>2, <2>3, LoadStartsZones, LoadReconfiguresZones, LoadFailsZones
       DEF LoadOverlay
  <2>4. CASE SmallCalls(w)
    BY <1>0, <2>0, <2>4, SmallCallsZones
  <2>5. CASE CleanupResources(w)
    BY <1>0, <2>0, <2>5, CleanupZones
  <2>6. CASE Reply(w) \/ Abort(w)
    BY <1>0, <2>0, <2>6, FinishZones DEF Reply, Abort
  <2>7. CASE ReplyFails(w)
    BY <1>0, <2>0, <2>7, ErrorZones DEF ReplyFails, At
  <2> QED BY <1>3, <2>3, <2>4, <2>5, <2>6, <2>7 DEF Step
<1>4. CASE Restart
  <2>1. SequenceInv' /\ AllocatedZoneRuns'
    BY <1>4 DEF Restart, SequenceInv, ReprogrammedZoneIsFree, AllocatedZoneRuns, Idle
  <2>2. CleaningInv'
    BY <1>4 DEF Restart, CleaningInv, Cleaner, Resting
  <2> QED BY <1>0, <2>1, <2>2 DEF ZoneInv
<1>5. CASE Containers
  BY <1>0, <1>5, ContainersZones
<1> QED BY <1>1, <1>2, <1>3, <1>4, <1>5 DEF Next

LEMMA ZoneInvariance == Spec => []ZoneInv
  BY ZoneInvInit, ZoneInvNext, PTL DEF Spec

\* What a tenant holds is what runs: its region keeps its bitstream, connected,
\* whatever the others load, fail to load or release.
THEOREM AllocatedZonesRun == Spec => []AllocatedZoneRuns
<1>1. ZoneInv => AllocatedZoneRuns
  BY DEF ZoneInv
<1> QED BY <1>1, ZoneInvariance, PTL

\* load_overlay only ever overwrites a free region.
THEOREM OnlyFreeZonesAreReprogrammed == Spec => []ReprogrammedZoneIsFree
<1>1. ZoneInv => ReprogrammedZoneIsFree
  BY DEF ZoneInv, SequenceInv
<1> QED BY <1>1, ZoneInvariance, PTL

-----------------------------------------------------------------------------
(* The hypervisor implements VFPGALease: every step of every thread maps   *)
(* to a programming, granting, revoking or power-on step, or to nothing.   *)

\* The lease each allocation stands for.
LeaseOf(z) ==
  [tenant |-> allocations[z].tenant, bitstream |-> allocations[z].bitstream]

\* A step that leaves allocations and regions alone is invisible.
LEMMA InvisibleStep ==
  ASSUME UNCHANGED <<allocations, fabric>>
  PROVE  UNCHANGED Lease!leaseVars
  BY DEF Lease!leaseVars

LEMMA ReconfigureIsProgram ==
  ASSUME ZoneInv, NEW w \in Workers, LoadReconfigures(w)
  PROVE  [Lease!LeaseNext]_(Lease!leaseVars)
<1>1. /\ ReconfStep
      /\ zone_id \notin DOMAIN allocations
      /\ UNCHANGED allocations
      /\ DFXTypeOK
      /\ DFXTypeOK'
  BY ReconfStepTypes DEF LoadReconfigures, ZoneInv, SequenceInv, ReprogrammedZoneIsFree,
     LockInv, HypervisorTypeOK, pzVars
<1>2. CASE ReconfDownload
  <2>1. zone_id \in Decouplers
    BY <1>2 DEF ReconfDownload, ZoneInv, SequenceInv
  <2>2. \E c \in Contents : fabric' = [fabric EXCEPT ![zone_id] = c]
    <3>1. fabric'[zone_id] \in Contents
      BY <1>1, <2>1 DEF DFXTypeOK
    <3>2. fabric' = [fabric EXCEPT ![zone_id] = fabric'[zone_id]]
      BY <1>1, <1>2, <2>1 DEF ReconfDownload, DFXTypeOK
    <3> QED BY <3>1, <3>2
  <2>3. PICK c \in Contents : fabric' = [fabric EXCEPT ![zone_id] = c]
    BY <2>2
  <2>4. Lease!Program(zone_id, c)
    BY <1>1, <2>3 DEF Lease!Program
  <2> QED BY <2>1, <2>4 DEF Lease!LeaseNext
<1>3. CASE ~ReconfDownload
  <2>1. UNCHANGED fabric
    BY <1>1, <1>3 DEF ReconfStep, ReconfDecouple, ReconfCouple, ReconfRecover
  <2> QED BY <1>1, <2>1, InvisibleStep
<1> QED BY <1>2, <1>3

LEMMA CommitIsGrant ==
  ASSUME ZoneInv, NEW w \in Workers, NEW h \in Handles, LoadCommits(w, h)
  PROVE  Lease!LeaseNext
<1>1. worker[w].tenant \in Tenants
  BY ReprogrammingIsAlone DEF LoadCommits, At, ZoneInv
<1>2. PICK t \in Tenants : t = worker[w].tenant
  BY <1>1
<1>3. reconf # Idle
  BY DEF LoadCommits, ReconfReturns, Idle
<1>4. /\ zone_id \in Decouplers
      /\ zone_id \notin DOMAIN allocations
      /\ fabric[zone_id] = reconf.file
      /\ reconf.file \in Bitstreams
  BY <1>3, ReconfiguringFile DEF LoadCommits, ReconfReturns, ZoneInv, SequenceInv,
     ReprogrammedZoneIsFree, LockInv, HypervisorTypeOK
<1>5. PICK y \in Decouplers : y = zone_id
  BY <1>4
<1>6. /\ UNCHANGED fabric
      /\ allocations' =
           [x \in DOMAIN allocations \cup {y} |->
              IF x = y THEN [tenant |-> t, bitstream |-> fabric[y], handle |-> h]
                       ELSE allocations[x]]
  BY <1>2, <1>4, <1>5 DEF LoadCommits, allocate_zone
<1>7. /\ DOMAIN allocations' = DOMAIN allocations \cup {y}
      /\ LeaseOf(y)' = [tenant |-> t, bitstream |-> fabric[y]]
      /\ \A x \in DOMAIN allocations : LeaseOf(x)' = LeaseOf(x)
  BY <1>4, <1>5, <1>6 DEF LeaseOf
<1>8. [z \in DOMAIN allocations' |-> LeaseOf(z)'] =
        [x \in DOMAIN allocations \cup {y} |->
           IF x = y THEN [tenant |-> t, bitstream |-> fabric[y]]
                    ELSE [z \in DOMAIN allocations |-> LeaseOf(z)][x]]
  BY <1>4, <1>5, <1>7
<1>9. Lease!Grant(y, t)
  BY <1>4, <1>5, <1>6, <1>8 DEF Lease!Grant, LeaseOf
<1> QED BY <1>9 DEF Lease!LeaseNext

LEMMA ReleaseIsRevoke ==
  ASSUME ZoneInv, NEW w \in Workers, CleanupReleases(w)
  PROVE  Lease!LeaseNext
<1>1. worker[w].tenant \in Tenants
  BY BusyThread DEF CleanupReleases, At, ZoneInv, LockInv, Busy
<1>2. PICK t \in Tenants : t = worker[w].tenant
  BY <1>1
<1> DEFINE held == {z \in DOMAIN allocations : allocations[z].tenant = t}
<1>3. ReleasedZones(t) = held
  BY ReleasedZonesAreTheTenants DEF ZoneInv, LockInv, HypervisorTypeOK, PRZoneInv
<1>4. /\ UNCHANGED fabric
      /\ DOMAIN allocations' = DOMAIN allocations \ held
      /\ \A z \in DOMAIN allocations' : allocations'[z] = allocations[z]
  BY <1>2, <1>3 DEF CleanupReleases, release_all_tenant_zones, Restrict, dfxVars
<1> DEFINE before == [z \in DOMAIN allocations |-> LeaseOf(z)]
           kept == {z \in DOMAIN before : before[z].tenant # t}
<1>5. kept = DOMAIN allocations \ held
  BY DEF LeaseOf
<1>6. [z \in DOMAIN allocations' |-> LeaseOf(z)'] = [z \in kept |-> before[z]]
  <2>1. \A z \in DOMAIN allocations' : LeaseOf(z)' = LeaseOf(z)
    BY <1>4 DEF LeaseOf
  <2>2. DOMAIN allocations' = kept
    BY <1>4, <1>5
  <2> HIDE DEF kept
  <2>3. \A z \in kept : LeaseOf(z)' = before[z]
    BY <2>1, <2>2, <1>4
  <2> QED BY <2>2, <2>3
<1>7. Lease!RevokeAll(t)
  BY <1>4, <1>6 DEF Lease!RevokeAll, Lease!Restrict, LeaseOf
<1> QED BY <1>7 DEF Lease!LeaseNext

LEMMA RestartIsPowerOn ==
  ASSUME Restart
  PROVE  Lease!LeaseNext
<1>1. Lease!PowerOn
  BY DEF Restart, Lease!PowerOn
<1> QED BY <1>1 DEF Lease!LeaseNext

-----------------------------------------------------------------------------

LEMMA InitIsLeaseInit == Init => Lease!LeaseInit
  BY DEF Init, PRZoneInit, DFXInit, Lease!LeaseInit

\* Every step maps to a step of the promise or to a stutter.
LEMMA StepIsLeaseStep == ZoneInv /\ [Next]_vars => [Lease!LeaseNext]_(Lease!leaseVars)
<1> SUFFICES ASSUME ZoneInv, [Next]_vars
             PROVE  [Lease!LeaseNext]_(Lease!leaseVars)
  OBVIOUS
<1>1. CASE UNCHANGED <<allocations, fabric>>
  BY <1>1, InvisibleStep
<1>2. ASSUME NEW w \in Workers, LoadOverlay(w)
      PROVE  \/ [Lease!LeaseNext]_(Lease!leaseVars)
             \/ UNCHANGED <<allocations, fabric>>
  <2>1. ASSUME NEW h \in FreshHandles, LoadCommits(w, h) PROVE Lease!LeaseNext
    BY <2>1, CommitIsGrant DEF FreshHandles
  <2>2. CASE \E req \in Requests : LoadRefused(w, req) \/ LoadStarts(w, req)
    BY <2>2 DEF LoadRefused, Error, LoadStarts, BeginReconfigure, pzVars, dfxVars
  <2>3. CASE LoadFails(w)
    BY <2>3 DEF LoadFails, pzVars
  <2>4. CASE LoadReconfigures(w)
    BY <2>4, ReconfigureIsProgram
  <2> QED BY <1>2, <2>1, <2>2, <2>3, <2>4 DEF LoadOverlay
<1>3. ASSUME NEW w \in Workers, SmallCalls(w) PROVE UNCHANGED <<allocations, fabric>>
  BY <1>3 DEF SmallCalls, CreateMMIO, CreateMMIOFails, MMIOWrite, MMIOWriteFails,
     AllocateBuffer, AllocateBufferFails, CreateDMA, CreateDMAFails, Error, pzVars, dfxVars
<1>4. ASSUME NEW w \in Workers, CleanupResources(w)
      PROVE  Lease!LeaseNext \/ UNCHANGED <<allocations, fabric>>
  <2>1. CASE CleanupReleases(w)
    BY <2>1, ReleaseIsRevoke
  <2>2. CASE ~CleanupReleases(w)
    BY <1>4, <2>2 DEF CleanupResources, SummaryBegins, SummaryEnds, SummaryRaises, Error,
       CleanupDecouples, CleanupDecoupled, CleanupRemoves, CleanupReturns, CleanupReplaces,
       pzVars, dfxVars
  <2> QED BY <2>1, <2>2
<1>5. CASE Restart
  BY <1>5, RestartIsPowerOn
<1>6. ASSUME NEW w \in Workers, Reply(w) \/ ReplyFails(w) \/ Abort(w)
      PROVE  UNCHANGED <<allocations, fabric>>
  BY <1>6 DEF Reply, ReplyFails, Abort, Finish, Error, pzVars, dfxVars
<1>7. ASSUME NEW w \in Workers, NEW t \in Tenants, NEW op \in Calls, Begin(w, t, op)
      PROVE  UNCHANGED <<allocations, fabric>>
  BY <1>7 DEF Begin, pzVars, dfxVars
<1>8. CASE UNCHANGED vars
  BY <1>8, <1>1 DEF vars, pzVars, dfxVars
<1>9. CASE Containers
  BY <1>1, <1>9 DEF Containers, MapUio, UioWrite, pzVars, dfxVars
<1> QED BY <1>1, <1>2, <1>3, <1>4, <1>5, <1>6, <1>7, <1>8, <1>9 DEF Next, Step

\* The hypervisor keeps the promise of VFPGALease, for any number of tenants,
\* regions and threads, through faults, failed loads, cleanups and restarts.
THEOREM HypervisorImplementsLease == Spec => ImplementsLease
<1>1. Lease!LeaseSpec <=> Lease!LeaseInit /\ [][Lease!LeaseNext]_(Lease!leaseVars)
  BY DEF Lease!LeaseSpec
<1>2. ImplementsLease <=> Lease!LeaseSpec
  BY DEF ImplementsLease
<1> QED BY <1>1, <1>2, InitIsLeaseInit, StepIsLeaseStep, ZoneInvariance, PTL DEF Spec

\* What VFPGALease promises, read back in the hypervisor's own variables: a
\* leased region runs what its tenant loaded.
THEOREM LeasesRun == Spec => []Lease!LeaseRuns
<1>1. ZoneInv => Lease!LeaseRuns
  BY DEF ZoneInv, AllocatedZoneRuns, Lease!LeaseRuns
<1> QED BY <1>1, ZoneInvariance, PTL

-----------------------------------------------------------------------------
(* Third layer: overlays, zones and handles *)

\* While a tenant is being cleaned its handles outlive its zones.
Cleaning(t) == \E w \in Workers : Cleaner(w) /\ worker[w].tenant = t

ZonesHaveOverlays ==
  \A z \in DOMAIN allocations :
    /\ allocations[z].handle \in DOMAIN resources
    /\ resources[allocations[z].handle] =
         [tenant |-> allocations[z].tenant, type |-> "overlay", zone |-> z, size |-> 0]

OverlaysHaveZones ==
  \A h \in DOMAIN resources :
    (resources[h].type = "overlay" /\ ~Cleaning(resources[h].tenant)) =>
      /\ resources[h].zone \in DOMAIN allocations
      /\ allocations[resources[h].zone].handle = h

HandlesHaveZones ==
  \A h \in DOMAIN resources :
    (resources[h].type \in {"mmio", "dma"} /\ ~Cleaning(resources[h].tenant)) =>
      resources[h].zone \in tenant_zones[resources[h].tenant]

HandleInv ==
  /\ ZoneInv
  /\ ZonesHaveOverlays
  /\ OverlaysHaveZones
  /\ HandlesHaveZones
  /\ HandlesWriteOwnRegions

\* The thread does not end a cleanup.
KeepsCleaning(w) ==
  /\ \A v \in Workers \ {w} : worker'[v] = worker[v]
  /\ Cleaner(w) => /\ worker'[w].pc \in {"decouple", "handles"}
                   /\ worker'[w].tenant = worker[w].tenant

LEMMA CleaningLasts ==
  ASSUME NEW w \in Workers, KeepsCleaning(w), NEW t, Cleaning(t)
  PROVE  Cleaning(t)'
  BY DEF Cleaning, Cleaner, KeepsCleaning

\* Most steps leave the table, the zones and the registers alone.
LEMMA HandleFrame ==
  ASSUME HandleInv, ZoneInv', NEW w \in Workers, KeepsCleaning(w),
         UNCHANGED <<resources, pzVars, writers>>,
         UNCHANGED mapped
  PROVE  HandleInv'
<1>1. ZonesHaveOverlays' /\ HandlesWriteOwnRegions'
  BY DEF HandleInv, ZonesHaveOverlays, HandlesWriteOwnRegions, Mappers, pzVars
<1>2. OverlaysHaveZones'
  BY CleaningLasts DEF HandleInv, OverlaysHaveZones, pzVars
<1>3. HandlesHaveZones'
  BY CleaningLasts DEF HandleInv, HandlesHaveZones, pzVars
<1> QED BY <1>1, <1>2, <1>3 DEF HandleInv

LEMMA GotoKeepsCleaning ==
  ASSUME LockInv, NEW w \in Workers, NEW pc, Goto(w, pc), worker[w].pc # "idle", ~Cleaner(w)
  PROVE  KeepsCleaning(w)
  BY DEF Goto, KeepsCleaning, LockInv, HypervisorTypeOK

\* The overlay of a zone belongs to the zone's tenant.
LEMMA TenantOfZone ==
  ASSUME ZonesHaveOverlays, NEW z \in DOMAIN allocations
  PROVE  resources[allocations[z].handle].tenant = allocations[z].tenant
<1> DEFINE overlay == [tenant |-> allocations[z].tenant, type |-> "overlay",
                       zone |-> z, size |-> 0]
<1>1. resources[allocations[z].handle] = overlay
  BY DEF ZonesHaveOverlays
<1>2. overlay.tenant = allocations[z].tenant
  OBVIOUS
<1> QED BY <1>1, <1>2

\* Nobody is cleaning when the lock is free.
LEMMA NoCleaningUnlocked ==
  ASSUME LockInv, rm_lock = {}
  PROVE  \A t : ~Cleaning(t)
  BY DEF LockInv, LockDiscipline, Critical, Cleaning, Cleaner

-----------------------------------------------------------------------------
(* Entering a handle in the table *)

\* A handle of any type but overlay: only what it reaches has to be its owner's.
LEMMA RegisterHandles ==
  ASSUME HandleInv, ZoneInv', NEW w \in Workers, worker[w].pc = "lock",
         NEW h \in FreshHandles, NEW type \in {"mmio", "dma", "buffer"}, NEW z, NEW size,
         NEW pc \in {"reply", "error"},
         Register(w, h, type, z, size, pc),
         type \in {"mmio", "dma"} => z \in tenant_zones[worker[w].tenant],
         UNCHANGED <<pzVars, writers>>,
         UNCHANGED mapped
  PROVE  HandleInv'
<1>1. /\ h \notin DOMAIN resources
      /\ DOMAIN resources' = DOMAIN resources \cup {h}
      /\ resources'[h] = [tenant |-> worker[w].tenant, type |-> type,
                          zone |-> z, size |-> size]
      /\ \A x \in DOMAIN resources : resources'[x] = resources[x]
  BY DEF Register, FreshHandles
<1>2. KeepsCleaning(w)
  BY DEF Register, KeepsCleaning, Cleaner, HandleInv, ZoneInv, LockInv, HypervisorTypeOK
<1>3. ZonesHaveOverlays' /\ HandlesWriteOwnRegions'
  BY <1>1 DEF HandleInv, ZonesHaveOverlays, HandlesWriteOwnRegions, Mappers, pzVars
<1>4. OverlaysHaveZones'
  BY <1>1, <1>2, CleaningLasts DEF HandleInv, OverlaysHaveZones, pzVars
<1>5. HandlesHaveZones'
  BY <1>1, <1>2, CleaningLasts DEF HandleInv, HandlesHaveZones, pzVars
<1> QED BY <1>3, <1>4, <1>5 DEF HandleInv

\* The commit of a load enters the zone and its overlay together.
LEMMA LoadCommitsHandles ==
  ASSUME HandleInv, ZoneInv', NEW w \in Workers, NEW h \in FreshHandles, LoadCommits(w, h),
         UNCHANGED mapped
  PROVE  HandleInv'
<1> DEFINE t == worker[w].tenant
           y == zone_id
<1>1. /\ \A v \in Workers : ~Cleaner(v)
      /\ t \in Tenants
      /\ reconf.pc = "true"
      /\ y \notin DOMAIN allocations
      /\ writers[y] \subseteq Mappers(y)
  BY ReprogrammingIsAlone DEF LoadCommits, ReconfReturns, At, HandleInv, ZoneInv,
     SequenceInv, ReprogrammedZoneIsFree, Idle
<1>2. /\ h \notin DOMAIN resources
      /\ DOMAIN resources' = DOMAIN resources \cup {h}
      /\ resources'[h] = [tenant |-> t, type |-> "overlay", zone |-> y, size |-> 0]
      /\ \A x \in DOMAIN resources : resources'[x] = resources[x]
  BY DEF LoadCommits, Register, FreshHandles
<1>3. /\ DOMAIN allocations' = DOMAIN allocations \cup {y}
      /\ allocations'[y] = [tenant |-> t, bitstream |-> reconf.file, handle |-> h]
      /\ \A z \in DOMAIN allocations : allocations'[z] = allocations[z]
  BY <1>1 DEF LoadCommits, allocate_zone
<1>4. \A u \in Tenants : tenant_zones[u] \subseteq tenant_zones'[u]
  BY <1>1 DEF LoadCommits, allocate_zone, HandleInv, ZoneInv, LockInv, HypervisorTypeOK,
     PRZoneTypeOK
<1>5. \A u : ~Cleaning(u)
  BY <1>1 DEF Cleaning
<1> HIDE DEF t, y
<1>6. ZonesHaveOverlays'
  BY <1>2, <1>3 DEF HandleInv, ZonesHaveOverlays
<1>7. OverlaysHaveZones'
  BY <1>1, <1>2, <1>3, <1>5 DEF HandleInv, OverlaysHaveZones
<1>8. HandlesHaveZones'
  <2>1. \A x \in DOMAIN resources : resources[x].tenant \in Tenants
    BY DEF HandleInv, ZoneInv, LockInv, HypervisorTypeOK, ManagedResource
  <2> QED BY <1>2, <1>4, <1>5, <2>1 DEF HandleInv, HandlesHaveZones
<1>9. HandlesWriteOwnRegions'
  BY <1>1, <1>3 DEF LoadCommits, HandleInv, HandlesWriteOwnRegions, Mappers
<1> QED BY <1>6, <1>7, <1>8, <1>9 DEF HandleInv

-----------------------------------------------------------------------------
(* Using and removing handles *)

LEMMA MMIOWriteHandles ==
  ASSUME HandleInv, ZoneInv', NEW w \in Workers, NEW h \in Handles, MMIOWrite(w, h),
         UNCHANGED mapped
  PROVE  HandleInv'
<1>1. /\ worker[w].tenant \in Tenants
      /\ worker[w].pc = "lock"
      /\ Goto(w, "reply")
  BY BusyThread DEF MMIOWrite, Ready, At, HandleInv, ZoneInv, LockInv, Busy
<1>2. resources[h].zone \in tenant_zones[worker[w].tenant]
  BY NoCleaningUnlocked DEF MMIOWrite, Ready, Writable, HandleInv, ZoneInv, HandlesHaveZones
<1>3. \A z \in DOMAIN allocations : z = resources[h].zone =>
        allocations[z].tenant = worker[w].tenant
  BY <1>1, <1>2 DEF HandleInv, ZoneInv, LockInv, TablesAgree
<1>4. AllocatedZoneRuns
  BY DEF HandleInv, ZoneInv
<1>5. HandlesWriteOwnRegions'
  BY <1>3, <1>4 DEF MMIOWrite, HandleInv, HandlesWriteOwnRegions, Mappers, AllocatedZoneRuns, pzVars
<1>6. KeepsCleaning(w)
  BY <1>1, GotoKeepsCleaning DEF Cleaner, HandleInv, ZoneInv
<1>7. ZonesHaveOverlays'
  BY DEF MMIOWrite, HandleInv, ZonesHaveOverlays, pzVars
<1>8. OverlaysHaveZones' /\ HandlesHaveZones'
  BY <1>6, CleaningLasts DEF MMIOWrite, HandleInv, OverlaysHaveZones, HandlesHaveZones, pzVars
<1> QED BY <1>5, <1>7, <1>8 DEF HandleInv

LEMMA LoadReconfiguresHandles ==
  ASSUME HandleInv, ZoneInv', NEW w \in Workers, LoadReconfigures(w),
         UNCHANGED mapped
  PROVE  HandleInv'
<1>1. KeepsCleaning(w) /\ UNCHANGED <<resources, pzVars>>
  BY DEF LoadReconfigures, KeepsCleaning, Cleaner, At
<1>2. \A z \in Decouplers : writers'[z] \subseteq writers[z]
  BY DEF LoadReconfigures
<1>3. HandlesWriteOwnRegions'
  BY <1>1, <1>2 DEF HandleInv, ZoneInv, AllocatedZoneRuns, HandlesWriteOwnRegions, Mappers, pzVars
<1>4. ZonesHaveOverlays'
  BY <1>1 DEF HandleInv, ZonesHaveOverlays, pzVars
<1>5. OverlaysHaveZones' /\ HandlesHaveZones'
  BY <1>1, CleaningLasts DEF HandleInv, OverlaysHaveZones, HandlesHaveZones, pzVars
<1> QED BY <1>3, <1>4, <1>5 DEF HandleInv

\* Releasing the zones of a tenant, which is being cleaned from then on.
LEMMA CleanupReleasesHandles ==
  ASSUME HandleInv, ZoneInv', NEW w \in Workers, CleanupReleases(w),
         UNCHANGED mapped
  PROVE  HandleInv'
<1> DEFINE t == worker[w].tenant
<1>1. /\ worker[w] \in Busy
      /\ t \in Tenants
  BY BusyThread DEF CleanupReleases, At, HandleInv, ZoneInv, LockInv, Busy
<1>2. /\ DOMAIN allocations' = DOMAIN allocations \ ReleasedZones(t)
      /\ \A z \in DOMAIN allocations' : allocations'[z] = allocations[z]
      /\ UNCHANGED <<resources, writers>>
  BY DEF CleanupReleases, release_all_tenant_zones, Restrict
<1>3. PRZoneInv
  BY DEF HandleInv, ZoneInv, LockInv, HypervisorTypeOK, PRZoneInv
<1>4. \A z \in DOMAIN allocations : allocations[z].tenant # t => z \in DOMAIN allocations'
  BY <1>1, <1>2, <1>3, ReleasedZonesAreTheTenants
<1>5. \A u \in Tenants \ {t} : tenant_zones'[u] = tenant_zones[u]
  BY <1>1, <1>3, ReleaseAllReleases DEF CleanupReleases
<1>6. /\ worker'[w].pc = "decouple"
      /\ worker'[w].tenant = t
  BY <1>1 DEF CleanupReleases, HandleInv, ZoneInv, LockInv, HypervisorTypeOK, Busy
<1>7. \A u : ~Cleaning(u)
  BY NoCleaningUnlocked DEF CleanupReleases, HandleInv, ZoneInv
<1>8. \A x \in DOMAIN resources : resources[x].tenant \in Tenants
  BY DEF HandleInv, ZoneInv, LockInv, HypervisorTypeOK, ManagedResource
<1> HIDE DEF t
<1>9. ZonesHaveOverlays' /\ HandlesWriteOwnRegions'
  BY <1>2 DEF HandleInv, ZonesHaveOverlays, HandlesWriteOwnRegions, Mappers
<1>10. OverlaysHaveZones'
  <2> SUFFICES ASSUME NEW x \in DOMAIN resources, resources[x].type = "overlay",
                      resources[x].tenant # t
               PROVE  /\ resources[x].zone \in DOMAIN allocations'
                      /\ allocations'[resources[x].zone].handle = x
    BY <1>2, <1>6 DEF OverlaysHaveZones, Cleaning, Cleaner
  <2>1. /\ resources[x].zone \in DOMAIN allocations
        /\ allocations[resources[x].zone].handle = x
    BY <1>7 DEF HandleInv, OverlaysHaveZones
  <2>2. allocations[resources[x].zone].tenant = resources[x].tenant
    BY <2>1, TenantOfZone DEF HandleInv
  <2> QED BY <1>2, <1>4, <2>1, <2>2
<1>11. HandlesHaveZones'
  <2> SUFFICES ASSUME NEW x \in DOMAIN resources, resources[x].type \in {"mmio", "dma"},
                      resources[x].tenant # t
               PROVE  resources[x].zone \in tenant_zones'[resources[x].tenant]
    BY <1>2, <1>6 DEF HandlesHaveZones, Cleaning, Cleaner
  <2> QED BY <1>5, <1>7, <1>8 DEF HandleInv, HandlesHaveZones
<1> QED BY <1>9, <1>10, <1>11 DEF HandleInv

\* A tenant being cleaned has no zone, so no allocation names a handle of its.
LEMMA CleanupRemovesHandles ==
  ASSUME HandleInv, ZoneInv', NEW w \in Workers, NEW h \in Handles, CleanupRemoves(w, h),
         UNCHANGED mapped
  PROVE  HandleInv'
<1>1. /\ Cleaner(w)
      /\ worker[w].tenant \in Tenants
      /\ tenant_zones[worker[w].tenant] = {}
      /\ resources[h].tenant = worker[w].tenant
  BY CleanupIsAlone DEF CleanupRemoves, At, Cleaner, Owned, HandleInv, ZoneInv, CleaningInv
<1>2. /\ DOMAIN resources' = DOMAIN resources \ {h}
      /\ \A x \in DOMAIN resources' : resources'[x] = resources[x]
      /\ UNCHANGED <<worker, writers, pzVars>>
  BY DEF CleanupRemoves, Restrict
<1>3. \A z \in DOMAIN allocations : allocations[z].tenant # worker[w].tenant
  BY <1>1 DEF HandleInv, ZoneInv, LockInv, TablesAgree
<1>4. \A z \in DOMAIN allocations : allocations[z].handle # h
  BY <1>1, <1>3, TenantOfZone DEF HandleInv
<1>5. ZonesHaveOverlays' /\ HandlesWriteOwnRegions'
  BY <1>2, <1>4 DEF HandleInv, ZonesHaveOverlays, HandlesWriteOwnRegions, Mappers, pzVars
<1>6. OverlaysHaveZones' /\ HandlesHaveZones'
  BY <1>2 DEF HandleInv, OverlaysHaveZones, HandlesHaveZones, Cleaning, Cleaner, pzVars
<1> QED BY <1>5, <1>6 DEF HandleInv

\* A cleanup ends when its tenant owns nothing.
LEMMA CleanupReturnsHandles ==
  ASSUME HandleInv, ZoneInv', NEW w \in Workers, CleanupReturns(w),
         UNCHANGED mapped
  PROVE  HandleInv'
<1>1. /\ worker[w].pc = "handles"
      /\ \A x \in DOMAIN resources : resources[x].tenant # worker[w].tenant
      /\ \A v \in Workers \ {w} : worker'[v] = worker[v]
      /\ UNCHANGED <<resources, writers, pzVars>>
  BY DEF CleanupReturns, At, Owned, Goto, HandleInv, ZoneInv, LockInv, HypervisorTypeOK
<1>2. \A t : t # worker[w].tenant /\ Cleaning(t) => Cleaning(t)'
  BY <1>1 DEF Cleaning, Cleaner
<1>3. ZonesHaveOverlays' /\ HandlesWriteOwnRegions'
  BY <1>1 DEF HandleInv, ZonesHaveOverlays, HandlesWriteOwnRegions, Mappers, pzVars
<1>4. OverlaysHaveZones' /\ HandlesHaveZones'
  BY <1>1, <1>2 DEF HandleInv, OverlaysHaveZones, HandlesHaveZones, pzVars
<1> QED BY <1>3, <1>4 DEF HandleInv

-----------------------------------------------------------------------------

LEMMA ErrorHandles ==
  ASSUME HandleInv, ZoneInv', NEW w \in Workers, worker[w].pc # "idle", ~Cleaner(w), Error(w),
         UNCHANGED mapped
  PROVE  HandleInv'
<1>1. KeepsCleaning(w)
  BY GotoKeepsCleaning DEF Error, HandleInv, ZoneInv
<1> QED BY <1>1, HandleFrame DEF Error

LEMMA FinishHandles ==
  ASSUME HandleInv, ZoneInv', NEW w \in Workers, ~Cleaner(w), Finish(w),
         UNCHANGED mapped
  PROVE  HandleInv'
<1>1. KeepsCleaning(w)
  BY DEF Finish, KeepsCleaning, HandleInv, ZoneInv, LockInv, HypervisorTypeOK
<1> QED BY <1>1, HandleFrame DEF Finish

LEMMA LoadOverlayHandles ==
  ASSUME HandleInv, ZoneInv', NEW w \in Workers, LoadOverlay(w),
         UNCHANGED mapped
  PROVE  HandleInv'
<1>1. ASSUME NEW req \in Requests, LoadRefused(w, req) PROVE HandleInv'
  BY <1>1, ErrorHandles DEF LoadRefused, Ready, At, Cleaner
<1>2. ASSUME NEW req \in Requests, LoadStarts(w, req) PROVE HandleInv'
  <2>1. KeepsCleaning(w)
    BY <1>2, GotoKeepsCleaning DEF LoadStarts, Ready, At, Cleaner, HandleInv, ZoneInv
  <2> QED BY <1>2, <2>1, HandleFrame DEF LoadStarts
<1>3. CASE LoadReconfigures(w)
  BY <1>3, LoadReconfiguresHandles
<1>4. CASE LoadFails(w)
  <2>1. KeepsCleaning(w)
    BY <1>4, GotoKeepsCleaning DEF LoadFails, At, Cleaner, HandleInv, ZoneInv
  <2> QED BY <1>4, <2>1, HandleFrame DEF LoadFails
<1>5. ASSUME NEW h \in FreshHandles, LoadCommits(w, h) PROVE HandleInv'
  BY <1>5, LoadCommitsHandles
<1> QED BY <1>1, <1>2, <1>3, <1>4, <1>5 DEF LoadOverlay

LEMMA SmallCallsHandles ==
  ASSUME HandleInv, ZoneInv', NEW w \in Workers, SmallCalls(w),
         UNCHANGED mapped
  PROVE  HandleInv'
<1>1. ASSUME NEW z \in ZoneIds, NEW h \in FreshHandles, CreateMMIO(w, z, h)
      PROVE  HandleInv'
  BY <1>1, RegisterHandles DEF CreateMMIO, get_tenant_zones, Ready, At
<1>2. ASSUME NEW h \in Handles, MMIOWrite(w, h) PROVE HandleInv'
  BY <1>2, MMIOWriteHandles
<1>3. ASSUME NEW size \in BufferSizes, NEW h \in FreshHandles, AllocateBuffer(w, size, h)
      PROVE  HandleInv'
  BY <1>3, RegisterHandles DEF AllocateBuffer, Ready, At
<1>4. ASSUME NEW z \in ZoneIds, NEW h \in FreshHandles, CreateDMA(w, z, h)
      PROVE  HandleInv'
  BY <1>4, RegisterHandles DEF CreateDMA, get_tenant_zones, Ready, At
<1>5. ASSUME worker[w].pc = "lock", Error(w) PROVE HandleInv'
  BY <1>5, ErrorHandles DEF Cleaner
<1> QED
  BY <1>1, <1>2, <1>3, <1>4, <1>5
     DEF SmallCalls, CreateMMIOFails, MMIOWriteFails, AllocateBufferFails, CreateDMAFails,
         Ready, At

LEMMA CleanupHandles ==
  ASSUME HandleInv, ZoneInv', NEW w \in Workers, CleanupResources(w),
         UNCHANGED mapped
  PROVE  HandleInv'
<1>1. CASE SummaryBegins(w)
  <2>1. KeepsCleaning(w)
    BY <1>1 DEF SummaryBegins, Ready, At, Cleaner, KeepsCleaning, HandleInv, ZoneInv,
       LockInv, HypervisorTypeOK
  <2> QED BY <1>1, <2>1, HandleFrame DEF SummaryBegins
<1>2. CASE SummaryEnds(w)
  <2>1. KeepsCleaning(w)
    BY <1>2, GotoKeepsCleaning DEF SummaryEnds, At, Cleaner, HandleInv, ZoneInv
  <2> QED BY <1>2, <2>1, HandleFrame DEF SummaryEnds
<1>3. CASE SummaryRaises(w)
  BY <1>3, ErrorHandles DEF SummaryRaises, At, Cleaner
<1>4. CASE CleanupReleases(w)
  BY <1>4, CleanupReleasesHandles
<1>5. ASSUME NEW z \in ZoneIds, CleanupDecouples(w, z) PROVE HandleInv'
  <2>1. worker[w] \in Busy
    BY <1>5, BusyThread DEF CleanupDecouples, At, HandleInv, ZoneInv, LockInv
  <2>2. KeepsCleaning(w)
    BY <1>5, <2>1 DEF CleanupDecouples, At, Cleaner, KeepsCleaning, HandleInv, ZoneInv,
       LockInv, HypervisorTypeOK, Busy
  <2> QED BY <1>5, <2>2, HandleFrame DEF CleanupDecouples
<1>6. CASE CleanupDecoupled(w)
  <2>1. worker[w] \in Busy
    BY <1>6, BusyThread DEF CleanupDecoupled, At, HandleInv, ZoneInv, LockInv
  <2>2. KeepsCleaning(w)
    BY <1>6, <2>1 DEF CleanupDecoupled, Goto, At, Cleaner, KeepsCleaning, HandleInv,
       ZoneInv, LockInv, HypervisorTypeOK, Busy
  <2> QED BY <1>6, <2>2, HandleFrame DEF CleanupDecoupled
<1>7. ASSUME NEW h \in Handles, CleanupRemoves(w, h) PROVE HandleInv'
  BY <1>7, CleanupRemovesHandles
<1>8. CASE CleanupReturns(w)
  BY <1>8, CleanupReturnsHandles
<1>9. CASE CleanupReplaces(w)
  <2>1. KeepsCleaning(w)
    BY <1>9, GotoKeepsCleaning DEF CleanupReplaces, At, Cleaner, HandleInv, ZoneInv
  <2> QED BY <1>9, <2>1, HandleFrame DEF CleanupReplaces
<1> QED
  BY <1>1, <1>2, <1>3, <1>4, <1>5, <1>6, <1>7, <1>8, <1>9 DEF CleanupResources

\* What the tenants' programs write they write as mappers.
LEMMA ContainersHandles ==
  ASSUME HandleInv, ZoneInv', Containers
  PROVE  HandleInv'
<1>1. PICK t \in Tenants, z \in UioDevices : MapUio(t, z) \/ UioWrite(t, z)
  BY HypervisorAssumption DEF Containers
<1>2. UNCHANGED <<resources, worker, pzVars>>
  BY <1>1 DEF MapUio, UioWrite, rmVars
<1>3. /\ \A y : Mappers(y) \subseteq Mappers(y)'
      /\ \A y \in Decouplers : writers'[y] \subseteq writers[y] \cup Mappers(y)
  BY <1>1, ContainersGrow DEF HandleInv, ZoneInv
<1>4. \A y \in DOMAIN allocations : y \in Decouplers
  BY DEF HandleInv, ZoneInv, AllocatedZoneRuns
<1>5. HandlesWriteOwnRegions'
  <2> SUFFICES ASSUME NEW y \in DOMAIN allocations
               PROVE  writers'[y] \subseteq {allocations[y].tenant} \cup Mappers(y)'
    BY <1>2 DEF HandlesWriteOwnRegions, pzVars
  <2> QED BY <1>3, <1>4 DEF HandleInv, HandlesWriteOwnRegions
<1>6. ZonesHaveOverlays' /\ OverlaysHaveZones' /\ HandlesHaveZones'
  BY <1>2 DEF HandleInv, ZonesHaveOverlays, OverlaysHaveZones, HandlesHaveZones, Cleaning,
     Cleaner, pzVars
<1> QED BY <1>5, <1>6 DEF HandleInv

\* Every step preserves the third layer.
LEMMA HandleInvNext == HandleInv /\ [Next]_vars => HandleInv'
<1> SUFFICES ASSUME HandleInv, [Next]_vars PROVE HandleInv'
  OBVIOUS
<1>0. ZoneInv'
  BY ZoneInvNext DEF HandleInv
<1>1. CASE UNCHANGED vars
  BY <1>0, <1>1 DEF vars, rmVars, pzVars, HandleInv, ZonesHaveOverlays, OverlaysHaveZones,
     HandlesHaveZones, HandlesWriteOwnRegions, Mappers, Cleaning, Cleaner
<1>2. ASSUME NEW w \in Workers, NEW t \in Tenants, NEW op \in Calls, Begin(w, t, op)
      PROVE  HandleInv'
  <2>1. KeepsCleaning(w)
    BY <1>2 DEF Begin, KeepsCleaning, At, Cleaner, HandleInv, ZoneInv, LockInv,
       HypervisorTypeOK
  <2> QED BY <1>0, <1>2, <2>1, HandleFrame DEF Begin
<1>3. ASSUME NEW w \in Workers, Step(w) PROVE HandleInv'
  <2>0. UNCHANGED mapped
    BY <1>3 DEF Step
  <2>1. CASE LoadOverlay(w)
    BY <1>0, <2>0, <2>1, LoadOverlayHandles
  <2>2. CASE SmallCalls(w)
    BY <1>0, <2>0, <2>2, SmallCallsHandles
  <2>3. CASE CleanupResources(w)
    BY <1>0, <2>0, <2>3, CleanupHandles
  <2>4. CASE Reply(w) \/ Abort(w)
    BY <1>0, <2>0, <2>4, FinishHandles DEF Reply, Abort, At, Cleaner
  <2>5. CASE ReplyFails(w)
    BY <1>0, <2>0, <2>5, ErrorHandles DEF ReplyFails, At, Cleaner
  <2> QED BY <1>3, <2>1, <2>2, <2>3, <2>4, <2>5 DEF Step
<1>4. CASE Restart
  BY <1>0, <1>4 DEF Restart, HandleInv, ZonesHaveOverlays, OverlaysHaveZones,
     HandlesHaveZones, HandlesWriteOwnRegions, Mappers
<1>5. CASE Containers
  BY <1>0, <1>5, ContainersHandles
<1> QED BY <1>1, <1>2, <1>3, <1>4, <1>5 DEF Next

LEMMA HandleInvariance == Spec => []HandleInv
<1>1. Init => HandleInv
  BY ZoneInvInit DEF Init, PRZoneInit, HandleInv, ZonesHaveOverlays, OverlaysHaveZones,
     HandlesHaveZones, HandlesWriteOwnRegions, Mappers
<1> QED BY <1>1, HandleInvNext, PTL DEF Spec

\* Whenever no method is half way, allocated zones and loaded overlays are one
\* to one, tenant by tenant.
THEOREM ZonesAreOverlays == Spec => []ZonesMatchOverlays
<1>1. HandleInv => ZonesMatchOverlays
  BY NoCleaningUnlocked DEF HandleInv, ZoneInv, ZonesHaveOverlays, OverlaysHaveZones,
     ZonesMatchOverlays
<1> QED BY <1>1, HandleInvariance, PTL

\* No MMIO or DMA handle outlives its owner's hold on the zone it reaches.
THEOREM HandlesNeverDangle == Spec => []HandlesReachOwnZones
<1>1. HandleInv => HandlesReachOwnZones
  BY NoCleaningUnlocked DEF HandleInv, ZoneInv, HandlesHaveZones, HandlesReachOwnZones,
     get_tenant_zones
<1> QED BY <1>1, HandleInvariance, PTL

\* Whatever the order of loads, cleanups, failures and restarts, a call of the
\* hypervisor writes its caller's own regions only: any other writer of an
\* allocated region has had the region's UIO device mapped.
THEOREM CallsWriteOwnRegions == Spec => []HandlesWriteOwnRegions
<1>1. HandleInv => HandlesWriteOwnRegions
  BY DEF HandleInv
<1> QED BY <1>1, HandleInvariance, PTL

-----------------------------------------------------------------------------
(* What a cleanup takes and leaves *)

\* A step that leaves the tables and the charges leaves everybody's holdings.
LEMMA UntouchedOthers ==
  ASSUME UNCHANGED <<resources, tracked, pzVars>>, NEW u
  PROVE  SameHoldings(u) /\ SameZones(u)
  BY DEF SameHoldings, SameZones, Owned, get_tenant_zones, pzVars

\* No step of a call served for one tenant changes what another one holds.
LEMMA OthersKeepTheirs ==
  ASSUME SerialInv, NEW w \in Workers, worker[w] # Resting, Step(w),
         NEW u \in Tenants \ {worker[w].tenant}
  PROVE  SameHoldings(u) /\ SameZones(u)
<1>1. PICK t \in Tenants : worker[w].tenant = t /\ Serving(w, t) /\ u # t
  BY RestingIsIdle DEF SerialInv, LockInv, Serving
<1>2. HypervisorTypeOK /\ PRZoneInv
  BY DEF SerialInv, LockInv, HypervisorTypeOK, PRZoneInv
<1>3. CASE UNCHANGED <<resources, tracked, pzVars>>
  BY <1>3, UntouchedOthers
<1>4. ASSUME NEW h \in FreshHandles, NEW type \in Types, NEW z \in ZoneIds \cup {NoZone},
             NEW size \in Nat, NEW pc \in {"reply", "error"},
             Register(w, h, type, z, size, pc)
      PROVE  SameHoldings(u)
  <2>1. h \in Handles /\ h \notin DOMAIN resources /\ pc \in PCs
    BY DEF FreshHandles, PCs
  <2> QED BY <1>1, <1>4, <2>1, RegisterBooks
<1>5. ASSUME NEW h \in FreshHandles, LoadCommits(w, h) PROVE SameHoldings(u) /\ SameZones(u)
  <2>1. zone_id \in ZoneIds
    BY <1>2, <1>5, ReconfiguringFile
       DEF LoadCommits, At, SerialInv, LockInv, LockDiscipline, HypervisorTypeOK
  <2>2. "overlay" \in Types /\ 0 \in Nat
    BY DEF Types
  <2>3. Register(w, h, "overlay", zone_id, 0, "reply")
    BY <1>5 DEF LoadCommits
  <2>4. SameHoldings(u)
    BY <1>4, <2>1, <2>2, <2>3
  <2>5. allocate_zone(t, zone_id, reconf.file, h)
    BY <1>1, <1>5 DEF LoadCommits
  <2>6. SameZones(u)
    BY <1>1, <1>2, <2>5 DEF SameZones, allocate_zone, get_tenant_zones, is_zone_available,
       HypervisorTypeOK, PRZoneTypeOK
  <2> QED BY <2>4, <2>6
<1>6. CASE LoadOverlay(w)
  BY <1>3, <1>5, <1>6 DEF LoadOverlay, LoadRefused, LoadStarts, LoadReconfigures, LoadFails,
     Error
<1>7. CASE SmallCalls(w)
  <2>1. ASSUME UNCHANGED pzVars PROVE SameZones(u)
    BY <2>1 DEF SameZones, get_tenant_zones, pzVars
  <2>2. ASSUME NEW z \in ZoneIds, NEW h \in FreshHandles, CreateMMIO(w, z, h) \/ CreateDMA(w, z, h)
        PROVE  SameHoldings(u) /\ SameZones(u)
    <3>1. "mmio" \in Types /\ "dma" \in Types /\ 0 \in Nat
      BY DEF Types
    <3>2. PICK type \in Types : Register(w, h, type, z, 0, "reply")
      BY <2>2, <3>1 DEF CreateMMIO, CreateDMA
    <3>3. SameHoldings(u)
      BY <1>4, <3>1, <3>2
    <3> QED BY <2>1, <2>2, <3>3 DEF CreateMMIO, CreateDMA
  <2>3. ASSUME NEW size \in BufferSizes, NEW h \in FreshHandles, AllocateBuffer(w, size, h)
        PROVE  SameHoldings(u) /\ SameZones(u)
    <3>1. "buffer" \in Types /\ size \in Nat
      BY HypervisorAssumption DEF Types
    <3>2. Register(w, h, "buffer", NoZone, size, "error")
      BY <2>3 DEF AllocateBuffer
    <3>3. SameHoldings(u)
      BY <1>4, <3>1, <3>2
    <3> QED BY <2>1, <2>3, <3>3 DEF AllocateBuffer
  <2>4. CASE \/ \E z \in ZoneIds : CreateMMIOFails(w, z)
             \/ \E h \in Handles : MMIOWrite(w, h)
             \/ MMIOWriteFails(w)
             \/ \E size \in BufferSizes : AllocateBufferFails(w, size)
             \/ CreateDMAFails(w)
    BY <1>3, <2>4 DEF CreateMMIOFails, MMIOWrite, MMIOWriteFails, AllocateBufferFails,
       CreateDMAFails, Error
  <2> QED BY <1>7, <2>2, <2>3, <2>4 DEF SmallCalls
<1>8. CASE CleanupReleases(w)
  <2>1. release_all_tenant_zones(t)
    BY <1>1, <1>8 DEF CleanupReleases
  <2>2. tenant_zones'[u] = tenant_zones[u]
    BY <1>1, <1>2, <2>1, ReleaseAllReleases
  <2>3. ASSUME NEW z \in DOMAIN allocations, allocations[z].tenant = u
        PROVE  z \in DOMAIN allocations' /\ allocations'[z] = allocations[z]
    <3>1. z \notin ReleasedZones(t)
      BY <1>1, <1>2, <2>3, ReleasedZonesAreTheTenants
    <3> QED BY <2>1, <3>1 DEF release_all_tenant_zones, Restrict
  <2>4. SameHoldings(u)
    BY <1>8 DEF CleanupReleases, SameHoldings, Owned
  <2> QED BY <2>2, <2>3, <2>4 DEF SameZones, get_tenant_zones
<1>9. ASSUME NEW h \in Handles, CleanupRemoves(w, h) PROVE SameHoldings(u) /\ SameZones(u)
  BY <1>1, <1>9, RemoveBooks DEF CleanupRemoves, SameZones, get_tenant_zones, pzVars
<1>10. CASE CleanupReplaces(w)
  BY <1>1, <1>2, <1>10 DEF CleanupReplaces, ReplaceRecord, SameHoldings, SameZones, Owned,
     get_tenant_zones, pzVars, HypervisorTypeOK, TenantManagerTypeOK
<1>11. CASE \/ SummaryBegins(w) \/ SummaryEnds(w) \/ SummaryRaises(w)
            \/ \E z \in ZoneIds : CleanupDecouples(w, z)
            \/ CleanupDecoupled(w) \/ CleanupReturns(w)
  BY <1>3, <1>11 DEF SummaryBegins, SummaryEnds, SummaryRaises, CleanupDecouples,
     CleanupDecoupled, CleanupReturns, Error
<1>12. CASE CleanupResources(w)
  BY <1>8, <1>9, <1>10, <1>11, <1>12 DEF CleanupResources
<1>13. CASE Reply(w) \/ ReplyFails(w) \/ Abort(w)
  BY <1>3, <1>13 DEF Reply, ReplyFails, Abort, Finish, Error
<1> QED BY <1>6, <1>7, <1>12, <1>13 DEF Step

\* A CleanupResources takes its tenant's things and nobody else's: no step of it,
\* whatever its outcome, changes what another tenant holds; and one that answers
\* success to a client that makes one call at a time leaves its tenant without
\* zone, handle or charge.
THEOREM CleanupTakesItsOwn == Spec => CleanupIsComplete
<1>1. ASSUME SerialInv, HandleInv, NEW w \in Workers,
             worker[w] # Resting, worker[w].op = "CleanupResources", Reply(w),
             worker[w].tenant \in SerialTenants
      PROVE  /\ Owned(worker[w].tenant) = {}
             /\ get_tenant_zones(worker[w].tenant) = {}
             /\ tracked[worker[w].tenant] = TenantResources
  <2>1. PICK t \in SerialTenants : worker[w].tenant = t
    BY <1>1
  <2>2. t \in Tenants
    BY HypervisorAssumption
  <2>3. Owned(t) = {} /\ Books(t)
    BY <1>1, <2>1 DEF SerialInv, Stage, Reply
  <2>4. tenant_zones[t] = {}
    <3>1. ASSUME NEW z \in DOMAIN allocations, allocations[z].tenant = t PROVE FALSE
      <4>1. resources[allocations[z].handle].tenant = t
        BY <1>1, <3>1, TenantOfZone DEF HandleInv
      <4>2. allocations[z].handle \in Owned(t)
        BY <1>1, <4>1 DEF HandleInv, ZonesHaveOverlays, Owned
      <4> QED BY <2>3, <4>2
    <3>2. tenant_zones[t] = {z \in DOMAIN allocations : allocations[z].tenant = t}
      BY <1>1, <2>2 DEF SerialInv, LockInv, TablesAgree
    <3> QED BY <3>1, <3>2
  <2>5. tracked[t] = TenantResources
    <3>1. tracked[t] \in [handles : [Types -> SUBSET Handles], total_memory_bytes : Int]
      BY <1>1, <2>2 DEF SerialInv, LockInv, HypervisorTypeOK, TenantManagerTypeOK
    <3>2. /\ \A type \in Types : OwnedOf(t, type) = {}
          /\ BytesOf(t) = {}
      BY <2>3 DEF OwnedOf, BytesOf
    <3>3. \A type \in Types : tracked[t].handles[type] = {}
      BY <2>3, <3>2 DEF Books
    <3>4. tracked[t].total_memory_bytes = 0
      BY <2>3, <3>2, FS_EmptySet DEF Books, Bytes
    <3>5. tracked[t].handles = [type \in Types |-> {}]
      BY <3>1, <3>3
    <3> QED BY <3>1, <3>4, <3>5 DEF TenantResources
  <2> QED BY <2>1, <2>3, <2>4, <2>5 DEF get_tenant_zones
<1> DEFINE Complete ==
      \A w \in Workers :
        (worker[w] # Resting /\ worker[w].op = "CleanupResources" /\ Step(w)) =>
          /\ (Reply(w) /\ worker[w].tenant \in SerialTenants) =>
               /\ Owned(worker[w].tenant) = {}
               /\ get_tenant_zones(worker[w].tenant) = {}
               /\ tracked[worker[w].tenant] = TenantResources
          /\ \A t \in Tenants \ {worker[w].tenant} : SameHoldings(t) /\ SameZones(t)
<1>2. SerialInv /\ HandleInv => Complete
  BY <1>1, OthersKeepTheirs
<1>3. SerialInv /\ HandleInv => [Complete]_vars
  BY <1>2
<1> QED BY <1>3, SerialInvariance, HandleInvariance, PTL DEF CleanupIsComplete

-----------------------------------------------------------------------------
(* Hardware that does not fail *)

\* The device files follow the zones: they are given with the commit, the only
\* step that allocates.
LEMMA UioNext ==
  ASSUME ~HardwareFaults, LockInv, [Next]_vars, UioFollowsAllocation
  PROVE  UioFollowsAllocation'
<1>1. CASE /\ uio_owner' = uio_owner
           /\ DOMAIN allocations' \subseteq DOMAIN allocations
           /\ \A z \in DOMAIN allocations' : allocations'[z] = allocations[z]
  BY <1>1 DEF UioFollowsAllocation
<1>2. ASSUME NEW w \in Workers, NEW h, LoadCommits(w, h) PROVE UioFollowsAllocation'
  <2>1. uio_owner' = [z \in UioDevices |-> IF z = zone_id THEN {worker[w].tenant}
                                                           ELSE uio_owner[z]]
    BY <1>2 DEF LoadCommits
  <2>2. allocations' =
          [x \in DOMAIN allocations \cup {zone_id} |->
             IF x = zone_id
             THEN [tenant |-> worker[w].tenant, bitstream |-> reconf.file, handle |-> h]
             ELSE allocations[x]]
    BY <1>2 DEF LoadCommits, allocate_zone
  <2> QED BY <2>1, <2>2 DEF UioFollowsAllocation
<1>3. ASSUME NEW w \in Workers, CleanupReleases(w) PROVE UioFollowsAllocation'
  BY <1>1, <1>3 DEF CleanupReleases, release_all_tenant_zones, Restrict
<1>4. CASE Restart
  BY <1>4 DEF Restart, UioFollowsAllocation
<1>5. CASE UNCHANGED <<uio_owner, pzVars>>
  BY <1>1, <1>5 DEF pzVars
<1>6. ASSUME NEW w \in Workers, Step(w) PROVE UioFollowsAllocation'
  <2>1. CASE LoadOverlay(w)
    BY <1>2, <1>5, <2>1 DEF LoadOverlay, LoadRefused, LoadStarts, LoadReconfigures,
       LoadFails, Error
  <2>2. CASE SmallCalls(w)
    BY <1>5, <2>2 DEF SmallCalls, CreateMMIO, CreateMMIOFails, MMIOWrite, MMIOWriteFails,
       AllocateBuffer, AllocateBufferFails, CreateDMA, CreateDMAFails, Error
  <2>3. CASE CleanupResources(w)
    BY <1>3, <1>5, <2>3 DEF CleanupResources, SummaryBegins, SummaryEnds, SummaryRaises,
       CleanupDecouples, CleanupDecoupled, CleanupRemoves, CleanupReturns, CleanupReplaces,
       Error
  <2>4. CASE Reply(w) \/ ReplyFails(w) \/ Abort(w)
    BY <1>5, <2>4 DEF Reply, ReplyFails, Abort, Finish, Error
  <2> QED BY <1>6, <2>1, <2>2, <2>3, <2>4 DEF Step
<1>7. ASSUME NEW w \in Workers, NEW t, NEW op, Begin(w, t, op) PROVE UioFollowsAllocation'
  BY <1>5, <1>7 DEF Begin
<1>8. CASE UNCHANGED vars
  BY <1>5, <1>8 DEF vars, rmVars
<1>9. CASE Containers
  BY <1>5, <1>9 DEF Containers, MapUio, UioWrite, rmVars
<1> QED BY <1>4, <1>6, <1>7, <1>8, <1>9 DEF Next

\* Where chown does not fail, the UIO device of an allocated zone belongs to the
\* zone's tenant, whoever had the zone before.
THEOREM DevicesFollowZones ==
  ASSUME ~HardwareFaults
  PROVE  Spec => []UioFollowsAllocation
<1>1. Init => UioFollowsAllocation
  BY DEF Init, PRZoneInit, UioFollowsAllocation
<1>2. LockInv /\ UioFollowsAllocation /\ [Next]_vars => UioFollowsAllocation'
  BY UioNext
<1> QED BY <1>1, <1>2, LockInvariance, PTL DEF Spec

\* Between its release and its decoupling a zone is on the list of the thread
\* that cleans; the zone being reprogrammed is the sequence's affair, which
\* without faults gives up only a zone that has no decoupler.
Isolated(z) ==
  \/ gpio[z] = 1
  \/ reconf # Idle /\ z = zone_id
  \/ \E w \in Workers : At(w, "decouple") /\ z \in worker[w].todo

FreeZonesIsolated ==
  \A z \in Decouplers \ DOMAIN allocations : fabric[z] \in Bitstreams => Isolated(z)

GivesUpUnknownZones == reconf.pc \in {"recover", "false"} => zone_id \notin Decouplers

IsolationInv == FreeZonesIsolated /\ GivesUpUnknownZones

\* A step that touches neither zones nor regions nor a thread that decouples.
LEMMA IsolationFrame ==
  ASSUME IsolationInv, UNCHANGED <<pzVars, dfxVars>>,
         \A v \in Workers : At(v, "decouple") => worker'[v] = worker[v]
  PROVE  IsolationInv'
<1>1. GivesUpUnknownZones'
  BY DEF IsolationInv, GivesUpUnknownZones, dfxVars, zone_id
<1>2. \A z : Isolated(z) => Isolated(z)'
  BY DEF Isolated, At, dfxVars, zone_id
<1> QED BY <1>1, <1>2 DEF IsolationInv, FreeZonesIsolated, pzVars, dfxVars

\* A step of a thread that does not decouple.
LEMMA IsolationQuiet ==
  ASSUME IsolationInv, NEW w \in Workers, ~At(w, "decouple"),
         \A v \in Workers \ {w} : worker'[v] = worker[v],
         UNCHANGED <<pzVars, dfxVars>>
  PROVE  IsolationInv'
  BY IsolationFrame

LEMMA LoadStartsIsolated ==
  ASSUME LockInv, IsolationInv, NEW w \in Workers, NEW req \in Requests, LoadStarts(w, req)
  PROVE  IsolationInv'
<1>1. /\ reconf = Idle
      /\ reconf'.pc = "decouple"
      /\ UNCHANGED <<gpio, fabric, pzVars>>
      /\ \A v \in Workers : At(v, "decouple") => worker'[v] = worker[v]
  BY DEF LoadStarts, BeginReconfigure, Ready, At, Goto, LockInv, HypervisorTypeOK
<1>2. \A z : Isolated(z) => Isolated(z)'
  BY <1>1 DEF Isolated, At
<1> QED BY <1>1, <1>2 DEF IsolationInv, FreeZonesIsolated, GivesUpUnknownZones, pzVars

\* Without faults only a zone without decoupler makes the sequence raise.
LEMMA LoadReconfiguresIsolated ==
  ASSUME ~HardwareFaults, ZoneInv, IsolationInv, NEW w \in Workers, LoadReconfigures(w)
  PROVE  IsolationInv'
<1>1. /\ DFXTypeOK
      /\ ReconfStep
      /\ reconf.pc \in {"download", "couple", "true"} => zone_id \in Decouplers
      /\ reconf.pc = "couple" => fabric[zone_id] = reconf.file
  BY DEF LoadReconfigures, ZoneInv, SequenceInv, LockInv, HypervisorTypeOK
<1>2. reconf # Idle /\ reconf' # Idle /\ zone_id' = zone_id
  BY <1>1, ReconfStepTypes
<1>3. \A z \in Decouplers \ {zone_id} : fabric'[z] = fabric[z] /\ gpio'[z] = gpio[z]
  BY <1>1, SequenceAdvances
<1>4. reconf'.pc \in {"recover", "false"} => zone_id \notin Decouplers
  BY <1>1 DEF ReconfStep, ReconfDecouple, ReconfDownload, ReconfCouple, ReconfRecover,
     RaiseDecoupler, DFXTypeOK, Idle, IsolationInv, GivesUpUnknownZones
<1>5. \A z \in Decouplers : Isolated(z) => Isolated(z)'
  BY <1>2, <1>3 DEF LoadReconfigures, Isolated, At
<1>6. Isolated(zone_id)'
  BY <1>2 DEF Isolated
<1>7. FreeZonesIsolated'
  BY <1>2, <1>3, <1>5, <1>6 DEF LoadReconfigures, IsolationInv, FreeZonesIsolated, pzVars, Isolated
<1> QED BY <1>2, <1>4, <1>7 DEF IsolationInv, GivesUpUnknownZones

\* The sequence is over: its zone has no decoupler, or was just allocated.
LEMMA LoadEndsIsolated ==
  ASSUME LockInv, IsolationInv, NEW w \in Workers,
         LoadFails(w) \/ \E h \in Handles : LoadCommits(w, h)
  PROVE  IsolationInv'
<1>1. /\ reconf' = Idle
      /\ UNCHANGED <<gpio, fabric>>
      /\ \A v \in Workers : At(v, "decouple") => worker'[v] = worker[v]
  BY DEF LoadFails, LoadCommits, ReconfReturns, Register, At, Goto, LockInv, HypervisorTypeOK
<1>2. zone_id \notin Decouplers \ DOMAIN allocations'
  <2>1. CASE LoadFails(w)
    BY <2>1 DEF LoadFails, ReconfReturns, IsolationInv, GivesUpUnknownZones
  <2>2. CASE \E h \in Handles : LoadCommits(w, h)
    BY <2>2 DEF LoadCommits, allocate_zone
  <2> QED BY <2>1, <2>2
<1>3. DOMAIN allocations \subseteq DOMAIN allocations'
  BY DEF LoadFails, LoadCommits, allocate_zone, pzVars
<1>4. \A z : z # zone_id /\ Isolated(z) => Isolated(z)'
  BY <1>1 DEF Isolated, At
<1>5. FreeZonesIsolated'
  BY <1>1, <1>2, <1>3, <1>4 DEF IsolationInv, FreeZonesIsolated
<1> QED BY <1>1, <1>5 DEF IsolationInv, GivesUpUnknownZones, Idle

\* A released zone goes on the list ...
LEMMA CleanupReleasesIsolated ==
  ASSUME LockInv, IsolationInv, NEW w \in Workers, CleanupReleases(w)
  PROVE  IsolationInv'
<1>1. PICK t \in Tenants : worker[w].tenant = t
  BY BusyThread DEF CleanupReleases, At, LockInv, Busy
<1>2. /\ DOMAIN allocations' = DOMAIN allocations \ ReleasedZones(t)
      /\ UNCHANGED dfxVars
      /\ \A v \in Workers : At(v, "decouple") => worker'[v] = worker[v]
  BY <1>1 DEF CleanupReleases, release_all_tenant_zones, Restrict, At, LockInv, HypervisorTypeOK
<1>3. worker'[w].pc = "decouple" /\ worker'[w].todo = ReleasedZones(t)
  <2>1. worker[w] \in Busy
    BY BusyThread DEF CleanupReleases, At, LockInv
  <2> QED BY <1>1, <2>1 DEF CleanupReleases, LockInv, HypervisorTypeOK, Busy
<1>4. \A z \in ReleasedZones(t) : Isolated(z)'
  BY <1>3 DEF Isolated, At
<1>5. \A z : Isolated(z) => Isolated(z)'
  BY <1>2 DEF Isolated, At, dfxVars, zone_id
<1>6. FreeZonesIsolated'
  BY <1>2, <1>4, <1>5 DEF IsolationInv, FreeZonesIsolated, dfxVars
<1> QED BY <1>2, <1>6 DEF IsolationInv, GivesUpUnknownZones, dfxVars, zone_id

\* ... and leaves it isolated.
LEMMA CleanupDecouplesIsolated ==
  ASSUME ~HardwareFaults, LockInv, IsolationInv, NEW w \in Workers, NEW z \in ZoneIds,
         CleanupDecouples(w, z)
  PROVE  IsolationInv'
<1>1. worker[w] \in Busy
  BY BusyThread DEF CleanupDecouples, At, LockInv
<1>2. /\ UNCHANGED <<pzVars, fabric, reconf>>
      /\ \A v \in Workers \ {w} : worker'[v] = worker[v]
      /\ worker'[w].pc = "decouple"
      /\ worker'[w].todo = worker[w].todo \ {z}
  BY <1>1 DEF CleanupDecouples, At, LockInv, HypervisorTypeOK, Busy
<1>3. \A y \in Decouplers : gpio'[y] = IF y = z THEN 1 ELSE gpio[y]
  BY DEF CleanupDecouples, decouple_zone, SetDecoupler, RaiseDecoupler, LockInv,
     HypervisorTypeOK, DFXTypeOK
<1>4. \A y \in Decouplers : Isolated(y) => Isolated(y)'
  BY <1>2, <1>3 DEF Isolated, At, zone_id
<1> QED BY <1>2, <1>4 DEF IsolationInv, FreeZonesIsolated, GivesUpUnknownZones, pzVars, zone_id

\* The static shell is no bitstream.
LEMMA RestartIsolated ==
  ASSUME Restart
  PROVE  IsolationInv'
<1>1. Shell \notin Bitstreams
  BY PlatformAssumption DEF Shell, Bitstreams, NoZone
<1> QED BY <1>1 DEF Restart, IsolationInv, FreeZonesIsolated, GivesUpUnknownZones, Idle

LEMMA IsolationNext ==
  ASSUME ~HardwareFaults, ZoneInv, IsolationInv, [Next]_vars
  PROVE  IsolationInv'
<1>1. LockInv
  BY DEF ZoneInv
<1>2. ASSUME NEW w \in Workers, worker[w].pc # "decouple", Error(w) \/ Finish(w)
      PROVE  IsolationInv'
  BY <1>1, <1>2, IsolationQuiet DEF Error, Finish, Goto, At, LockInv, HypervisorTypeOK
<1>3. ASSUME NEW w \in Workers, Step(w) PROVE IsolationInv'
  <2>1. CASE LoadOverlay(w)
    <3>1. ASSUME NEW h \in FreshHandles, LoadCommits(w, h) PROVE IsolationInv'
      BY <1>1, <3>1, LoadEndsIsolated DEF FreshHandles
    <3>2. ASSUME NEW req \in Requests, LoadRefused(w, req) PROVE IsolationInv'
      BY <1>2, <3>2 DEF LoadRefused, Ready, At
    <3> QED BY <1>1, <2>1, <3>1, <3>2, LoadStartsIsolated, LoadReconfiguresIsolated,
            LoadEndsIsolated DEF LoadOverlay
  <2>2. CASE SmallCalls(w)
    <3>1. worker[w].pc = "lock"
      BY <2>2 DEF SmallCalls, CreateMMIO, CreateMMIOFails, MMIOWrite, MMIOWriteFails,
         AllocateBuffer, AllocateBufferFails, CreateDMA, CreateDMAFails, Ready, At
    <3>2. UNCHANGED <<pzVars, dfxVars>>
      BY <2>2 DEF SmallCalls, CreateMMIO, CreateMMIOFails, MMIOWrite, MMIOWriteFails,
         AllocateBuffer, AllocateBufferFails, CreateDMA, CreateDMAFails, Error
    <3>3. \A v \in Workers \ {w} : worker'[v] = worker[v]
      BY <1>1, <2>2 DEF SmallCalls, CreateMMIO, CreateMMIOFails, MMIOWrite, MMIOWriteFails,
         AllocateBuffer, AllocateBufferFails, CreateDMA, CreateDMAFails, Error, Register,
         Goto, LockInv, HypervisorTypeOK
    <3> QED BY <3>1, <3>2, <3>3, IsolationQuiet DEF At
  <2>3. CASE CleanupResources(w)
    <3>1. ASSUME NEW z \in ZoneIds, CleanupDecouples(w, z) PROVE IsolationInv'
      BY <1>1, <3>1, CleanupDecouplesIsolated
    <3>2. CASE CleanupReleases(w)
      BY <1>1, <3>2, CleanupReleasesIsolated
    <3>3. CASE CleanupDecoupled(w)
      <4>1. /\ worker[w].todo = {}
            /\ \A v \in Workers \ {w} : worker'[v] = worker[v]
            /\ UNCHANGED <<pzVars, dfxVars>>
        BY <1>1, <3>3 DEF CleanupDecoupled, Goto, LockInv, HypervisorTypeOK
      <4>2. \A z : Isolated(z) => Isolated(z)'
        BY <4>1 DEF Isolated, At, dfxVars, zone_id
      <4> QED BY <4>1, <4>2 DEF IsolationInv, FreeZonesIsolated, GivesUpUnknownZones,
              pzVars, dfxVars, zone_id
    <3>4. CASE \E h \in Handles : CleanupRemoves(w, h)
      BY <3>4, IsolationQuiet DEF CleanupRemoves, At
    <3>5. CASE SummaryRaises(w)
      BY <1>2, <3>5 DEF SummaryRaises, At
    <3>6. CASE SummaryBegins(w) \/ SummaryEnds(w) \/ CleanupReturns(w) \/ CleanupReplaces(w)
      BY <1>1, <3>6, IsolationQuiet DEF SummaryBegins, SummaryEnds, CleanupReturns,
         CleanupReplaces, Ready, At, Goto, LockInv, HypervisorTypeOK
    <3> QED BY <2>3, <3>1, <3>2, <3>3, <3>4, <3>5, <3>6 DEF CleanupResources
  <2>4. CASE Reply(w) \/ ReplyFails(w) \/ Abort(w)
    BY <1>2, <2>4 DEF Reply, ReplyFails, Abort, At
  <2> QED BY <1>3, <2>1, <2>2, <2>3, <2>4 DEF Step
<1>4. ASSUME NEW w \in Workers, NEW t, NEW op, Begin(w, t, op) PROVE IsolationInv'
  BY <1>1, <1>4, IsolationQuiet DEF Begin, At, LockInv, HypervisorTypeOK
<1>5. CASE UNCHANGED vars
  BY <1>5, IsolationFrame DEF vars, rmVars
<1>6. CASE Containers
  BY <1>6, IsolationFrame DEF Containers, MapUio, UioWrite, rmVars
<1> QED BY <1>3, <1>4, <1>5, <1>6, RestartIsolated DEF Next

\* Where neither GPIO writes nor downloads fail, a region once programmed that nobody holds
\* is behind a raised decouple line whenever no method is half way.
THEOREM FreeRegionsAreIsolated ==
  ASSUME ~HardwareFaults
  PROVE  Spec => []ReleasedZonesAreIsolated
<1>1. Init => IsolationInv
  <2>1. Shell \notin Bitstreams
    BY PlatformAssumption DEF Shell, Bitstreams, NoZone
  <2> QED BY <2>1 DEF Init, DFXInit, IsolationInv, FreeZonesIsolated, GivesUpUnknownZones, Idle
<1>2. ZoneInv /\ IsolationInv /\ [Next]_vars => IsolationInv'
  BY IsolationNext
<1>3. ZoneInv /\ IsolationInv => ReleasedZonesAreIsolated
  BY DEF ZoneInv, LockInv, LockDiscipline, Critical, At, IsolationInv, FreeZonesIsolated,
         Isolated, ReleasedZonesAreIsolated
<1> QED BY <1>1, <1>2, <1>3, ZoneInvariance, PTL DEF Spec
=============================================================================
