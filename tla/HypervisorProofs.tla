--------------------------- MODULE HypervisorProofs ---------------------------
(***************************************************************************)
(* The safety properties of the hypervisor, for any number of tenants,     *)
(* zones, threads and handles.                                             *)
(***************************************************************************)
EXTENDS HypervisorProperties, ZoneManagerProofs, FiniteSetTheorems

-----------------------------------------------------------------------------
(* First layer: types, the lock, the two tables of the zone manager.         *)

LockInv ==
  /\ HypervisorTypeOK
  /\ IsFiniteSet(DOMAIN resources)
  /\ TablesAgree
  /\ LockDiscipline

\* The parts a step leaves alone keep their types.
LEMMA ZonesUnchanged ==
  ASSUME UNCHANGED pzVars, PRZoneTypeOK
  PROVE  PRZoneTypeOK'
  BY DEF pzVars, PRZoneTypeOK

LEMMA DecouplersUnchanged ==
  ASSUME UNCHANGED dfxVars, DFXTypeOK
  PROVE  DFXTypeOK'
  BY DEF dfxVars, DFXTypeOK

\* A thread that is doing something has a whole record.
LEMMA BusyThread ==
  ASSUME HypervisorTypeOK, NEW w \in Workers, worker[w].pc # "idle"
  PROVE  worker[w] \in Busy
  BY DEF HypervisorTypeOK, Resting

\* Moving one thread to another step.
LEMMA GotoTypes ==
  ASSUME HypervisorTypeOK, NEW w \in Workers, worker[w].pc # "idle",
         NEW pc \in PCs, Goto(w, pc)
  PROVE  /\ worker' \in [Workers -> Busy \cup {Resting}]
         /\ worker'[w].pc = pc
         /\ worker'[w].tenant = worker[w].tenant
         /\ worker'[w].todo = worker[w].todo
         /\ \A v \in Workers \ {w} : worker'[v] = worker[v]
<1>1. worker[w] \in Busy
  BY BusyThread
<1> QED BY <1>1 DEF Goto, HypervisorTypeOK, Busy

\* A step that touches nothing but a thread outside the critical steps, and
\* leaves it outside, preserves the first layer.
LEMMA QuietStep ==
  ASSUME LockInv, NEW w \in Workers,
         worker[w].pc \notin Critical, worker'[w].pc \notin Critical,
         worker' \in [Workers -> Busy \cup {Resting}],
         \A v \in Workers \ {w} : worker'[v] = worker[v],
         UNCHANGED <<resources, rm_lock, uio_owner, writers, pzVars, dfxVars, tracked>>,
         UNCHANGED mapped
  PROVE  LockInv'
<1>1. HypervisorTypeOK'
  BY DEF LockInv, HypervisorTypeOK, PRZoneTypeOK, DFXTypeOK, TenantManagerTypeOK,
         pzVars, dfxVars
<1>2. TablesAgree' /\ IsFiniteSet(DOMAIN resources)'
  BY DEF LockInv, TablesAgree, pzVars
<1>3. LockDiscipline'
  BY DEF LockInv, LockDiscipline, At, Critical, dfxVars
<1> QED BY <1>1, <1>2, <1>3 DEF LockInv

\* Charging and discharging keep the records of the tenants well formed.
LEMMA ChargeTypes ==
  ASSUME TenantManagerTypeOK, NEW t \in Tenants, NEW type \in Types,
         NEW h \in Handles, NEW size \in Nat,
         Charge(t, type, h, size) \/ Discharge(t, type, h, size)
  PROVE  TenantManagerTypeOK'
<1>1. /\ tracked[t].handles \in [Types -> SUBSET Handles]
      /\ tracked[t].total_memory_bytes \in Int
  BY DEF TenantManagerTypeOK
<1>2. \A u \in Tenants \ {t} : tracked'[u] = tracked[u]
  BY DEF Charge, Discharge, TenantManagerTypeOK
<1>3. DOMAIN tracked' = Tenants /\ tracked' = [u \in Tenants |-> tracked'[u]]
  BY DEF Charge, Discharge, TenantManagerTypeOK
<1>4. tracked'[t] \in [handles : [Types -> SUBSET Handles], total_memory_bytes : Int]
  <2>1. CASE Charge(t, type, h, size)
    <3>1. tracked'[t] = [handles |-> [tracked[t].handles EXCEPT ![type] = @ \cup {h}],
                         total_memory_bytes |-> tracked[t].total_memory_bytes + size]
      BY <2>1 DEF Charge, TenantManagerTypeOK
    <3> QED BY <3>1, <1>1
  <2>2. CASE Discharge(t, type, h, size)
    <3>1. tracked'[t] = [handles |-> [tracked[t].handles EXCEPT ![type] = @ \ {h}],
                         total_memory_bytes |-> tracked[t].total_memory_bytes - size]
      BY <2>2 DEF Discharge, TenantManagerTypeOK
    <3> QED BY <3>1, <1>1
  <2> QED BY <2>1, <2>2
<1> QED BY <1>2, <1>3, <1>4 DEF TenantManagerTypeOK

\* What a step that registers a handle does to the table and to its thread.
Registered(w, h, type, z, size, pc) ==
  /\ DOMAIN resources' = DOMAIN resources \cup {h}
  /\ resources' \in [DOMAIN resources' -> ManagedResource]
  /\ IsFiniteSet(DOMAIN resources')
  /\ resources'[h] = [tenant |-> worker[w].tenant, type |-> type,
                      zone |-> z, size |-> size]
  /\ \A x \in DOMAIN resources \ {h} : resources'[x] = resources[x]
  /\ TenantManagerTypeOK'
  /\ worker' \in [Workers -> Busy \cup {Resting}]
  /\ worker'[w].pc = pc
  /\ \A v \in Workers \ {w} : worker'[v] = worker[v]

LEMMA RegisterTypes ==
  ASSUME LockInv, NEW w \in Workers, worker[w].pc # "idle",
         NEW h \in Handles, NEW type \in Types, NEW z \in ZoneIds \cup {NoZone},
         NEW size \in Nat, NEW pc \in PCs,
         Register(w, h, type, z, size, pc)
  PROVE  Registered(w, h, type, z, size, pc)
<1>1. worker[w] \in Busy /\ worker[w].tenant \in Tenants
  BY BusyThread DEF LockInv, Busy
<1>2. /\ DOMAIN resources' = DOMAIN resources \cup {h}
      /\ resources'[h] = [tenant |-> worker[w].tenant, type |-> type,
                          zone |-> z, size |-> size]
      /\ \A x \in DOMAIN resources \ {h} : resources'[x] = resources[x]
  BY DEF Register
<1>3. resources' \in [DOMAIN resources' -> ManagedResource]
  BY <1>1, <1>2 DEF Register, LockInv, HypervisorTypeOK, ManagedResource
<1>4. IsFiniteSet(DOMAIN resources')
  BY <1>2, FS_AddElement DEF LockInv
<1>5. TenantManagerTypeOK'
  BY <1>1, ChargeTypes DEF Register, LockInv, HypervisorTypeOK
<1>6. /\ worker' \in [Workers -> Busy \cup {Resting}]
      /\ worker'[w].pc = pc
      /\ \A v \in Workers \ {w} : worker'[v] = worker[v]
  BY <1>1 DEF Register, LockInv, HypervisorTypeOK, Busy
<1> QED BY <1>2, <1>3, <1>4, <1>5, <1>6 DEF Registered

-----------------------------------------------------------------------------

\* The initial state satisfies the first layer.
LEMMA LockInvInit == Init => LockInv
<1> SUFFICES ASSUME Init PROVE LockInv
  OBVIOUS
<1>1. HypervisorTypeOK
  BY DEF Init, PRZoneInit, DFXInit, TenantManagerInit, HypervisorTypeOK, PRZoneTypeOK,
         DFXTypeOK, TenantManagerTypeOK, TenantResources, Contents
<1>2. IsFiniteSet(DOMAIN resources)
  BY FS_EmptySet DEF Init
<1>3. TablesAgree
  BY DEF Init, PRZoneInit, TablesAgree
<1>4. LockDiscipline
  BY DEF Init, DFXInit, LockDiscipline, Critical, At, Resting, Idle
<1> QED BY <1>1, <1>2, <1>3, <1>4 DEF LockInv

\* The calls that finish under the lock in one step, and the steps of a call
\* that need no lock.
LEMMA ErrorPreserves ==
  ASSUME LockInv, NEW w \in Workers, worker[w].pc \notin Critical \cup {"idle"}, Error(w),
         UNCHANGED mapped
  PROVE  LockInv'
  BY QuietStep, GotoTypes DEF Error, LockInv, PCs, Critical

LEMMA FinishPreserves ==
  ASSUME LockInv, NEW w \in Workers, worker[w].pc \notin Critical, Finish(w),
         UNCHANGED mapped
  PROVE  LockInv'
<1>1. /\ worker' \in [Workers -> Busy \cup {Resting}]
      /\ worker'[w].pc = "idle"
      /\ \A v \in Workers \ {w} : worker'[v] = worker[v]
  BY DEF Finish, LockInv, HypervisorTypeOK, Resting
<1> QED BY <1>1, QuietStep DEF Finish, Critical

LEMMA BeginPreserves ==
  ASSUME LockInv, NEW w \in Workers, NEW t \in Tenants, NEW op \in Calls, Begin(w, t, op)
  PROVE  LockInv'
<1>1. /\ worker' \in [Workers -> Busy \cup {Resting}]
      /\ worker'[w].pc = "lock"
      /\ \A v \in Workers \ {w} : worker'[v] = worker[v]
  BY DEF Begin, LockInv, HypervisorTypeOK, Busy, PCs
<1> QED BY <1>1, QuietStep DEF Begin, Critical, At

\* A call that registers a handle and does not take the lock.
LEMMA RegisterPreserves ==
  ASSUME LockInv, NEW w \in Workers, worker[w].pc = "lock",
         NEW h \in Handles, NEW type \in Types, NEW z \in ZoneIds \cup {NoZone},
         NEW size \in Nat, NEW pc \in {"reply", "error"},
         Register(w, h, type, z, size, pc),
         UNCHANGED <<rm_lock, uio_owner, writers, pzVars, dfxVars>>,
         UNCHANGED mapped
  PROVE  LockInv'
<1>1. /\ pc \in PCs
      /\ pc \notin Critical
      /\ worker[w].pc \notin Critical
      /\ worker[w].pc # "idle"
  BY DEF PCs, Critical
<1>2. Registered(w, h, type, z, size, pc)
  BY <1>1, RegisterTypes
<1>3. HypervisorTypeOK'
  <2>1. PRZoneTypeOK'
    BY ZonesUnchanged DEF LockInv, HypervisorTypeOK
  <2>3. DFXTypeOK'
    BY DecouplersUnchanged DEF LockInv, HypervisorTypeOK
  <2>2. DOMAIN resources' \subseteq Handles
    BY <1>2 DEF Registered, LockInv, HypervisorTypeOK
  <2> QED BY <1>2, <2>1, <2>2, <2>3 DEF Registered, LockInv, HypervisorTypeOK
<1>4. TablesAgree'
  BY DEF LockInv, TablesAgree, pzVars
<1>5. LockDiscipline'
  BY <1>1, <1>2 DEF Registered, LockInv, LockDiscipline, At, Critical, dfxVars
<1> QED BY <1>2, <1>3, <1>4, <1>5 DEF Registered, LockInv

-----------------------------------------------------------------------------
(* The three ways a step treats the lock. *)

LEMMA AcquireDiscipline ==
  ASSUME LockDiscipline, NEW w \in Workers,
         rm_lock = {}, rm_lock' = {w}, worker'[w].pc \in Critical,
         \A v \in Workers \ {w} : worker'[v] = worker[v],
         reconf' # Idle <=> worker'[w].pc = "reconfigure"
  PROVE  LockDiscipline'
<1>1. \A v \in Workers : worker[v].pc \notin Critical
  BY DEF LockDiscipline
<1>2. \A v \in Workers : worker'[v].pc \in Critical <=> v = w
  BY <1>1
<1>3. \A v \in Workers : rm_lock' = {v} <=> v = w
  OBVIOUS
<1>4. \A v \in Workers : worker'[v].pc = "reconfigure" => v = w
  BY <1>2 DEF Critical
<1> QED BY <1>2, <1>3, <1>4 DEF LockDiscipline, At

\* The holder goes from one critical step to another of the same method.
LEMMA HoldDiscipline ==
  ASSUME LockDiscipline, NEW w \in Workers,
         rm_lock' = rm_lock, worker[w].pc \in Critical, worker'[w].pc \in Critical,
         \A v \in Workers \ {w} : worker'[v] = worker[v],
         reconf' # Idle <=> worker'[w].pc = "reconfigure"
  PROVE  LockDiscipline'
<1>1. rm_lock = {w} /\ \A v \in Workers : worker[v].pc \in Critical <=> v = w
  BY DEF LockDiscipline
<1>2. \A v \in Workers : worker'[v].pc \in Critical <=> v = w
  BY <1>1
<1>3. \A v \in Workers : rm_lock' = {v} <=> v = w
  BY <1>1
<1>4. \A v \in Workers : worker'[v].pc = "reconfigure" => v = w
  BY <1>2 DEF Critical
<1> QED BY <1>2, <1>3, <1>4 DEF LockDiscipline, At

LEMMA ReleaseDiscipline ==
  ASSUME LockDiscipline, NEW w \in Workers,
         rm_lock' = {}, worker[w].pc \in Critical, worker'[w].pc \notin Critical,
         \A v \in Workers \ {w} : worker'[v] = worker[v],
         reconf' = Idle
  PROVE  LockDiscipline'
<1>1. \A v \in Workers : worker[v].pc \in Critical <=> v = w
  BY DEF LockDiscipline
<1>2. \A v \in Workers : worker'[v].pc \notin Critical
  BY <1>1
<1> QED BY <1>2 DEF LockDiscipline, At, Critical
-----------------------------------------------------------------------------
(* LoadOverlay *)

\* The search proposes a zone whose file exists, so the file is a bitstream.
LEMMA LoadedFileIsABitstream ==
  ASSUME NEW t \in Tenants, NEW req \in Requests, ZoneFor(t, req) # NoZone
  PROVE  /\ <<ZoneFor(t, req), req.base>> \in Bitstreams
         /\ ZoneFor(t, req) \in ZoneIds
         /\ ZoneFor(t, req) \notin DOMAIN allocations
<1>1. /\ ZoneFor(t, req) \in ZoneIds
      /\ is_zone_available(ZoneFor(t, req))
      /\ <<ZoneFor(t, req), req.base>> \in Files
  BY SearchProposesLoadable DEF ZoneFor
<1> QED BY <1>1, PlatformAssumption DEF is_zone_available

LEMMA LoadStartsPreserves ==
  ASSUME LockInv, NEW w \in Workers, NEW req \in Requests, LoadStarts(w, req),
         UNCHANGED mapped
  PROVE  LockInv'
<1>1. /\ worker[w] \in Busy
      /\ worker[w].pc # "idle"
      /\ worker[w].tenant \in Tenants
      /\ "reconfigure" \in PCs
      /\ Goto(w, "reconfigure")
  BY BusyThread DEF LoadStarts, Ready, At, LockInv, PCs, Busy
<1>2. /\ worker' \in [Workers -> Busy \cup {Resting}]
      /\ worker'[w].pc = "reconfigure"
      /\ \A v \in Workers \ {w} : worker'[v] = worker[v]
  BY <1>1, GotoTypes DEF LockInv
<1>3. PRZoneTypeOK' /\ TablesAgree' /\ TenantManagerTypeOK'
  BY DEF LoadStarts, pzVars, LockInv, HypervisorTypeOK, PRZoneTypeOK, TablesAgree,
         TenantManagerTypeOK
<1>4. <<ZoneFor(worker[w].tenant, req), req.base>> \in Bitstreams
  BY <1>1, LoadedFileIsABitstream DEF LoadStarts, MayLoad
<1>5. DFXTypeOK' /\ reconf' # Idle
  BY <1>4 DEF LoadStarts, BeginReconfigure, LockInv, HypervisorTypeOK, DFXTypeOK,
     ReconfPCs, Idle
<1>6. HypervisorTypeOK' /\ IsFiniteSet(DOMAIN resources)'
  BY <1>2, <1>3, <1>5 DEF LoadStarts, LockInv, HypervisorTypeOK
<1>7. LockDiscipline'
  BY <1>2, <1>5, AcquireDiscipline DEF LoadStarts, Ready, LockInv, Critical
<1> QED BY <1>3, <1>6, <1>7 DEF LockInv

LEMMA LoadReconfiguresPreserves ==
  ASSUME LockInv, NEW w \in Workers, LoadReconfigures(w),
         UNCHANGED mapped
  PROVE  LockInv'
<1>1. DFXTypeOK' /\ reconf' # Idle
  BY ReconfStepTypes DEF LoadReconfigures, LockInv, HypervisorTypeOK
<1>2. PRZoneTypeOK' /\ TablesAgree' /\ TenantManagerTypeOK'
  BY DEF LoadReconfigures, pzVars, LockInv, HypervisorTypeOK, PRZoneTypeOK, TablesAgree,
         TenantManagerTypeOK
<1>3. writers' \in [Decouplers -> SUBSET Tenants]
  BY DEF LoadReconfigures, LockInv, HypervisorTypeOK
<1>4. HypervisorTypeOK' /\ IsFiniteSet(DOMAIN resources)'
  BY <1>1, <1>2, <1>3 DEF LoadReconfigures, LockInv, HypervisorTypeOK
<1>5. LockDiscipline'
  BY <1>1, HoldDiscipline DEF LoadReconfigures, At, LockInv, Critical
<1> QED BY <1>2, <1>4, <1>5 DEF LockInv

LEMMA LoadFailsPreserves ==
  ASSUME LockInv, NEW w \in Workers, LoadFails(w),
         UNCHANGED mapped
  PROVE  LockInv'
<1>1. /\ worker[w].pc # "idle"
      /\ "error" \in PCs
      /\ Goto(w, "error")
  BY DEF LoadFails, At, PCs
<1>2. /\ worker' \in [Workers -> Busy \cup {Resting}]
      /\ worker'[w].pc = "error"
      /\ \A v \in Workers \ {w} : worker'[v] = worker[v]
  BY <1>1, GotoTypes DEF LockInv
<1>3. PRZoneTypeOK' /\ TablesAgree' /\ TenantManagerTypeOK'
  BY DEF LoadFails, pzVars, LockInv, HypervisorTypeOK, PRZoneTypeOK, TablesAgree,
         TenantManagerTypeOK
<1>4. DFXTypeOK'
  BY DEF LoadFails, ReconfReturns, LockInv, HypervisorTypeOK, DFXTypeOK
<1>5. HypervisorTypeOK' /\ IsFiniteSet(DOMAIN resources)'
  BY <1>2, <1>3, <1>4 DEF LoadFails, LockInv, HypervisorTypeOK
<1>6. LockDiscipline'
  BY <1>2, ReleaseDiscipline DEF LoadFails, ReconfReturns, At, LockInv, Critical
<1> QED BY <1>3, <1>5, <1>6 DEF LockInv

\* What the commit of a load uses of the sequence it waited for.
LEMMA ReconfiguringFile ==
  ASSUME DFXTypeOK, reconf # Idle
  PROVE  /\ reconf.file \in Bitstreams
         /\ zone_id \in ZoneIds
         /\ reconf.pc \in ReconfPCs
  BY DEF DFXTypeOK, zone_id, Bitstreams

LEMMA LoadCommitsPreserves ==
  ASSUME LockInv, NEW w \in Workers, NEW h \in Handles, LoadCommits(w, h),
         UNCHANGED mapped
  PROVE  LockInv'
<1>1. /\ worker[w] \in Busy
      /\ worker[w].pc # "idle"
      /\ worker[w].tenant \in Tenants
      /\ "reply" \in PCs
      /\ "overlay" \in Types
  BY BusyThread DEF LoadCommits, At, LockInv, PCs, Busy, Types
<1>2. reconf.file \in Bitstreams /\ zone_id \in ZoneIds
  BY ReconfiguringFile DEF LoadCommits, At, LockInv, LockDiscipline, HypervisorTypeOK
<1>3. Registered(w, h, "overlay", zone_id, 0, "reply")
  BY <1>1, <1>2, RegisterTypes DEF LoadCommits
<1>4. PRZoneTypeOK' /\ TablesAgree'
  BY <1>1, <1>2, AllocatePreserves DEF LoadCommits, LockInv, HypervisorTypeOK, PRZoneInv
<1>5. DFXTypeOK'
  BY DEF LoadCommits, ReconfReturns, LockInv, HypervisorTypeOK, DFXTypeOK
<1>6. uio_owner' \in [UioDevices -> SUBSET Tenants]
  BY <1>1 DEF LoadCommits, LockInv, HypervisorTypeOK
<1>7. DOMAIN resources' \subseteq Handles
  BY <1>3 DEF Registered, LockInv, HypervisorTypeOK
<1>8. HypervisorTypeOK' /\ IsFiniteSet(DOMAIN resources)'
  BY <1>3, <1>4, <1>5, <1>6, <1>7 DEF Registered, LoadCommits, LockInv, HypervisorTypeOK
<1>9. LockDiscipline'
  BY <1>3, ReleaseDiscipline
     DEF Registered, LoadCommits, ReconfReturns, At, LockInv, Critical
<1> QED BY <1>4, <1>8, <1>9 DEF LockInv

-----------------------------------------------------------------------------
(* The calls that finish under the lock in one step. *)

LEMMA CreateMMIOPreserves ==
  ASSUME LockInv, NEW w \in Workers, NEW z \in ZoneIds, NEW h \in Handles,
         CreateMMIO(w, z, h),
         UNCHANGED mapped
  PROVE  LockInv'
<1>1. "mmio" \in Types /\ 0 \in Nat
  BY DEF Types
<1> QED BY <1>1, RegisterPreserves DEF CreateMMIO, Ready, At

LEMMA CreateDMAPreserves ==
  ASSUME LockInv, NEW w \in Workers, NEW z \in ZoneIds, NEW h \in Handles,
         CreateDMA(w, z, h),
         UNCHANGED mapped
  PROVE  LockInv'
<1>1. "dma" \in Types /\ 0 \in Nat
  BY DEF Types
<1> QED BY <1>1, RegisterPreserves DEF CreateDMA, Ready, At

LEMMA AllocateBufferPreserves ==
  ASSUME LockInv, NEW w \in Workers, NEW size \in BufferSizes, NEW h \in Handles,
         AllocateBuffer(w, size, h),
         UNCHANGED mapped
  PROVE  LockInv'
<1>1. "buffer" \in Types /\ size \in Nat
  BY HypervisorAssumption DEF Types
<1> QED BY <1>1, RegisterPreserves DEF AllocateBuffer, Ready, At

LEMMA MMIOWritePreserves ==
  ASSUME LockInv, NEW w \in Workers, NEW h \in Handles, MMIOWrite(w, h),
         UNCHANGED mapped
  PROVE  LockInv'
<1>1. /\ worker[w] \in Busy
      /\ worker[w].pc = "lock"
      /\ worker[w].tenant \in Tenants
      /\ "reply" \in PCs
      /\ Goto(w, "reply")
  BY BusyThread DEF MMIOWrite, Ready, At, LockInv, PCs, Busy
<1>2. /\ worker' \in [Workers -> Busy \cup {Resting}]
      /\ worker'[w].pc = "reply"
      /\ \A v \in Workers \ {w} : worker'[v] = worker[v]
  BY <1>1, GotoTypes DEF LockInv
<1>3. PRZoneTypeOK' /\ DFXTypeOK'
  BY ZonesUnchanged, DecouplersUnchanged DEF MMIOWrite, LockInv, HypervisorTypeOK
<1>4. TablesAgree' /\ TenantManagerTypeOK'
  BY DEF MMIOWrite, pzVars, LockInv, HypervisorTypeOK, TablesAgree, TenantManagerTypeOK
<1>5. writers' \in [Decouplers -> SUBSET Tenants]
  BY <1>1 DEF MMIOWrite, LockInv, HypervisorTypeOK
<1>6. HypervisorTypeOK' /\ IsFiniteSet(DOMAIN resources)'
  BY <1>2, <1>3, <1>4, <1>5 DEF MMIOWrite, LockInv, HypervisorTypeOK
<1>7. LockDiscipline'
  BY <1>1, <1>2 DEF MMIOWrite, dfxVars, LockInv, LockDiscipline, At, Critical
<1> QED BY <1>4, <1>6, <1>7 DEF LockInv

-----------------------------------------------------------------------------
(* CleanupResources *)

LEMMA SummaryBeginsPreserves ==
  ASSUME LockInv, NEW w \in Workers, SummaryBegins(w),
         UNCHANGED mapped
  PROVE  LockInv'
<1>1. /\ worker[w] \in Busy
      /\ worker[w].pc = "lock"
      /\ Cardinality(DOMAIN resources) \in Nat
  BY BusyThread, FS_CardinalityType DEF SummaryBegins, Ready, At, LockInv
<1>2. /\ worker' \in [Workers -> Busy \cup {Resting}]
      /\ worker'[w].pc = "iterate"
      /\ \A v \in Workers \ {w} : worker'[v] = worker[v]
  BY <1>1 DEF SummaryBegins, LockInv, HypervisorTypeOK, Busy, PCs
<1> QED BY <1>1, <1>2, QuietStep DEF SummaryBegins, Critical

LEMMA SummaryEndsPreserves ==
  ASSUME LockInv, NEW w \in Workers, SummaryEnds(w),
         UNCHANGED mapped
  PROVE  LockInv'
<1>1. worker[w].pc = "iterate" /\ "cleanup" \in PCs /\ Goto(w, "cleanup")
  BY DEF SummaryEnds, At, PCs
<1>2. /\ worker' \in [Workers -> Busy \cup {Resting}]
      /\ worker'[w].pc = "cleanup"
      /\ \A v \in Workers \ {w} : worker'[v] = worker[v]
  BY <1>1, GotoTypes DEF LockInv
<1> QED BY <1>1, <1>2, QuietStep DEF SummaryEnds, Critical

LEMMA CleanupReleasesPreserves ==
  ASSUME LockInv, NEW w \in Workers, CleanupReleases(w),
         UNCHANGED mapped
  PROVE  LockInv'
<1>1. /\ worker[w] \in Busy
      /\ worker[w].tenant \in Tenants
  BY BusyThread DEF CleanupReleases, At, LockInv, Busy
<1>2. PRZoneTypeOK' /\ TablesAgree'
  BY <1>1, ReleaseAllPreserves DEF CleanupReleases, LockInv, HypervisorTypeOK, PRZoneInv
<1>3. ReleasedZones(worker[w].tenant) \subseteq ZoneIds
  BY DEF ReleasedZones, LockInv, HypervisorTypeOK, PRZoneTypeOK
<1>4. /\ worker' \in [Workers -> Busy \cup {Resting}]
      /\ worker'[w].pc = "decouple"
      /\ \A v \in Workers \ {w} : worker'[v] = worker[v]
  BY <1>1, <1>3 DEF CleanupReleases, LockInv, HypervisorTypeOK, Busy, PCs
<1>5. DFXTypeOK' /\ reconf' = Idle
  BY DecouplersUnchanged
     DEF CleanupReleases, LockInv, HypervisorTypeOK, LockDiscipline, dfxVars, At, Critical
<1>6. HypervisorTypeOK' /\ IsFiniteSet(DOMAIN resources)'
  BY <1>2, <1>4, <1>5
     DEF CleanupReleases, LockInv, HypervisorTypeOK, TenantManagerTypeOK
<1>7. LockDiscipline'
  BY <1>4, <1>5, AcquireDiscipline DEF CleanupReleases, LockInv, Critical
<1> QED BY <1>2, <1>6, <1>7 DEF LockInv

\* The holder of the lock in cleanup: no reconfiguration is in progress.
LEMMA CleanupIsAlone ==
  ASSUME LockInv, NEW w \in Workers, worker[w].pc \in {"decouple", "handles"}
  PROVE  /\ reconf = Idle
         /\ rm_lock = {w}
         /\ worker[w] \in Busy
         /\ worker[w].tenant \in Tenants
         /\ worker[w].todo \subseteq ZoneIds
<1>1. rm_lock = {w} /\ \A v \in Workers : worker[v].pc \in Critical => v = w
  BY DEF LockInv, LockDiscipline, Critical
<1>2. reconf = Idle
  BY <1>1 DEF LockInv, LockDiscipline, Critical, At
<1>3. worker[w] \in Busy
  BY BusyThread DEF LockInv
<1> QED BY <1>1, <1>2, <1>3 DEF Busy

LEMMA CleanupDecouplesPreserves ==
  ASSUME LockInv, NEW w \in Workers, NEW z \in ZoneIds, CleanupDecouples(w, z),
         UNCHANGED mapped
  PROVE  LockInv'
<1>1. /\ reconf = Idle
      /\ worker[w] \in Busy
      /\ worker[w].pc = "decouple"
      /\ worker[w].todo \subseteq ZoneIds
  BY CleanupIsAlone DEF CleanupDecouples, At
<1>2. /\ worker' \in [Workers -> Busy \cup {Resting}]
      /\ worker'[w].pc = "decouple"
      /\ \A v \in Workers \ {w} : worker'[v] = worker[v]
  BY <1>1 DEF CleanupDecouples, LockInv, HypervisorTypeOK, Busy
<1>3. PRZoneTypeOK'
  BY ZonesUnchanged DEF CleanupDecouples, LockInv, HypervisorTypeOK
<1>4. TablesAgree' /\ TenantManagerTypeOK'
  BY DEF CleanupDecouples, pzVars, LockInv, HypervisorTypeOK, TablesAgree,
         TenantManagerTypeOK
<1>5. DFXTypeOK'
  BY DEF CleanupDecouples, decouple_zone, SetDecoupler, RaiseDecoupler, LockInv,
         HypervisorTypeOK, DFXTypeOK
<1>6. HypervisorTypeOK' /\ IsFiniteSet(DOMAIN resources)'
  BY <1>2, <1>3, <1>4, <1>5 DEF CleanupDecouples, LockInv, HypervisorTypeOK
<1>7. LockDiscipline'
  BY <1>1, <1>2, HoldDiscipline DEF CleanupDecouples, LockInv, Critical
<1> QED BY <1>4, <1>6, <1>7 DEF LockInv

LEMMA CleanupDecoupledPreserves ==
  ASSUME LockInv, NEW w \in Workers, CleanupDecoupled(w),
         UNCHANGED mapped
  PROVE  LockInv'
<1>1. /\ reconf = Idle
      /\ worker[w].pc = "decouple"
      /\ "handles" \in PCs
      /\ Goto(w, "handles")
  BY CleanupIsAlone DEF CleanupDecoupled, At, PCs
<1>2. /\ worker' \in [Workers -> Busy \cup {Resting}]
      /\ worker'[w].pc = "handles"
      /\ \A v \in Workers \ {w} : worker'[v] = worker[v]
  BY <1>1, GotoTypes DEF LockInv
<1>3. PRZoneTypeOK' /\ DFXTypeOK' /\ reconf' = Idle
  BY <1>1, ZonesUnchanged, DecouplersUnchanged
     DEF CleanupDecoupled, LockInv, HypervisorTypeOK, dfxVars
<1>4. TablesAgree' /\ TenantManagerTypeOK'
  BY DEF CleanupDecoupled, pzVars, LockInv, HypervisorTypeOK, TablesAgree,
         TenantManagerTypeOK
<1>5. HypervisorTypeOK' /\ IsFiniteSet(DOMAIN resources)'
  BY <1>2, <1>3, <1>4 DEF CleanupDecoupled, LockInv, HypervisorTypeOK
<1>6. LockDiscipline'
  BY <1>1, <1>2, <1>3, HoldDiscipline DEF CleanupDecoupled, LockInv, Critical
<1> QED BY <1>4, <1>5, <1>6 DEF LockInv

LEMMA CleanupRemovesPreserves ==
  ASSUME LockInv, NEW w \in Workers, NEW h \in Handles, CleanupRemoves(w, h),
         UNCHANGED mapped
  PROVE  LockInv'
<1>1. worker[w].tenant \in Tenants
  BY CleanupIsAlone DEF CleanupRemoves, At
<1>2. resources[h] \in ManagedResource
  BY DEF CleanupRemoves, Owned, LockInv, HypervisorTypeOK
<1>3. resources[h].type \in Types /\ resources[h].size \in Nat
  BY <1>2 DEF ManagedResource
<1>4. TenantManagerTypeOK'
  BY <1>1, <1>3, ChargeTypes DEF CleanupRemoves, LockInv, HypervisorTypeOK
<1>5. /\ DOMAIN resources' \subseteq DOMAIN resources
      /\ resources' \in [DOMAIN resources' -> ManagedResource]
  BY DEF CleanupRemoves, Restrict, LockInv, HypervisorTypeOK
<1>6. IsFiniteSet(DOMAIN resources)'
  BY <1>5, FS_Subset DEF LockInv
<1>7. PRZoneTypeOK' /\ DFXTypeOK'
  BY ZonesUnchanged, DecouplersUnchanged DEF CleanupRemoves, LockInv, HypervisorTypeOK
<1>8. TablesAgree' /\ LockDiscipline'
  BY DEF CleanupRemoves, pzVars, dfxVars, LockInv, TablesAgree, LockDiscipline, At
<1>9. HypervisorTypeOK'
  BY <1>4, <1>5, <1>7 DEF CleanupRemoves, LockInv, HypervisorTypeOK
<1> QED BY <1>6, <1>8, <1>9 DEF LockInv

LEMMA CleanupReturnsPreserves ==
  ASSUME LockInv, NEW w \in Workers, CleanupReturns(w),
         UNCHANGED mapped
  PROVE  LockInv'
<1>1. /\ reconf = Idle
      /\ worker[w].pc = "handles"
      /\ "replace" \in PCs
      /\ Goto(w, "replace")
  BY CleanupIsAlone DEF CleanupReturns, At, PCs
<1>2. /\ worker' \in [Workers -> Busy \cup {Resting}]
      /\ worker'[w].pc = "replace"
      /\ \A v \in Workers \ {w} : worker'[v] = worker[v]
  BY <1>1, GotoTypes DEF LockInv
<1>3. PRZoneTypeOK' /\ DFXTypeOK' /\ reconf' = Idle
  BY <1>1, ZonesUnchanged, DecouplersUnchanged
     DEF CleanupReturns, LockInv, HypervisorTypeOK, dfxVars
<1>4. TablesAgree' /\ TenantManagerTypeOK'
  BY DEF CleanupReturns, pzVars, LockInv, HypervisorTypeOK, TablesAgree,
         TenantManagerTypeOK
<1>5. HypervisorTypeOK' /\ IsFiniteSet(DOMAIN resources)'
  BY <1>2, <1>3, <1>4 DEF CleanupReturns, LockInv, HypervisorTypeOK
<1>6. LockDiscipline'
  BY <1>1, <1>2, <1>3, ReleaseDiscipline DEF CleanupReturns, LockInv, Critical
<1> QED BY <1>4, <1>5, <1>6 DEF LockInv

LEMMA CleanupReplacesPreserves ==
  ASSUME LockInv, NEW w \in Workers, CleanupReplaces(w),
         UNCHANGED mapped
  PROVE  LockInv'
<1>1. /\ worker[w] \in Busy
      /\ worker[w].pc = "replace"
      /\ worker[w].tenant \in Tenants
      /\ "reply" \in PCs
      /\ Goto(w, "reply")
  BY BusyThread DEF CleanupReplaces, At, LockInv, PCs, Busy
<1>2. /\ worker' \in [Workers -> Busy \cup {Resting}]
      /\ worker'[w].pc = "reply"
      /\ \A v \in Workers \ {w} : worker'[v] = worker[v]
  BY <1>1, GotoTypes DEF LockInv
<1>3. TenantManagerTypeOK'
  BY <1>1 DEF CleanupReplaces, ReplaceRecord, TenantResources, LockInv, HypervisorTypeOK,
     TenantManagerTypeOK
<1>4. PRZoneTypeOK' /\ DFXTypeOK'
  BY ZonesUnchanged, DecouplersUnchanged DEF CleanupReplaces, LockInv, HypervisorTypeOK
<1>5. TablesAgree' /\ LockDiscipline'
  BY <1>1, <1>2 DEF CleanupReplaces, pzVars, dfxVars, LockInv, TablesAgree,
     LockDiscipline, At, Critical
<1>6. HypervisorTypeOK' /\ IsFiniteSet(DOMAIN resources)'
  BY <1>2, <1>3, <1>4 DEF CleanupReplaces, LockInv, HypervisorTypeOK
<1> QED BY <1>5, <1>6 DEF LockInv

-----------------------------------------------------------------------------

LEMMA RestartPreserves ==
  ASSUME LockInv, Restart
  PROVE  LockInv'
<1>1. HypervisorTypeOK'
  BY DEF LockInv, Restart, HypervisorTypeOK, PRZoneTypeOK, DFXTypeOK,
         TenantManagerTypeOK, TenantResources, Contents
<1>2. IsFiniteSet(DOMAIN resources)'
  BY FS_EmptySet DEF Restart
<1>3. TablesAgree'
  BY DEF Restart, TablesAgree
<1>4. LockDiscipline'
  BY DEF Restart, LockDiscipline, Critical, At, Resting, Idle
<1> QED BY <1>1, <1>2, <1>3, <1>4 DEF LockInv

LEMMA LoadOverlayPreserves ==
  ASSUME LockInv, NEW w \in Workers, LoadOverlay(w),
         UNCHANGED mapped
  PROVE  LockInv'
<1>1. ASSUME NEW req \in Requests, LoadRefused(w, req) PROVE LockInv'
  BY <1>1, ErrorPreserves DEF LoadRefused, Ready, At, Critical
<1>2. ASSUME NEW req \in Requests, LoadStarts(w, req) PROVE LockInv'
  BY <1>2, LoadStartsPreserves
<1>3. CASE LoadReconfigures(w)
  BY <1>3, LoadReconfiguresPreserves
<1>4. CASE LoadFails(w)
  BY <1>4, LoadFailsPreserves
<1>5. ASSUME NEW h \in FreshHandles, LoadCommits(w, h) PROVE LockInv'
  BY <1>5, LoadCommitsPreserves DEF FreshHandles
<1> QED BY <1>1, <1>2, <1>3, <1>4, <1>5 DEF LoadOverlay

LEMMA SmallCallsPreserve ==
  ASSUME LockInv, NEW w \in Workers, SmallCalls(w),
         UNCHANGED mapped
  PROVE  LockInv'
<1>1. ASSUME NEW z \in ZoneIds, NEW h \in FreshHandles, CreateMMIO(w, z, h)
      PROVE  LockInv'
  BY <1>1, CreateMMIOPreserves DEF FreshHandles
<1>2. ASSUME NEW z \in ZoneIds, CreateMMIOFails(w, z) PROVE LockInv'
  BY <1>2, ErrorPreserves DEF CreateMMIOFails, Ready, At, Critical
<1>3. ASSUME NEW h \in Handles, MMIOWrite(w, h) PROVE LockInv'
  BY <1>3, MMIOWritePreserves
<1>4. CASE MMIOWriteFails(w)
  BY <1>4, ErrorPreserves DEF MMIOWriteFails, Ready, At, Critical
<1>5. ASSUME NEW size \in BufferSizes, NEW h \in FreshHandles, AllocateBuffer(w, size, h)
      PROVE  LockInv'
  BY <1>5, AllocateBufferPreserves DEF FreshHandles
<1>6. ASSUME NEW size \in BufferSizes, AllocateBufferFails(w, size) PROVE LockInv'
  BY <1>6, ErrorPreserves DEF AllocateBufferFails, Ready, At, Critical
<1>7. ASSUME NEW z \in ZoneIds, NEW h \in FreshHandles, CreateDMA(w, z, h)
      PROVE  LockInv'
  BY <1>7, CreateDMAPreserves DEF FreshHandles
<1>8. CASE CreateDMAFails(w)
  BY <1>8, ErrorPreserves DEF CreateDMAFails, Ready, At, Critical
<1> QED
  BY <1>1, <1>2, <1>3, <1>4, <1>5, <1>6, <1>7, <1>8 DEF SmallCalls

LEMMA CleanupPreserves ==
  ASSUME LockInv, NEW w \in Workers, CleanupResources(w),
         UNCHANGED mapped
  PROVE  LockInv'
<1>1. CASE SummaryBegins(w)
  BY <1>1, SummaryBeginsPreserves
<1>2. CASE SummaryEnds(w)
  BY <1>2, SummaryEndsPreserves
<1>3. CASE SummaryRaises(w)
  BY <1>3, ErrorPreserves DEF SummaryRaises, At, Critical
<1>4. CASE CleanupReleases(w)
  BY <1>4, CleanupReleasesPreserves
<1>5. ASSUME NEW z \in ZoneIds, CleanupDecouples(w, z) PROVE LockInv'
  BY <1>5, CleanupDecouplesPreserves
<1>6. CASE CleanupDecoupled(w)
  BY <1>6, CleanupDecoupledPreserves
<1>7. ASSUME NEW h \in Handles, CleanupRemoves(w, h) PROVE LockInv'
  BY <1>7, CleanupRemovesPreserves
<1>8. CASE CleanupReturns(w)
  BY <1>8, CleanupReturnsPreserves
<1>9. CASE CleanupReplaces(w)
  BY <1>9, CleanupReplacesPreserves
<1> QED
  BY <1>1, <1>2, <1>3, <1>4, <1>5, <1>6, <1>7, <1>8, <1>9 DEF CleanupResources

\* The tenants' own programs write registers and nothing of the hypervisor's.
LEMMA ContainersPreserve ==
  ASSUME LockInv, Containers
  PROVE  LockInv'
<1>1. PICK t \in Tenants, z \in UioDevices : MapUio(t, z) \/ UioWrite(t, z)
  BY HypervisorAssumption DEF Containers
<1>2. UNCHANGED <<resources, rm_lock, worker, uio_owner, pzVars, dfxVars, tracked>>
  BY <1>1 DEF MapUio, UioWrite, rmVars
<1>3. /\ writers' \in [Decouplers -> SUBSET Tenants]
      /\ mapped' \in [UioDevices -> SUBSET Tenants]
  BY <1>1 DEF MapUio, UioWrite, rmVars, LockInv, HypervisorTypeOK
<1>4. PRZoneTypeOK' /\ DFXTypeOK'
  BY <1>2, ZonesUnchanged, DecouplersUnchanged DEF LockInv, HypervisorTypeOK
<1>5. TablesAgree' /\ TenantManagerTypeOK'
  BY <1>2 DEF pzVars, LockInv, HypervisorTypeOK, TablesAgree, TenantManagerTypeOK
<1>6. HypervisorTypeOK' /\ IsFiniteSet(DOMAIN resources)'
  BY <1>2, <1>3, <1>4, <1>5 DEF LockInv, HypervisorTypeOK
<1>7. LockDiscipline'
  BY <1>2 DEF LockInv, LockDiscipline, At, dfxVars
<1> QED BY <1>5, <1>6, <1>7 DEF LockInv

\* Every step preserves the first layer.
LEMMA LockInvNext == LockInv /\ [Next]_vars => LockInv'
<1> SUFFICES ASSUME LockInv, [Next]_vars PROVE LockInv'
  OBVIOUS
<1>1. CASE UNCHANGED vars
  BY <1>1 DEF vars, rmVars, pzVars, dfxVars, LockInv, HypervisorTypeOK, PRZoneTypeOK,
     DFXTypeOK, TenantManagerTypeOK, TablesAgree, LockDiscipline, At
<1>2. ASSUME NEW w \in Workers, NEW t \in Tenants, NEW op \in Calls, Begin(w, t, op)
      PROVE  LockInv'
  BY <1>2, BeginPreserves
<1>3. ASSUME NEW w \in Workers, Step(w) PROVE LockInv'
  <2>0. UNCHANGED mapped
    BY <1>3 DEF Step
  <2>1. CASE LoadOverlay(w)
    BY <2>0, <2>1, LoadOverlayPreserves
  <2>2. CASE SmallCalls(w)
    BY <2>0, <2>2, SmallCallsPreserve
  <2>3. CASE CleanupResources(w)
    BY <2>0, <2>3, CleanupPreserves
  <2>4. CASE Reply(w)
    BY <2>0, <2>4, FinishPreserves DEF Reply, At, Critical
  <2>5. CASE ReplyFails(w)
    BY <2>0, <2>5, ErrorPreserves DEF ReplyFails, At, Critical
  <2>6. CASE Abort(w)
    BY <2>0, <2>6, FinishPreserves DEF Abort, At, Critical
  <2> QED BY <1>3, <2>1, <2>2, <2>3, <2>4, <2>5, <2>6 DEF Step
<1>4. CASE Restart
  BY <1>4, RestartPreserves
<1>5. CASE Containers
  BY <1>5, ContainersPreserve
<1> QED BY <1>1, <1>2, <1>3, <1>4, <1>5 DEF Next

LEMMA LockInvariance == Spec => []LockInv
  BY LockInvInit, LockInvNext, PTL DEF Spec

\* Every variable keeps its type, for any board and any number of threads.
THEOREM TypesAreKept == Spec => []HypervisorTypeOK
<1>1. LockInv => HypervisorTypeOK
  BY DEF LockInv
<1> QED BY <1>1, LockInvariance, PTL

\* The multi-step methods are mutually exclusive, and the lockless DFX manager
\* works for the thread that holds the resource manager's lock.
THEOREM LockIsMutualExclusion == Spec => []LockDiscipline
<1>1. LockInv => LockDiscipline
  BY DEF LockInv
<1> QED BY <1>1, LockInvariance, PTL

\* The two tables of the zone manager agree under the hypervisor's threads too.
THEOREM ZoneTablesAgree == Spec => []TablesAgree
<1>1. LockInv => TablesAgree
  BY DEF LockInv
<1> QED BY <1>1, LockInvariance, PTL

-----------------------------------------------------------------------------
(* The books of the tenants whose client makes one call at a time.  Between  *)
(* the quota check of load_overlay and its commit, and between the last step *)
(* of a cleanup and its reply, no other call of such a tenant is served, so  *)
(* what the check saw and what the cleanup left still holds.                 *)

Books(t) ==
  /\ \A type \in Types : tracked[t].handles[type] = OwnedOf(t, type)
  /\ tracked[t].total_memory_bytes = Bytes(t)
  /\ IsFiniteSet(BytesOf(t))

Limits(t) ==
  /\ Cardinality(OwnedOf(t, "overlay")) <= MaxOverlays[t]
  /\ Cardinality(OwnedOf(t, "buffer")) <= MaxBuffers[t]
  /\ Bytes(t) <= MaxMemory[t]

OneCallEach ==
  \A t \in SerialTenants : \A v, w \in Workers : Serving(v, t) /\ Serving(w, t) => v = w

\* What a thread relies on later in its call.
Stage(w) ==
  /\ At(w, "reconfigure") =>
       /\ worker[w].op = "LoadOverlay"
       /\ Cardinality(OwnedOf(worker[w].tenant, "overlay")) < MaxOverlays[worker[w].tenant]
  /\ At(w, "replace") \/ (At(w, "reply") /\ worker[w].op = "CleanupResources")
       => Owned(worker[w].tenant) = {}

SerialInv ==
  /\ LockInv
  /\ OneCallEach
  /\ \A t \in SerialTenants : Books(t) /\ Limits(t)
  /\ \A w \in Workers : worker[w] # Resting /\ worker[w].tenant \in SerialTenants => Stage(w)

\* What a step that is not of this tenant's calls leaves as it is.
LEMMA HoldingsKept ==
  ASSUME NEW t, SameHoldings(t)
  PROVE  /\ \A type : OwnedOf(t, type)' = OwnedOf(t, type)
         /\ BytesOf(t)' = BytesOf(t)
         /\ Books(t) => Books(t)'
         /\ Limits(t) => Limits(t)'
<1>1. \A type : OwnedOf(t, type)' = OwnedOf(t, type)
  BY DEF SameHoldings, OwnedOf
<1>2. BytesOf(t)' = BytesOf(t)
  BY DEF SameHoldings, BytesOf
<1> QED BY <1>1, <1>2 DEF Books, Limits, Bytes, SameHoldings

\* Resting, and no other state, is idle.
LEMMA RestingIsIdle ==
  ASSUME HypervisorTypeOK, NEW w \in Workers
  PROVE  /\ worker[w].pc = "idle" <=> worker[w] = Resting
         /\ worker[w] # Resting => worker[w] \in Busy /\ worker[w].tenant \in Tenants
  BY DEF HypervisorTypeOK, Resting, Busy, PCs

\* A step of a thread serving tenant t concerns the books of t and the stage of
\* the thread alone.
LEMMA SerialFrame ==
  ASSUME SerialInv, LockInv', NEW t \in Tenants, NEW w \in Workers, Serving(w, t),
         \A v \in Workers \ {w} : worker'[v] = worker[v],
         worker'[w] = Resting \/ worker'[w].tenant = t,
         \A u \in Tenants \ {t} : SameHoldings(u),
         t \in SerialTenants => Books(t)' /\ Limits(t)' /\ (worker'[w] # Resting => Stage(w)')
  PROVE  SerialInv'
<1>1. OneCallEach'
  <2>1. \A v \in Workers, u \in SerialTenants : Serving(v, u)' => Serving(v, u)
    BY DEF Serving
  <2> QED BY <2>1 DEF SerialInv, OneCallEach
<1>2. ASSUME NEW u \in SerialTenants PROVE Books(u)' /\ Limits(u)'
  <2>1. CASE u # t
    <3>1. SameHoldings(u) /\ Books(u) /\ Limits(u)
      BY <2>1, HypervisorAssumption DEF SerialInv
    <3> QED BY <3>1, HoldingsKept
  <2> QED BY <2>1
<1>3. ASSUME NEW v \in Workers, worker'[v] # Resting, worker'[v].tenant \in SerialTenants
      PROVE  Stage(v)'
  <2>1. CASE v = w
    BY <1>3, <2>1 DEF Serving
  <2>2. CASE v # w
    <3>1. worker'[v] = worker[v] /\ Stage(v)
      BY <1>3, <2>2 DEF SerialInv
    <3>2. PICK u \in SerialTenants : worker[v].tenant = u /\ worker'[v].tenant = u
      BY <1>3, <3>1
    <3>3. u # t
      BY <1>3, <2>2, <3>1, <3>2 DEF SerialInv, OneCallEach, Serving
    <3>4. SameHoldings(u)
      BY <3>3, HypervisorAssumption
    <3>5. OwnedOf(u, "overlay")' = OwnedOf(u, "overlay") /\ Owned(u)' = Owned(u)
      BY <3>4, HoldingsKept DEF SameHoldings
    <3> QED BY <3>1, <3>2, <3>5 DEF Stage, At
  <2> QED BY <2>1, <2>2
<1> QED BY <1>1, <1>2, <1>3 DEF SerialInv

\* Most steps touch neither the table nor the charges.
LEMMA SerialQuiet ==
  ASSUME SerialInv, LockInv', NEW w \in Workers, worker[w] # Resting,
         \A v \in Workers \ {w} : worker'[v] = worker[v],
         UNCHANGED <<resources, tracked>>,
         worker'[w] = Resting \/ worker'[w].tenant = worker[w].tenant,
         worker'[w] # Resting /\ worker'[w].tenant \in SerialTenants => Stage(w)'
  PROVE  SerialInv'
<1>1. ASSUME NEW u \in Tenants PROVE SameHoldings(u)
  BY DEF SameHoldings, Owned
<1>2. PICK t \in Tenants : Serving(w, t)
  BY RestingIsIdle DEF SerialInv, LockInv, Serving
<1>3. t \in SerialTenants => Books(t)' /\ Limits(t)'
  BY <1>1, HoldingsKept DEF SerialInv
<1> QED BY <1>1, <1>2, <1>3, SerialFrame DEF Serving

\* The bytes of one resource.
LEMMA BytesOfOne ==
  ASSUME NEW h, NEW n \in Nat
  PROVE  IsFiniteSet({h} \X (1 .. n)) /\ Cardinality({h} \X (1 .. n)) = n
<1>1. IsFiniteSet({h}) /\ Cardinality({h}) = 1
  BY FS_Singleton
<1>2. IsFiniteSet(1 .. n) /\ Cardinality(1 .. n) = n
  BY FS_Interval
<1>3. /\ IsFiniteSet({h} \X (1 .. n))
      /\ Cardinality({h} \X (1 .. n)) = Cardinality({h}) * Cardinality(1 .. n)
  BY <1>1, <1>2, FS_Product
<1> QED BY <1>1, <1>2, <1>3

\* Adding what was not there, and taking away what was.
LEMMA AddsUp ==
  ASSUME NEW S, NEW T, IsFiniteSet(S), IsFiniteSet(T), S \cap T = {}
  PROVE  /\ IsFiniteSet(S \cup T)
         /\ Cardinality(S \cup T) = Cardinality(S) + Cardinality(T)
         /\ Cardinality(S) \in Nat /\ Cardinality(T) \in Nat
<1>1. Cardinality(S) \in Nat /\ Cardinality(T) \in Nat
  BY FS_CardinalityType
<1>2. /\ IsFiniteSet(S \cup T)
      /\ Cardinality(S \cup T) = Cardinality(S) + Cardinality(T) - Cardinality(S \cap T)
  BY FS_Union
<1>3. Cardinality(S \cap T) = 0
  BY FS_EmptySet
<1> QED BY <1>1, <1>2, <1>3

\* What charging and discharging change in the records.
LEMMA ChargeChanges ==
  ASSUME TenantManagerTypeOK, NEW t \in Tenants, NEW type \in Types, NEW h, NEW size \in Nat,
         Charge(t, type, h, size)
  PROVE  /\ \A u \in Tenants \ {t} : tracked'[u] = tracked[u]
         /\ \A y \in Types : tracked'[t].handles[y] =
              IF y = type THEN tracked[t].handles[y] \cup {h} ELSE tracked[t].handles[y]
         /\ tracked'[t].total_memory_bytes = tracked[t].total_memory_bytes + size
<1>1. tracked[t].handles \in [Types -> SUBSET Handles]
  BY DEF TenantManagerTypeOK
<1>2. /\ \A u \in Tenants \ {t} : tracked'[u] = tracked[u]
      /\ tracked'[t].handles = [tracked[t].handles EXCEPT ![type] = @ \cup {h}]
      /\ tracked'[t].total_memory_bytes = tracked[t].total_memory_bytes + size
  BY DEF Charge, TenantManagerTypeOK
<1> QED BY <1>1, <1>2

LEMMA DischargeChanges ==
  ASSUME TenantManagerTypeOK, NEW t \in Tenants, NEW type \in Types, NEW h, NEW size \in Nat,
         Discharge(t, type, h, size)
  PROVE  /\ \A u \in Tenants \ {t} : tracked'[u] = tracked[u]
         /\ \A y \in Types : tracked'[t].handles[y] =
              IF y = type THEN tracked[t].handles[y] \ {h} ELSE tracked[t].handles[y]
         /\ tracked'[t].total_memory_bytes = tracked[t].total_memory_bytes - size
<1>1. tracked[t].handles \in [Types -> SUBSET Handles]
  BY DEF TenantManagerTypeOK
<1>2. /\ \A u \in Tenants \ {t} : tracked'[u] = tracked[u]
      /\ tracked'[t].handles = [tracked[t].handles EXCEPT ![type] = @ \ {h}]
      /\ tracked'[t].total_memory_bytes = tracked[t].total_memory_bytes - size
  BY DEF Discharge, TenantManagerTypeOK
<1> QED BY <1>1, <1>2

\* Registering a handle nobody has adds it to the books of its owner alone.
LEMMA RegisterBooks ==
  ASSUME SerialInv, NEW t \in Tenants, NEW w \in Workers, Serving(w, t),
         NEW h \in Handles, h \notin DOMAIN resources, NEW type \in Types,
         NEW z \in ZoneIds \cup {NoZone}, NEW size \in Nat, NEW pc \in PCs,
         Register(w, h, type, z, size, pc)
  PROVE  /\ \A u \in Tenants \ {t} : SameHoldings(u)
         /\ t \in SerialTenants =>
              /\ Books(t)'
              /\ Bytes(t)' = Bytes(t) + size
              /\ \A y \in Types : Cardinality(OwnedOf(t, y)') =
                   Cardinality(OwnedOf(t, y)) + IF y = type THEN 1 ELSE 0
<1>1. worker[w].tenant = t /\ worker[w].pc # "idle"
  BY DEF Serving, SerialInv, LockInv, HypervisorTypeOK, Busy, PCs
<1>2. Registered(w, h, type, z, size, pc)
  BY <1>1, RegisterTypes DEF SerialInv
<1>3. /\ DOMAIN resources' = DOMAIN resources \cup {h}
      /\ resources'[h] = [tenant |-> t, type |-> type, zone |-> z, size |-> size]
      /\ \A x \in DOMAIN resources : resources'[x] = resources[x]
  BY <1>1, <1>2 DEF Registered
<1>4. /\ \A u \in Tenants \ {t} : tracked'[u] = tracked[u]
      /\ \A y \in Types : tracked'[t].handles[y] =
           IF y = type THEN tracked[t].handles[y] \cup {h} ELSE tracked[t].handles[y]
      /\ tracked'[t].total_memory_bytes = tracked[t].total_memory_bytes + size
  <2>1. Charge(t, type, h, size)
    BY <1>1 DEF Register
  <2>2. TenantManagerTypeOK
    BY DEF SerialInv, LockInv, HypervisorTypeOK
  <2> QED BY <2>1, <2>2, ChargeChanges
<1>5. \A u \in Tenants \ {t} : SameHoldings(u)
  BY <1>3, <1>4 DEF SameHoldings, Owned
<1>6. ASSUME t \in SerialTenants
      PROVE  /\ Books(t)'
             /\ Bytes(t)' = Bytes(t) + size
             /\ \A y \in Types : Cardinality(OwnedOf(t, y)') =
                  Cardinality(OwnedOf(t, y)) + IF y = type THEN 1 ELSE 0
  <2>1. Books(t)
    BY <1>6 DEF SerialInv
  <2>2. \A y \in Types : OwnedOf(t, y)' =
          IF y = type THEN OwnedOf(t, y) \cup {h} ELSE OwnedOf(t, y)
    BY <1>3 DEF OwnedOf, Owned
  <2>3. BytesOf(t)' = BytesOf(t) \cup ({h} \X (1 .. size))
    <3>1. Owned(t)' = Owned(t) \cup {h} /\ \A x \in Owned(t) : resources'[x] = resources[x]
      BY <1>3 DEF Owned
    <3>2. resources'[h].size = size
      BY <1>3
    <3> QED BY <3>1, <3>2 DEF BytesOf
  <2>4. BytesOf(t) \cap ({h} \X (1 .. size)) = {}
    BY DEF BytesOf, Owned
  <2>5. IsFiniteSet(BytesOf(t)') /\ Bytes(t)' = Bytes(t) + size
    <3> DEFINE one == {h} \X (1 .. size)
    <3>1. IsFiniteSet(one) /\ Cardinality(one) = size
      BY BytesOfOne
    <3>2. IsFiniteSet(BytesOf(t)) /\ BytesOf(t) \cap one = {} /\ BytesOf(t)' = BytesOf(t) \cup one
      BY <2>1, <2>3, <2>4 DEF Books
    <3> HIDE DEF one
    <3>3. /\ IsFiniteSet(BytesOf(t) \cup one)
          /\ Cardinality(BytesOf(t) \cup one) = Cardinality(BytesOf(t)) + Cardinality(one)
      BY <3>1, <3>2, AddsUp
    <3> QED BY <3>1, <3>2, <3>3 DEF Bytes
  <2>6. \A y \in Types : IsFiniteSet(OwnedOf(t, y)) /\ h \notin OwnedOf(t, y)
    BY FS_Subset DEF OwnedOf, Owned, SerialInv, LockInv
  <2>7. \A y \in Types : Cardinality(OwnedOf(t, y)') =
          Cardinality(OwnedOf(t, y)) + IF y = type THEN 1 ELSE 0
    BY <2>2, <2>6, FS_AddElement, FS_CardinalityType
  <2>8. Books(t)'
    BY <1>4, <2>1, <2>2, <2>5 DEF Books
  <2> QED BY <2>5, <2>7, <2>8
<1> QED BY <1>5, <1>6

\* Removing one takes it off the books of its owner alone.
LEMMA RemoveBooks ==
  ASSUME SerialInv, NEW t \in Tenants, NEW w \in Workers, Serving(w, t),
         NEW h \in Handles, CleanupRemoves(w, h)
  PROVE  /\ \A u \in Tenants \ {t} : SameHoldings(u)
         /\ t \in SerialTenants => Books(t)' /\ Limits(t)'
<1>1. worker[w].tenant = t /\ h \in Owned(t)
  BY DEF Serving, CleanupRemoves
<1>2. PICK type \in Types, size \in Nat :
        resources[h].type = type /\ resources[h].size = size
  BY <1>1 DEF SerialInv, LockInv, HypervisorTypeOK, Owned, ManagedResource
<1>3. h \in DOMAIN resources /\ resources[h].tenant = t
  BY <1>1 DEF Owned
<1>4. /\ DOMAIN resources' = DOMAIN resources \ {h}
      /\ \A x \in DOMAIN resources \ {h} : resources'[x] = resources[x]
  BY DEF CleanupRemoves, Restrict
<1>5. /\ \A u \in Tenants \ {t} : tracked'[u] = tracked[u]
      /\ \A y \in Types : tracked'[t].handles[y] =
           IF y = type THEN tracked[t].handles[y] \ {h} ELSE tracked[t].handles[y]
      /\ tracked'[t].total_memory_bytes = tracked[t].total_memory_bytes - size
  <2>1. Discharge(t, type, h, size)
    BY <1>1, <1>2 DEF CleanupRemoves
  <2>2. TenantManagerTypeOK
    BY DEF SerialInv, LockInv, HypervisorTypeOK
  <2> QED BY <1>3, <2>1, <2>2, DischargeChanges
<1>6. \A u \in Tenants \ {t} : SameHoldings(u)
  BY <1>2, <1>3, <1>4, <1>5 DEF SameHoldings, Owned
<1>7. ASSUME t \in SerialTenants PROVE Books(t)' /\ Limits(t)'
  <2>1. Books(t) /\ Limits(t)
    BY <1>7 DEF SerialInv
  <2>2. \A y \in Types : OwnedOf(t, y)' =
          IF y = type THEN OwnedOf(t, y) \ {h} ELSE OwnedOf(t, y)
    BY <1>2, <1>3, <1>4 DEF OwnedOf, Owned
  <2> DEFINE one == {h} \X (1 .. size)
             rest == BytesOf(t)'
  <2>3. BytesOf(t) = rest \cup one /\ rest \cap one = {}
    <3>1. Owned(t) = Owned(t)' \cup {h} /\ h \notin Owned(t)'
      BY <1>2, <1>3, <1>4 DEF Owned
    <3>2. \A x \in Owned(t)' : resources'[x] = resources[x]
      BY <1>4 DEF Owned
    <3>3. rest = UNION {{x} \X (1 .. resources[x].size) : x \in Owned(t)'}
      BY <3>2 DEF BytesOf
    <3> QED BY <1>2, <3>1, <3>3 DEF BytesOf
  <2>4. IsFiniteSet(one) /\ Cardinality(one) = size
    BY <1>3, BytesOfOne
  <2>5. IsFiniteSet(rest)
    BY <2>1, <2>3, FS_Subset DEF Books
  <2>6. IsFiniteSet(BytesOf(t))' /\ Bytes(t)' = Bytes(t) - size /\ Bytes(t)' \in Nat
    <3> HIDE DEF one, rest
    <3>1. /\ Cardinality(rest \cup one) = Cardinality(rest) + Cardinality(one)
          /\ Cardinality(rest) \in Nat
      BY <2>3, <2>4, <2>5, AddsUp
    <3>2. Bytes(t) = Cardinality(rest) + size
      BY <2>3, <2>4, <3>1 DEF Bytes
    <3>3. Cardinality(rest) = Bytes(t) - size
      BY <1>3, <3>1, <3>2
    <3> USE DEF rest
    <3> QED BY <2>5, <3>1, <3>3 DEF Bytes
  <2>7. \A y \in Types : /\ OwnedOf(t, y)' \subseteq OwnedOf(t, y)
                         /\ IsFiniteSet(OwnedOf(t, y))
    BY <2>2, FS_Subset DEF OwnedOf, Owned, SerialInv, LockInv
  <2>8. \A y \in Types : /\ Cardinality(OwnedOf(t, y)') <= Cardinality(OwnedOf(t, y))
                         /\ Cardinality(OwnedOf(t, y)) \in Nat
                         /\ Cardinality(OwnedOf(t, y)') \in Nat
    BY <2>7, FS_Subset, FS_CardinalityType
  <2>9. Books(t)'
    BY <1>5, <2>1, <2>2, <2>6 DEF Books
  <2>10. Limits(t)'
    <3>1. Bytes(t) \in Nat /\ size \in Nat
      BY <1>3, <2>1, FS_CardinalityType DEF Books, Bytes
    <3>2. /\ MaxOverlays[t] \in Nat /\ MaxBuffers[t] \in Nat /\ MaxMemory[t] \in Nat
      BY QuotaAssumption
    <3>3. Bytes(t)' <= MaxMemory[t]
      BY <2>1, <2>6, <3>1, <3>2 DEF Limits
    <3>4. /\ Cardinality(OwnedOf(t, "overlay")') <= MaxOverlays[t]
          /\ Cardinality(OwnedOf(t, "buffer")') <= MaxBuffers[t]
      BY <2>1, <2>8, <3>2 DEF Limits, Types
    <3> QED BY <3>3, <3>4 DEF Limits
  <2> QED BY <2>9, <2>10
<1> QED BY <1>6, <1>7

\* Moving a thread keeps what it is doing and for whom.
LEMMA GotoKeeps ==
  ASSUME HypervisorTypeOK, NEW w \in Workers, worker[w].pc # "idle",
         NEW pc \in PCs, Goto(w, pc)
  PROVE  /\ worker[w] # Resting
         /\ worker'[w] # Resting
         /\ worker'[w].pc = pc
         /\ worker'[w].tenant = worker[w].tenant
         /\ worker'[w].op = worker[w].op
         /\ \A v \in Workers \ {w} : worker'[v] = worker[v]
<1>1. worker[w] \in Busy
  BY BusyThread
<1>2. worker'[w] = [worker[w] EXCEPT !.pc = pc]
  BY DEF Goto, HypervisorTypeOK
<1> QED BY <1>1, <1>2 DEF Goto, HypervisorTypeOK, Busy, Resting, PCs

\* Nothing is relied on at these steps.
LEMMA SerialGoto ==
  ASSUME SerialInv, LockInv', NEW w \in Workers, worker[w].pc # "idle",
         NEW pc \in {"iterate", "cleanup", "decouple", "handles", "error"}, Goto(w, pc),
         UNCHANGED <<resources, tracked>>
  PROVE  SerialInv'
<1>1. pc \in PCs
  BY DEF PCs
<1>2. /\ worker[w] # Resting
      /\ worker'[w].pc = pc
      /\ worker'[w].tenant = worker[w].tenant
      /\ \A v \in Workers \ {w} : worker'[v] = worker[v]
  BY <1>1, GotoKeeps DEF SerialInv, LockInv
<1>3. Stage(w)'
  BY <1>2 DEF Stage, At
<1> QED BY <1>2, <1>3, SerialQuiet

LEMMA SerialError ==
  ASSUME SerialInv, LockInv', NEW w \in Workers, worker[w].pc # "idle", Error(w)
  PROVE  SerialInv'
  BY SerialGoto DEF Error

LEMMA SerialFinish ==
  ASSUME SerialInv, LockInv', NEW w \in Workers, worker[w].pc # "idle", Finish(w)
  PROVE  SerialInv'
<1>1. /\ worker[w] # Resting
      /\ worker'[w] = Resting
      /\ \A v \in Workers \ {w} : worker'[v] = worker[v]
  BY DEF Finish, SerialInv, LockInv, HypervisorTypeOK, Resting
<1> QED BY <1>1, SerialQuiet DEF Finish

\* The client begins no call before the reply to its last one.
LEMMA SerialBegin ==
  ASSUME SerialInv, LockInv', NEW w \in Workers, NEW t \in Tenants, NEW op \in Calls,
         Begin(w, t, op)
  PROVE  SerialInv'
<1>1. /\ worker'[w].pc = "lock"
      /\ worker'[w].tenant = t
      /\ worker[w] = Resting
      /\ \A v \in Workers \ {w} : worker'[v] = worker[v]
  BY RestingIsIdle DEF Begin, At, SerialInv, LockInv, HypervisorTypeOK
<1>2. t \in SerialTenants => \A v \in Workers : ~Serving(v, t)
  BY DEF Begin
<1>3. ASSUME NEW u \in SerialTenants, NEW v \in Workers, NEW x \in Workers,
             Serving(v, u)', Serving(x, u)'
      PROVE  v = x
  <2>1. CASE u = t
    BY <1>1, <1>2, <1>3, <2>1 DEF Serving
  <2>2. CASE u # t
    BY <1>1, <1>3, <2>2 DEF Serving, SerialInv, OneCallEach
  <2> QED BY <2>1, <2>2
<1>4. ASSUME NEW u \in SerialTenants PROVE Books(u)' /\ Limits(u)'
  <2>1. SameHoldings(u)
    BY DEF Begin, SameHoldings, Owned
  <2> QED BY <2>1, HoldingsKept DEF SerialInv
<1>5. ASSUME NEW v \in Workers, worker'[v] # Resting, worker'[v].tenant \in SerialTenants
      PROVE  Stage(v)'
  <2>1. CASE v = w
    BY <1>1, <2>1 DEF Stage, At
  <2>2. CASE v # w
    <3>1. worker'[v] = worker[v] /\ Stage(v)
      BY <1>1, <1>5, <2>2 DEF SerialInv
    <3>2. PICK u \in SerialTenants : worker[v].tenant = u /\ worker'[v].tenant = u
      BY <1>5, <3>1
    <3>3. OwnedOf(u, "overlay")' = OwnedOf(u, "overlay") /\ Owned(u)' = Owned(u)
      BY DEF Begin, OwnedOf, Owned
    <3> QED BY <3>1, <3>2, <3>3 DEF Stage, At
  <2> QED BY <2>1, <2>2
<1> QED BY <1>3, <1>4, <1>5 DEF SerialInv, OneCallEach

\* The quota check of load_overlay: what the thread will rely on at the commit.
LEMMA SerialLoadStarts ==
  ASSUME SerialInv, LockInv', NEW w \in Workers, NEW req \in Requests, LoadStarts(w, req)
  PROVE  SerialInv'
<1>1. worker[w].pc # "idle" /\ "reconfigure" \in PCs
  BY DEF LoadStarts, Ready, At, PCs
<1>2. /\ worker[w] # Resting
      /\ worker'[w].pc = "reconfigure"
      /\ worker'[w].tenant = worker[w].tenant
      /\ worker'[w].op = worker[w].op
      /\ \A v \in Workers \ {w} : worker'[v] = worker[v]
  BY <1>1, GotoKeeps DEF LoadStarts, SerialInv, LockInv
<1>3. ASSUME NEW t \in SerialTenants, worker[w].tenant = t PROVE Stage(w)'
  <2>1. worker[w].op = "LoadOverlay" /\ can_allocate_overlay(t)
    BY <1>3 DEF LoadStarts, Ready, MayLoad
  <2>2. tracked[t].handles["overlay"] = OwnedOf(t, "overlay")
    BY DEF SerialInv, Books, Types
  <2>3. Cardinality(OwnedOf(t, "overlay")') < MaxOverlays[t]
    BY <2>1, <2>2 DEF can_allocate_overlay, LoadStarts, OwnedOf, Owned
  <2>4. worker'[w].tenant = t
    BY <1>2, <1>3
  <2> QED BY <1>2, <2>1, <2>3, <2>4 DEF Stage, At
<1> QED BY <1>2, <1>3, SerialQuiet DEF LoadStarts

LEMMA SerialLoadReconfigures ==
  ASSUME SerialInv, LockInv', NEW w \in Workers, LoadReconfigures(w)
  PROVE  SerialInv'
<1>1. worker[w] # Resting
  BY DEF LoadReconfigures, At, Resting
<1>2. worker[w].tenant \in SerialTenants => Stage(w)'
  BY <1>1 DEF LoadReconfigures, SerialInv, Stage, At, OwnedOf, Owned
<1> QED BY <1>1, <1>2, SerialQuiet DEF LoadReconfigures

\* What registering does to the thread.
LEMMA RegisterKeeps ==
  ASSUME LockInv, NEW w \in Workers, worker[w].pc # "idle", NEW h \in Handles,
         NEW type, NEW z, NEW size, NEW pc \in PCs, Register(w, h, type, z, size, pc)
  PROVE  /\ worker'[w].pc = pc
         /\ worker'[w].tenant = worker[w].tenant
         /\ worker'[w].op = worker[w].op
         /\ \A v \in Workers \ {w} : worker'[v] = worker[v]
<1>1. worker[w] \in Busy
  BY BusyThread DEF LockInv
<1>2. worker'[w] = [worker[w] EXCEPT !.pc = pc, !.made = {h}]
  BY DEF Register, LockInv, HypervisorTypeOK
<1> QED BY <1>1, <1>2 DEF Register, LockInv, HypervisorTypeOK, Busy

\* A call that registers a handle keeps the books if what it adds is within
\* the limits of its tenant.
LEMMA SerialRegister ==
  ASSUME SerialInv, LockInv', NEW t \in Tenants, NEW w \in Workers, Serving(w, t),
         NEW h \in Handles, h \notin DOMAIN resources, NEW type \in Types,
         NEW z \in ZoneIds \cup {NoZone}, NEW size \in Nat, NEW pc \in {"reply", "error"},
         Register(w, h, type, z, size, pc),
         t \in SerialTenants =>
           /\ pc = "reply" => worker[w].op # "CleanupResources"
           /\ type = "overlay" => Cardinality(OwnedOf(t, "overlay")) < MaxOverlays[t]
           /\ type = "buffer" => Cardinality(OwnedOf(t, "buffer")) < MaxBuffers[t]
           /\ Bytes(t) + size <= MaxMemory[t]
  PROVE  SerialInv'
<1>1. worker[w].tenant = t /\ worker[w].pc # "idle" /\ pc \in PCs
  BY DEF Serving, SerialInv, LockInv, HypervisorTypeOK, Busy, PCs
<1>2. /\ worker'[w].pc = pc
      /\ worker'[w].tenant = t
      /\ worker'[w].op = worker[w].op
      /\ \A v \in Workers \ {w} : worker'[v] = worker[v]
  BY <1>1, RegisterKeeps DEF SerialInv
<1>3. /\ \A u \in Tenants \ {t} : SameHoldings(u)
      /\ t \in SerialTenants =>
           /\ Books(t)'
           /\ Bytes(t)' = Bytes(t) + size
           /\ \A y \in Types : Cardinality(OwnedOf(t, y)') =
                Cardinality(OwnedOf(t, y)) + IF y = type THEN 1 ELSE 0
  BY <1>1, RegisterBooks
<1>4. ASSUME t \in SerialTenants PROVE Books(t)' /\ Limits(t)' /\ Stage(w)'
  <2>1. Limits(t)
    BY <1>4 DEF SerialInv
  <2>2. \A y \in Types : Cardinality(OwnedOf(t, y)) \in Nat
    BY FS_Subset, FS_CardinalityType DEF OwnedOf, Owned, SerialInv, LockInv
  <2>3. MaxOverlays[t] \in Nat /\ MaxBuffers[t] \in Nat
    BY QuotaAssumption
  <2>4. /\ Cardinality(OwnedOf(t, "overlay")') <= MaxOverlays[t]
        /\ Cardinality(OwnedOf(t, "buffer")') <= MaxBuffers[t]
    BY <1>3, <1>4, <2>1, <2>2, <2>3 DEF Limits, Types
  <2>5. Limits(t)'
    BY <1>3, <1>4, <2>4 DEF Limits
  <2>6. Stage(w)'
    BY <1>2, <1>4 DEF Stage, At
  <2> QED BY <1>3, <1>4, <2>5, <2>6
<1> QED BY <1>2, <1>3, <1>4, SerialFrame

\* The commit of a load: nothing was charged to the tenant since the check.
LEMMA SerialLoadCommits ==
  ASSUME SerialInv, LockInv', NEW w \in Workers, NEW h \in FreshHandles, LoadCommits(w, h)
  PROVE  SerialInv'
<1>1. worker[w] # Resting /\ h \in Handles /\ h \notin DOMAIN resources
  BY DEF LoadCommits, At, Resting, FreshHandles
<1>2. PICK t \in Tenants : Serving(w, t)
  BY <1>1, RestingIsIdle DEF SerialInv, LockInv, Serving
<1>3. zone_id \in ZoneIds
  BY ReconfiguringFile
     DEF LoadCommits, At, SerialInv, LockInv, LockDiscipline, HypervisorTypeOK
<1>4. ASSUME t \in SerialTenants
      PROVE  /\ worker[w].op # "CleanupResources"
             /\ Cardinality(OwnedOf(t, "overlay")) < MaxOverlays[t]
             /\ Bytes(t) + 0 <= MaxMemory[t]
  <2>1. Stage(w) /\ At(w, "reconfigure") /\ worker[w].tenant = t
    BY <1>1, <1>2, <1>4 DEF SerialInv, Serving, LoadCommits
  <2>2. Bytes(t) \in Nat /\ Bytes(t) <= MaxMemory[t]
    BY <1>4, FS_CardinalityType DEF SerialInv, Books, Limits, Bytes
  <2> QED BY <2>1, <2>2 DEF Stage
<1>5. PICK z \in ZoneIds : z = zone_id
  BY <1>3
<1>6. Register(w, h, "overlay", z, 0, "reply")
  BY <1>5 DEF LoadCommits
<1> QED BY <1>1, <1>2, <1>4, <1>6, SerialRegister DEF Types

\* A handle that takes no overlay, no buffer and no bytes.
LEMMA SerialRegisterFree ==
  ASSUME SerialInv, LockInv', NEW w \in Workers, worker[w].pc # "idle",
         worker[w].op # "CleanupResources", NEW h \in FreshHandles,
         NEW type \in {"mmio", "dma"}, NEW z \in ZoneIds,
         Register(w, h, type, z, 0, "reply")
  PROVE  SerialInv'
<1>1. worker[w] # Resting /\ h \in Handles /\ h \notin DOMAIN resources
  BY DEF Resting, FreshHandles
<1>2. PICK t \in Tenants : Serving(w, t)
  BY <1>1, RestingIsIdle DEF SerialInv, LockInv, Serving
<1>3. t \in SerialTenants => Bytes(t) + 0 <= MaxMemory[t]
  <2>1. t \in SerialTenants => Bytes(t) \in Nat /\ Bytes(t) <= MaxMemory[t]
    BY FS_CardinalityType DEF SerialInv, Books, Limits, Bytes
  <2> QED BY <2>1
<1> QED BY <1>1, <1>2, <1>3, SerialRegister DEF Types

\* allocate_buffer asks for both of its limits.
LEMMA SerialAllocateBuffer ==
  ASSUME SerialInv, LockInv', NEW w \in Workers, NEW size \in BufferSizes,
         NEW h \in FreshHandles, AllocateBuffer(w, size, h)
  PROVE  SerialInv'
<1>1. worker[w] # Resting /\ h \in Handles /\ h \notin DOMAIN resources /\ size \in Nat
  BY HypervisorAssumption DEF AllocateBuffer, Ready, At, Resting, FreshHandles
<1>2. PICK t \in Tenants : Serving(w, t)
  BY <1>1, RestingIsIdle DEF SerialInv, LockInv, Serving
<1>3. ASSUME t \in SerialTenants
      PROVE  /\ Cardinality(OwnedOf(t, "buffer")) < MaxBuffers[t]
             /\ Bytes(t) + size <= MaxMemory[t]
  <2>1. can_allocate_buffer(t, size)
    BY <1>2 DEF AllocateBuffer, Serving
  <2> QED BY <1>3, <2>1 DEF can_allocate_buffer, SerialInv, Books, Types
<1>4. Register(w, h, "buffer", NoZone, size, "error")
  BY DEF AllocateBuffer
<1> QED BY <1>1, <1>2, <1>3, <1>4, SerialRegister DEF Types

LEMMA SerialMMIOWrite ==
  ASSUME SerialInv, LockInv', NEW w \in Workers, NEW h \in Handles, MMIOWrite(w, h)
  PROVE  SerialInv'
<1>1. worker[w].pc # "idle" /\ "reply" \in PCs /\ worker[w].op = "MMIOWrite"
  BY DEF MMIOWrite, Ready, At, PCs
<1>2. /\ worker[w] # Resting
      /\ worker'[w].pc = "reply"
      /\ worker'[w].tenant = worker[w].tenant
      /\ worker'[w].op = "MMIOWrite"
      /\ \A v \in Workers \ {w} : worker'[v] = worker[v]
  BY <1>1, GotoKeeps DEF MMIOWrite, SerialInv, LockInv
<1>3. Stage(w)'
  BY <1>2 DEF Stage, At
<1> QED BY <1>2, <1>3, SerialQuiet DEF MMIOWrite

LEMMA SerialSummaryBegins ==
  ASSUME SerialInv, LockInv', NEW w \in Workers, SummaryBegins(w)
  PROVE  SerialInv'
<1>1. worker[w] \in Busy /\ worker[w].pc = "lock"
  BY BusyThread DEF SummaryBegins, Ready, At, SerialInv, LockInv
<1>2. /\ worker[w] # Resting
      /\ worker'[w].pc = "iterate"
      /\ worker'[w].tenant = worker[w].tenant
      /\ \A v \in Workers \ {w} : worker'[v] = worker[v]
  BY <1>1 DEF SummaryBegins, SerialInv, LockInv, HypervisorTypeOK, Busy, Resting
<1>3. Stage(w)'
  BY <1>2 DEF Stage, At
<1> QED BY <1>2, <1>3, SerialQuiet DEF SummaryBegins

\* The steps of cleanup that write more than pc of the thread's record.
LEMMA SerialCleanupZones ==
  ASSUME SerialInv, LockInv', NEW w \in Workers,
         CleanupReleases(w) \/ \E z \in ZoneIds : CleanupDecouples(w, z)
  PROVE  SerialInv'
<1>1. worker[w] \in Busy /\ worker[w] # Resting
  BY BusyThread DEF CleanupReleases, CleanupDecouples, At, SerialInv, LockInv, Resting
<1>2. /\ worker'[w].pc = "decouple"
      /\ worker'[w].tenant = worker[w].tenant
      /\ \A v \in Workers \ {w} : worker'[v] = worker[v]
  BY <1>1 DEF CleanupReleases, CleanupDecouples, At, SerialInv, LockInv, HypervisorTypeOK, Busy
<1>3. Stage(w)'
  BY <1>2 DEF Stage, At
<1> QED BY <1>1, <1>2, <1>3, SerialQuiet DEF CleanupReleases, CleanupDecouples

LEMMA SerialCleanupRemoves ==
  ASSUME SerialInv, LockInv', NEW w \in Workers, NEW h \in Handles, CleanupRemoves(w, h)
  PROVE  SerialInv'
<1>1. worker[w] # Resting
  BY DEF CleanupRemoves, At, Resting
<1>2. PICK t \in Tenants : Serving(w, t)
  BY <1>1, RestingIsIdle DEF SerialInv, LockInv, Serving
<1>3. /\ \A u \in Tenants \ {t} : SameHoldings(u)
      /\ t \in SerialTenants => Books(t)' /\ Limits(t)'
  BY <1>2, RemoveBooks
<1>4. worker' = worker /\ Stage(w)'
  BY DEF CleanupRemoves, Stage, At
<1> QED BY <1>2, <1>3, <1>4, SerialFrame DEF Serving

\* cleanup_tenant_resources returns when nothing of the tenant is in the table.
LEMMA SerialCleanupReturns ==
  ASSUME SerialInv, LockInv', NEW w \in Workers, CleanupReturns(w)
  PROVE  SerialInv'
<1>1. worker[w].pc # "idle" /\ "replace" \in PCs
  BY DEF CleanupReturns, At, PCs
<1>2. /\ worker[w] # Resting
      /\ worker'[w].pc = "replace"
      /\ worker'[w].tenant = worker[w].tenant
      /\ \A v \in Workers \ {w} : worker'[v] = worker[v]
  BY <1>1, GotoKeeps DEF CleanupReturns, SerialInv, LockInv
<1>3. PICK t \in Tenants : worker[w].tenant = t
  BY <1>2, RestingIsIdle DEF SerialInv, LockInv
<1>4. Owned(t)' = {} /\ worker'[w].tenant = t
  BY <1>2, <1>3 DEF CleanupReturns, Owned
<1>5. Stage(w)'
  BY <1>2, <1>4 DEF Stage, At
<1> QED BY <1>2, <1>5, SerialQuiet DEF CleanupReturns

\* The servicer replaces the record of a tenant that has nothing any more.
LEMMA SerialCleanupReplaces ==
  ASSUME SerialInv, LockInv', NEW w \in Workers, CleanupReplaces(w)
  PROVE  SerialInv'
<1>1. worker[w].pc # "idle" /\ "reply" \in PCs
  BY DEF CleanupReplaces, At, PCs
<1>2. /\ worker[w] # Resting
      /\ worker'[w].pc = "reply"
      /\ worker'[w].tenant = worker[w].tenant
      /\ \A v \in Workers \ {w} : worker'[v] = worker[v]
  BY <1>1, GotoKeeps DEF CleanupReplaces, SerialInv, LockInv
<1>3. PICK t \in Tenants : Serving(w, t)
  BY <1>2, RestingIsIdle DEF SerialInv, LockInv, Serving
<1>4. /\ worker[w].tenant = t /\ worker'[w].tenant = t
      /\ tracked'[t] = TenantResources
      /\ \A u \in Tenants \ {t} : SameHoldings(u)
  BY <1>2, <1>3 DEF Serving, CleanupReplaces, ReplaceRecord, SameHoldings, Owned, SerialInv,
     LockInv, HypervisorTypeOK, TenantManagerTypeOK
<1>5. ASSUME t \in SerialTenants PROVE Books(t)' /\ Limits(t)' /\ Stage(w)'
  <2>1. Owned(t) = {}
    BY <1>2, <1>4, <1>5 DEF SerialInv, Stage, CleanupReplaces
  <2>2. /\ Owned(t)' = {}
        /\ \A y \in Types : OwnedOf(t, y)' = {}
        /\ BytesOf(t)' = {}
    BY <2>1 DEF CleanupReplaces, Owned, OwnedOf, BytesOf
  <2>3. IsFiniteSet({}) /\ Cardinality({}) = 0
    BY FS_EmptySet
  <2>4. Books(t)'
    BY <1>4, <2>2, <2>3 DEF Books, Bytes, TenantResources
  <2>5. Limits(t)'
    BY <2>2, <2>3, QuotaAssumption DEF Limits, Bytes, Types
  <2>6. Stage(w)'
    BY <1>2, <1>4, <2>2 DEF Stage, At
  <2> QED BY <2>4, <2>5, <2>6
<1> QED BY <1>2, <1>3, <1>4, <1>5, SerialFrame

\* Nothing is held and nothing is charged when the process starts.
LEMMA EmptyBooks ==
  ASSUME NEW t \in Tenants, DOMAIN resources = {}, tracked[t] = TenantResources
  PROVE  Books(t) /\ Limits(t)
<1>1. /\ \A y : OwnedOf(t, y) = {}
      /\ BytesOf(t) = {}
  BY DEF Owned, OwnedOf, BytesOf
<1>2. IsFiniteSet({}) /\ Cardinality({}) = 0
  BY FS_EmptySet
<1>3. Books(t)
  BY <1>1, <1>2 DEF Books, Bytes, TenantResources
<1>4. MaxOverlays[t] \in Nat /\ MaxBuffers[t] \in Nat /\ MaxMemory[t] \in Nat
  BY QuotaAssumption
<1>5. /\ Cardinality(OwnedOf(t, "overlay")) = 0
      /\ Cardinality(OwnedOf(t, "buffer")) = 0
      /\ Bytes(t) = 0
  BY <1>1, <1>2 DEF Bytes
<1>6. Limits(t)
  BY <1>4, <1>5 DEF Limits
<1> QED BY <1>3, <1>6

LEMMA SerialInvInit == Init => SerialInv
<1> SUFFICES ASSUME Init PROVE SerialInv
  OBVIOUS
<1>1. \A w \in Workers : worker[w] = Resting
  BY DEF Init
<1>2. \A t \in SerialTenants : Books(t) /\ Limits(t)
  <2>1. DOMAIN resources = {} /\ \A t \in Tenants : tracked[t] = TenantResources
    BY DEF Init, TenantManagerInit
  <2> QED BY <2>1, EmptyBooks, HypervisorAssumption
<1> QED BY <1>1, <1>2, LockInvInit DEF SerialInv, OneCallEach, Serving

LEMMA SerialRestart ==
  ASSUME SerialInv, LockInv', Restart
  PROVE  SerialInv'
<1>1. \A w \in Workers : worker'[w] = Resting
  BY DEF Restart
<1>2. ASSUME NEW t \in SerialTenants PROVE Books(t)' /\ Limits(t)'
  <2>1. DOMAIN resources' = {} /\ tracked'[t] = TenantResources /\ t \in Tenants
    BY HypervisorAssumption DEF Restart
  <2>2. /\ \A y : OwnedOf(t, y)' = {}
        /\ BytesOf(t)' = {}
    BY <2>1 DEF Owned, OwnedOf, BytesOf
  <2>3. IsFiniteSet({}) /\ Cardinality({}) = 0
    BY FS_EmptySet
  <2>4. Books(t)'
    BY <2>1, <2>2, <2>3 DEF Books, Bytes, TenantResources
  <2>5. MaxOverlays[t] \in Nat /\ MaxBuffers[t] \in Nat /\ MaxMemory[t] \in Nat
    BY <2>1, QuotaAssumption
  <2>6. Limits(t)'
    BY <2>2, <2>3, <2>5 DEF Limits, Bytes
  <2> QED BY <2>4, <2>6
<1> QED BY <1>1, <1>2 DEF SerialInv, OneCallEach, Serving

LEMMA LoadOverlaySerial ==
  ASSUME SerialInv, LockInv', NEW w \in Workers, LoadOverlay(w)
  PROVE  SerialInv'
<1>1. ASSUME NEW req \in Requests, LoadRefused(w, req) PROVE SerialInv'
  BY <1>1, SerialError DEF LoadRefused, Ready, At
<1>2. ASSUME NEW req \in Requests, LoadStarts(w, req) PROVE SerialInv'
  BY <1>2, SerialLoadStarts
<1>3. CASE LoadReconfigures(w)
  BY <1>3, SerialLoadReconfigures
<1>4. CASE LoadFails(w)
  BY <1>4, SerialGoto DEF LoadFails, At
<1>5. ASSUME NEW h \in FreshHandles, LoadCommits(w, h) PROVE SerialInv'
  BY <1>5, SerialLoadCommits
<1> QED BY <1>1, <1>2, <1>3, <1>4, <1>5 DEF LoadOverlay

LEMMA SmallCallsSerial ==
  ASSUME SerialInv, LockInv', NEW w \in Workers, SmallCalls(w)
  PROVE  SerialInv'
<1>1. ASSUME NEW z \in ZoneIds, NEW h \in FreshHandles, CreateMMIO(w, z, h)
      PROVE  SerialInv'
  BY <1>1, SerialRegisterFree DEF CreateMMIO, Ready, At
<1>2. ASSUME NEW z \in ZoneIds, CreateMMIOFails(w, z) PROVE SerialInv'
  BY <1>2, SerialError DEF CreateMMIOFails, Ready, At
<1>3. ASSUME NEW h \in Handles, MMIOWrite(w, h) PROVE SerialInv'
  BY <1>3, SerialMMIOWrite
<1>4. CASE MMIOWriteFails(w)
  BY <1>4, SerialError DEF MMIOWriteFails, Ready, At
<1>5. ASSUME NEW size \in BufferSizes, NEW h \in FreshHandles, AllocateBuffer(w, size, h)
      PROVE  SerialInv'
  BY <1>5, SerialAllocateBuffer
<1>6. ASSUME NEW size \in BufferSizes, AllocateBufferFails(w, size) PROVE SerialInv'
  BY <1>6, SerialError DEF AllocateBufferFails, Ready, At
<1>7. ASSUME NEW z \in ZoneIds, NEW h \in FreshHandles, CreateDMA(w, z, h)
      PROVE  SerialInv'
  BY <1>7, SerialRegisterFree DEF CreateDMA, Ready, At
<1>8. CASE CreateDMAFails(w)
  BY <1>8, SerialError DEF CreateDMAFails, Ready, At
<1> QED
  BY <1>1, <1>2, <1>3, <1>4, <1>5, <1>6, <1>7, <1>8 DEF SmallCalls

LEMMA CleanupSerial ==
  ASSUME SerialInv, LockInv', NEW w \in Workers, CleanupResources(w)
  PROVE  SerialInv'
<1>1. CASE SummaryBegins(w)
  BY <1>1, SerialSummaryBegins
<1>2. CASE SummaryEnds(w)
  BY <1>2, SerialGoto DEF SummaryEnds, At
<1>3. CASE SummaryRaises(w)
  BY <1>3, SerialError DEF SummaryRaises, At
<1>4. CASE CleanupReleases(w)
  BY <1>4, SerialCleanupZones
<1>5. CASE \E z \in ZoneIds : CleanupDecouples(w, z)
  BY <1>5, SerialCleanupZones
<1>6. CASE CleanupDecoupled(w)
  BY <1>6, SerialGoto DEF CleanupDecoupled, At
<1>7. ASSUME NEW h \in Handles, CleanupRemoves(w, h) PROVE SerialInv'
  BY <1>7, SerialCleanupRemoves
<1>8. CASE CleanupReturns(w)
  BY <1>8, SerialCleanupReturns
<1>9. CASE CleanupReplaces(w)
  BY <1>9, SerialCleanupReplaces
<1> QED
  BY <1>1, <1>2, <1>3, <1>4, <1>5, <1>6, <1>7, <1>8, <1>9 DEF CleanupResources

\* A step of somebody else: the books and the threads stay.
LEMMA SerialUntouched ==
  ASSUME SerialInv, LockInv',
         resources' = resources, tracked' = tracked, worker' = worker
  PROVE  SerialInv'
<1>1. ASSUME NEW t \in SerialTenants PROVE Books(t)' /\ Limits(t)'
  <2>1. SameHoldings(t)
    BY DEF SameHoldings, Owned
  <2> QED BY <2>1, HoldingsKept DEF SerialInv
<1>2. OneCallEach'
  BY DEF SerialInv, OneCallEach, Serving
<1>3. ASSUME NEW w \in Workers, worker'[w] # Resting, worker'[w].tenant \in SerialTenants
      PROVE  Stage(w)'
  <2>1. Stage(w)
    BY <1>3 DEF SerialInv
  <2> QED BY <2>1 DEF Stage, At, OwnedOf, Owned
<1> QED BY <1>1, <1>2, <1>3 DEF SerialInv

LEMMA SerialInvNext == SerialInv /\ [Next]_vars => SerialInv'
<1> SUFFICES ASSUME SerialInv, [Next]_vars PROVE SerialInv'
  OBVIOUS
<1>0. LockInv'
  BY LockInvNext DEF SerialInv
<1>1. CASE UNCHANGED vars
  <2>1. resources' = resources /\ tracked' = tracked /\ worker' = worker
    BY <1>1 DEF vars, rmVars
  <2> QED BY <1>0, <2>1, SerialUntouched
<1>2. ASSUME NEW w \in Workers, NEW t \in Tenants, NEW op \in Calls, Begin(w, t, op)
      PROVE  SerialInv'
  BY <1>0, <1>2, SerialBegin
<1>3. ASSUME NEW w \in Workers, Step(w) PROVE SerialInv'
  <2>1. CASE LoadOverlay(w)
    BY <1>0, <2>1, LoadOverlaySerial
  <2>2. CASE SmallCalls(w)
    BY <1>0, <2>2, SmallCallsSerial
  <2>3. CASE CleanupResources(w)
    BY <1>0, <2>3, CleanupSerial
  <2>4. CASE Reply(w)
    BY <1>0, <2>4, SerialFinish DEF Reply, At
  <2>5. CASE ReplyFails(w)
    BY <1>0, <2>5, SerialError DEF ReplyFails, At
  <2>6. CASE Abort(w)
    BY <1>0, <2>6, SerialFinish DEF Abort, At
  <2> QED BY <1>3, <2>1, <2>2, <2>3, <2>4, <2>5, <2>6 DEF Step
<1>4. CASE Restart
  BY <1>0, <1>4, SerialRestart
<1>5. CASE Containers
  <2>1. resources' = resources /\ tracked' = tracked /\ worker' = worker
    BY <1>5 DEF Containers, MapUio, UioWrite, rmVars
  <2> QED BY <1>0, <2>1, SerialUntouched
<1> QED BY <1>1, <1>2, <1>3, <1>4, <1>5 DEF Next

LEMMA SerialInvariance == Spec => []SerialInv
  BY SerialInvInit, SerialInvNext, PTL DEF Spec

\* What a tenant that makes one call at a time is charged for is what it has in
\* the resource table, handle by handle and byte by byte (charges and discharges
\* of pynq_resource_manager.py, replacement of the record in servicer.py).
THEOREM ChargesAreExact == Spec => []ChargedForWhatItHas
<1>1. SerialInv => ChargedForWhatItHas
  BY DEF SerialInv, Books, ChargedForWhatItHas
<1> QED BY <1>1, SerialInvariance, PTL

\* Such a tenant never owns more overlays, buffers or bytes than configured,
\* although load_overlay checks the quota many steps before it commits.
THEOREM QuotasAreRespected == Spec => []WithinQuota
<1>1. SerialInv => WithinQuota
  BY DEF SerialInv, Limits, WithinQuota
<1> QED BY <1>1, SerialInvariance, PTL

=============================================================================
