----------------------------- MODULE MCHypervisor -----------------------------
(* Two tenants, two zones, two threads.  The bounds that differ between runs *)
(* (handles, calls, quotas, serial tenants) are set in the configurations.   *)
EXTENDS HypervisorProperties, TLC

CONSTANTS t1, t2, w1, w2, h1, h2, h3, sum

MCTenants == {t1, t2}
MCSerialAll == {t1, t2}
MCSerialNone == {}
MCWorkers == {w1, w2}
MCHandles2 == {h1, h2}
MCHandles3 == {h1, h2, h3}
MCZoneIds == 0 .. 1
MCBases == {sum}
MCFiles == MCZoneIds \X MCBases
MCAllowed == [t \in MCTenants |-> MCFiles]
MCAllowedZones == [t \in MCTenants |-> MCZoneIds]
MCDecouplers == {0, 1}
One == [t \in MCTenants |-> 1]
Two == [t \in MCTenants |-> 2]
NoUio == {}
OneUio == {0}
NoMappings == {}
Three == [t \in MCTenants |-> 3]
MCBufferSizes == {1, 2}

ZoneCalls == {"LoadOverlay", "CreateMMIO", "MMIOWrite", "CleanupResources"}
LoadAndCleanup == {"LoadOverlay", "CleanupResources"}
AllCalls == ZoneCalls \cup {"AllocateBuffer", "CreateDMA"}
ProtoReplies == AllCalls \ {"CreateDMA"}

\* One of these, for the set of handles the configuration takes.
Symmetry2 == Permutations(MCWorkers) \cup Permutations(MCTenants)
               \cup Permutations(MCHandles2)
Symmetry3 == Permutations(MCWorkers) \cup Permutations(MCTenants)
               \cup Permutations(MCHandles3)
=============================================================================
