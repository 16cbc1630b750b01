---------------------------- MODULE TenantManager ----------------------------
(***************************************************************************)
(* Hypervisor/tenant_manager.py: the resources each tenant is charged for  *)
(* (TenantResources) and the quota checks.  Sessions are not kept here: a  *)
(* call of module Hypervisor starts after its token was validated.         *)
(*                                                                         *)
(* The resource manager updates these records under its own lock; the      *)
(* servicer's CleanupResources replaces one without any lock.              *)
(***************************************************************************)
EXTENDS Platform, FiniteSets

CONSTANTS
  MaxOverlays, MaxBuffers, MaxMemory   \* tenant -> its configured limits

ASSUME QuotaAssumption ==
  /\ MaxOverlays \in [Tenants -> Nat]
  /\ MaxBuffers \in [Tenants -> Nat]
  /\ MaxMemory \in [Tenants -> Nat]

VARIABLE tracked   \* TenantManager.resources: tenant -> TenantResources

\* Resource types, as ManagedResource.resource_type names them.
Types == {"overlay", "mmio", "buffer", "dma"}

\* TenantResources(): the set of handles of each type, and the bytes charged.
TenantResources == [handles |-> [type \in Types |-> {}], total_memory_bytes |-> 0]

TenantManagerTypeOK ==
  tracked \in [Tenants -> [handles : [Types -> SUBSET Handles],
                           total_memory_bytes : Int]]

TenantManagerInit == tracked = [t \in Tenants |-> TenantResources]

\* Mutant: admits one too many.
AdmitsOneMore(t) ==
  Cardinality(tracked[t].handles["overlay"]) <= MaxOverlays[t]

can_allocate_overlay(t) ==
  Cardinality(tracked[t].handles["overlay"]) < MaxOverlays[t]

can_allocate_buffer(t, size) ==
  /\ Cardinality(tracked[t].handles["buffer"]) < MaxBuffers[t]
  /\ tracked[t].total_memory_bytes + size <= MaxMemory[t]

\* The set.add and += of the resource manager, and their inverses in
\* _cleanup_resource.  Only buffers have a size.
Charge(t, type, h, size) ==
  tracked' = [tracked EXCEPT ![t].handles[type] = @ \cup {h},
                             ![t].total_memory_bytes = @ + size]

\* Mutant: keeps the bytes.
KeepsBytes(t, type, h, size) ==
  tracked' = [tracked EXCEPT ![t].handles[type] = @ \ {h}]

Discharge(t, type, h, size) ==
  tracked' = [tracked EXCEPT ![t].handles[type] = @ \ {h},
                             ![t].total_memory_bytes = @ - size]

\* resources[tenant_id] = TenantResources()
ReplaceRecord(t) == tracked' = [tracked EXCEPT ![t] = TenantResources]
=============================================================================
