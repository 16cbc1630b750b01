------------------------------ MODULE CharBuffers -----------------------------
(***************************************************************************)
(* The path of a buffer from pynq_resource_manager.py through the sysfs    *)
(* attributes of pynq_char_mapper.c to the mmap of a tenant's program.     *)
(*                                                                         *)
(* The kernel module outlives the hypervisor: it keeps its devices and     *)
(* lists when the process stops or crashes, and forgets them when it is    *)
(* unloaded, which the hypervisor does not notice.  The methods of the     *)
(* resource manager hold its lock throughout, so each is one step; the     *)
(* tenants' programs call mmap at any moment between two of them.          *)
(***************************************************************************)
EXTENDS CharMapper, FiniteSets

CONSTANTS
  Handles,        \* names for buffers
  Sizes,          \* the sizes in bytes a request may ask for
  OneElement,     \* those of Sizes that are a single array element
  MaxListed,      \* bound: entries of one device's list
  MaxAreas        \* bound: areas mapped at once

ASSUME CharBuffersAssumption ==
  /\ Sizes \subseteq Nat \ {0}
  /\ OneElement \subseteq Sizes
  /\ MaxListed \in Nat /\ MaxAreas \in Nat

VARIABLES
  running,           \* the hypervisor process exists
  starting,          \* tenants whose device its start-up loop has yet to create
  enabled,           \* _char_device_enabled
  char_devices,      \* the keys of _char_devices
  buffer_offsets,    \* _buffer_offsets: tenant -> the next offset
  buffer_to_offset,  \* _buffer_to_offset: handle -> offset
  live               \* _buffers and their ManagedResource

hvVars == <<running, starting, enabled, char_devices, buffer_offsets,
            buffer_to_offset, live>>
cbVars == <<hvVars, charVars>>

Buffer == [tenant : Tenants, phys : Blocks, size : Sizes]
None == [x \in {} |-> x]

CharBuffersTypeOK ==
  /\ CharMapperTypeOK
  /\ running \in BOOLEAN /\ enabled \in BOOLEAN
  /\ starting \subseteq Tenants /\ char_devices \subseteq Tenants
  /\ DOMAIN buffer_offsets \subseteq Tenants
  /\ buffer_offsets \in [DOMAIN buffer_offsets -> Nat]
  /\ DOMAIN buffer_to_offset \subseteq Handles
  /\ buffer_to_offset \in [DOMAIN buffer_to_offset -> Nat]
  /\ DOMAIN live \subseteq Handles
  /\ live \in [DOMAIN live -> Buffer]

Stopped ==
  /\ running' = FALSE
  /\ enabled' = FALSE
  /\ starting' = {}
  /\ char_devices' = {}
  /\ buffer_offsets' = None
  /\ buffer_to_offset' = None
  /\ live' = None

CharBuffersInit ==
  /\ CharMapperInit
  /\ running = FALSE
  /\ enabled = FALSE
  /\ starting = {}
  /\ char_devices = {}
  /\ buffer_offsets = None
  /\ buffer_to_offset = None
  /\ live = None

-----------------------------------------------------------------------------
(* Helpers *)

With(f, x, v) == [y \in DOMAIN f \cup {x} |-> IF y = x THEN v ELSE f[y]]
Without(f, X) == [y \in DOMAIN f \ X |-> f[y]]

UsedBlocks == {live[h].phys : h \in DOMAIN live}
FreshHandles == Handles \ (DOMAIN live \cup DOMAIN buffer_to_offset)

\* The handles the char device of t was told of and that are not freed.
Registered(t) ==
  {h \in DOMAIN live \cap DOMAIN buffer_to_offset : live[h].tenant = t}

-----------------------------------------------------------------------------
(* The hypervisor's start and end *)

\* The gRPC servers are up before the first device is created.
Start ==
  /\ ~running
  /\ running' = TRUE
  /\ enabled' = loaded
  /\ starting' = Tenants
  /\ UNCHANGED <<char_devices, buffer_offsets, buffer_to_offset, live, charVars>>

\* Stopped or killed: its CMA memory goes back, the kernel module keeps its lists.
Stop ==
  /\ running
  /\ Stopped
  /\ UNCHANGED charVars

\* Mutant: takes a device that exists already for the one it asked for.
AdoptsExisting(t) == enabled /\ loaded /\ (CanCreate(t) \/ HasDevice(t))

\* The write succeeds and the path exists.
SeesDevice(t) == enabled /\ (CanCreate(t) \/ ClaimsSuccess(t))

\* An exception is logged and the tenant has no device in this run.
create_tenant_char_device(t) ==
  /\ running /\ t \in starting
  /\ starting' = starting \ {t}
  /\ IF SeesDevice(t)
     THEN /\ char_devices' = char_devices \cup {t}
          /\ buffer_offsets' = With(buffer_offsets, t, 0)
     ELSE UNCHANGED <<char_devices, buffer_offsets>>
  /\ IF enabled /\ CanCreate(t) THEN create_tenant_device(t) ELSE UNCHANGED charVars
  /\ UNCHANGED <<running, enabled, buffer_to_offset, live>>

-----------------------------------------------------------------------------
(* Buffers *)

\* Mutant: the next offset is moved on by the size, not by its pages.
UnroundedAdvance(offset, size) == offset + size

NextOffset(offset, size) == offset + PageAlign(size)

\* The method raises in its last log line, after all this is done.
allocate_buffer(t, size, phys, h) ==
  /\ running
  /\ phys \notin UsedBlocks
  /\ IF enabled /\ t \in char_devices
     THEN \* without the attribute open() raises and the memory is returned
       /\ HasDevice(t)
       /\ Len(buffers[t]) < MaxListed
       /\ LET offset == buffer_offsets[t] IN
            /\ add_buffer_store(t, [vm_offset |-> offset, phys |-> phys, size |-> size])
            /\ buffer_to_offset' = With(buffer_to_offset, h, offset)
            /\ buffer_offsets' = [buffer_offsets EXCEPT ![t] = NextOffset(@, size)]
     ELSE UNCHANGED <<buffer_to_offset, buffer_offsets, charVars>>
  /\ live' = With(live, h, [tenant |-> t, phys |-> phys, size |-> size])
  /\ UNCHANGED <<running, starting, enabled, char_devices>>

\* The buffer branch of _cleanup_resource, for each buffer of the tenant.
cleanup_tenant_resources(t) ==
  /\ running
  /\ live' = Without(live, {h \in DOMAIN live : live[h].tenant = t})
  /\ UNCHANGED <<running, starting, enabled, char_devices, buffer_offsets,
                 buffer_to_offset, charVars>>

\* The truth value of the array, which "if buffer" takes, exists for one
\* element only and is false when that is zero: then the method does nothing,
\* and for more elements it raises there.  No RPC calls the method.
free_buffer(h) ==
  /\ running
  /\ h \in DOMAIN live
  /\ live[h].size \in OneElement
  /\ IF enabled /\ h \in DOMAIN buffer_to_offset
     THEN LET t == live[h].tenant
              left == remove_buffer_store(t, buffer_to_offset[h]) IN
          /\ buffers' = [buffers EXCEPT ![t] = left[t]]
          /\ buffer_to_offset' =
               IF left = buffers THEN buffer_to_offset ELSE Without(buffer_to_offset, {h})
     ELSE UNCHANGED <<buffers, buffer_to_offset>>
  /\ live' = Without(live, {h})
  /\ UNCHANGED <<running, starting, enabled, char_devices, buffer_offsets,
                 loaded, tenant_devices, vmas>>

-----------------------------------------------------------------------------

Kernel ==
  \/ pynq_char_init /\ UNCHANGED hvVars
  \/ pynq_char_exit /\ UNCHANGED hvVars

User ==
  /\ \/ Cardinality(vmas) < MaxAreas /\ \E t \in Tenants : \E i \in DOMAIN buffers[t], size \in Sizes :
          pynq_char_mmap(t, buffers[t][i].vm_offset, PageAlign(size))
     \/ \E area \in vmas : munmap(area)
  /\ UNCHANGED hvVars

Hypervisor ==
  \/ Start
  \/ Stop
  \/ \E t \in Tenants :
       \/ create_tenant_char_device(t)
       \/ cleanup_tenant_resources(t)
       \/ \E size \in Sizes, phys \in Blocks, h \in FreshHandles :
            allocate_buffer(t, size, phys, h)
  \/ \E h \in Handles : free_buffer(h)

CharBuffersNext == Kernel \/ User \/ Hypervisor

CharBuffersSpec == CharBuffersInit /\ [][CharBuffersNext]_cbVars

-----------------------------------------------------------------------------
(* Properties *)

\* The offset a tenant was given for a live buffer maps that buffer and nothing
\* else, whatever the lists still hold from freed buffers, from an earlier run
\* of the hypervisor or before a reload of the module
\* (pynq_char_mapper.c mmap takes the first entry with the offset).
MmapReachesOwnBuffer ==
  [][\A area \in vmas' \ vmas : \A h \in Registered(area.tenant) :
       buffer_to_offset[h] = area.vm_offset =>
         /\ area.phys = live[h].phys
         /\ area.size <= PageAlign(live[h].size)]_cbVars

\* The windows a tenant's live buffers have in its device's offset space do not
\* overlap, so a mapping that starts in one buffer's window never runs into the
\* next one's (_register_buffer_in_char_device rounds each size up to a page).
WindowsAreApart ==
  \A t \in Tenants : \A g, h \in Registered(t) :
    g # h => \/ buffer_to_offset[g] + PageAlign(live[g].size) <= buffer_to_offset[h]
             \/ buffer_to_offset[h] + PageAlign(live[h].size) <= buffer_to_offset[g]
=============================================================================
