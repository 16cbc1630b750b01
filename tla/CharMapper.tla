------------------------------ MODULE CharMapper ------------------------------
(***************************************************************************)
(* The kernel module pynq_char_mapper.c: one character device per tenant,  *)
(* a list of (offset, physical block) pairs behind each, and mmap, which   *)
(* maps the first entry of the list whose offset is the one asked for.     *)
(*                                                                         *)
(* Each entry point runs under one mutex (devices_lock or the tenant's     *)
(* lock) from its first read to its last write, so it is one step.  They   *)
(* are operators here; CharBuffers composes them with their callers.       *)
(* A physical block is the memory of one buffer, named by its base.        *)
(***************************************************************************)
EXTENDS Integers, Sequences, SequencesExt

CONSTANTS
  Tenants,
  Blocks,        \* the physical blocks the buffers are allocated in
  CLEARS_FREED,  \* the kernel clears memory when it is freed (init_on_free)
  MAX_DEVICES,
  PAGE_SIZE

ASSUME CharMapperAssumption ==
  /\ MAX_DEVICES \in Nat \ {0}
  /\ PAGE_SIZE \in Nat \ {0}
  /\ CLEARS_FREED \in BOOLEAN

VARIABLES
  loaded,          \* the module is in the kernel
  tenant_devices,  \* tenant_devices[0 .. device_count - 1], their names
  buffers,         \* tenant -> the list of buffer_mapping of its device
  vmas             \* the areas mapped by tenants: what remap_pfn_range mapped

charVars == <<loaded, tenant_devices, buffers, vmas>>

BufferMapping == [vm_offset : Nat, phys : Blocks, size : Nat]
Vma == [tenant : Tenants, vm_offset : Nat, phys : Blocks, size : Nat]

CharMapperTypeOK ==
  /\ loaded \in BOOLEAN
  /\ tenant_devices \in Seq(Tenants)
  /\ Len(tenant_devices) <= MAX_DEVICES
  /\ buffers \in [Tenants -> Seq(BufferMapping)]
  /\ vmas \subseteq Vma

CharMapperInit ==
  /\ loaded = FALSE
  /\ tenant_devices = << >>
  /\ buffers = [t \in Tenants |-> << >>]
  /\ vmas = {}

-----------------------------------------------------------------------------
(* Helpers *)

PageAlign(size) == ((size + PAGE_SIZE - 1) \div PAGE_SIZE) * PAGE_SIZE

HasDevice(t) == t \in ToSet(tenant_devices)

At(t, offset) == {i \in DOMAIN buffers[t] : buffers[t][i].vm_offset = offset}
First(t, offset) == CHOOSE i \in At(t, offset) : \A j \in At(t, offset) : i <= j

\* The caller prints the offset in hexadecimal and kstrtoul reads the digits
\* with base 0, which takes digits without a 0x prefix as decimal.
DecimalDigits[n \in Nat] == (n % 16) < 10 /\ (n >= 16 => DecimalDigits[n \div 16])
ReadAsDecimal[n \in Nat] ==
  IF n < 16 THEN n ELSE (10 * ReadAsDecimal[n \div 16]) + (n % 16)

-----------------------------------------------------------------------------
(* The module and its devices *)

pynq_char_init ==
  /\ ~loaded
  /\ loaded' = TRUE
  /\ UNCHANGED <<tenant_devices, buffers, vmas>>

\* The open files and the areas mapped through them hold the module.
pynq_char_exit ==
  /\ loaded
  /\ vmas = {}
  /\ loaded' = FALSE
  /\ tenant_devices' = << >>
  /\ buffers' = [t \in Tenants |-> << >>]
  /\ UNCHANGED vmas

CanCreate(t) == loaded /\ Len(tenant_devices) < MAX_DEVICES /\ ~HasDevice(t)

create_tenant_device(t) ==
  /\ CanCreate(t)
  /\ tenant_devices' = Append(tenant_devices, t)
  /\ UNCHANGED <<loaded, buffers, vmas>>

\* The writer of create_device is told "created" although the name exists:
\* device_create fails, the tenant structure is freed, and on the next line
\* PTR_ERR reads from it what a kernel that clears freed memory made 0.
ClaimsSuccess(t) ==
  loaded /\ Len(tenant_devices) < MAX_DEVICES /\ HasDevice(t) /\ CLEARS_FREED

-----------------------------------------------------------------------------
(* The attributes of a device *)

add_buffer_store(t, mapping) ==
  /\ HasDevice(t)
  /\ buffers' = [buffers EXCEPT ![t] = Append(@, mapping)]
  /\ UNCHANGED <<loaded, tenant_devices, vmas>>

\* What a write of that offset in hexadecimal to remove_buffer takes away; no
\* digit above 9, or no entry at that number, leaves the list as it was.
remove_buffer_store(t, offset) ==
  LET number == ReadAsDecimal[offset] IN
  IF HasDevice(t) /\ DecimalDigits[offset] /\ At(t, number) # {}
  THEN [buffers EXCEPT ![t] = RemoveAt(@, First(t, number))]
  ELSE buffers

\* mmap of the device's file; when remap_pfn_range fails nothing is mapped.
pynq_char_mmap(t, offset, size) ==
  /\ HasDevice(t)
  /\ At(t, offset) # {}
  /\ LET mapping == buffers[t][First(t, offset)] IN
       /\ size <= PageAlign(mapping.size)
       /\ vmas' = vmas \cup {[tenant |-> t, vm_offset |-> offset,
                              phys |-> mapping.phys, size |-> size]}
  /\ UNCHANGED <<loaded, tenant_devices, buffers>>

munmap(area) ==
  /\ area \in vmas
  /\ vmas' = vmas \ {area}
  /\ UNCHANGED <<loaded, tenant_devices, buffers>>
=============================================================================
