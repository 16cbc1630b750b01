# Verification of the uVF hypervisor

uVF lets several containers ("tenants") share one Zynq FPGA. A Python process,
the hypervisor, owns the board: it programs the partially reconfigurable (PR)
zones, hands out handles for MMIO ranges, buffers and DMA engines over gRPC, and
accounts for them. Two kernel modules expose buffers and zones to the containers.
ATLAS, a crossbar in the static part of the FPGA, connects the tenants' virtual pins
to physical pads. XMPU, a protection unit in the programmable logic, decides which
processor may access which memory; a PMU firmware and example programs come with it.

This directory holds TLA+ models of that code, the TLC configurations that check
them and TLAPS proofs about them. `PROJECT.json` maps each definition to the
source lines it stands for, and lists the runs, the hazards and the theorems.

    tlc -workers 2 -config hypervisor_zones.cfg MCHypervisor
    tlapm HypervisorZoneProofs.tla

## 1. Inventory

Paths are relative to `src/`.

| Component | State | Operations | Talks to | What is hard |
|---|---|---|---|---|
| PR zone manager `Hypervisor/pr_zone_manager.py` | `_allocations` (zone to allocation), `_tenant_zones` (tenant to zones) | search for a zone, allocate, release one, release by handle, release all of a tenant | called by the resource manager | one fact kept in two tables; names that carry a zone number |
| DFX decoupler manager `Hypervisor/dfx_decoupler_manager.py` | GPIO line of each zone, a copy of it | decouple, couple, reconfigure (decouple, download, couple) | GPIO, FPGA manager | no lock of its own; every step may raise |
| Tenant manager `Hypervisor/tenant_manager.py` | sessions; for each tenant sets of handles and bytes | authenticate, validate, quota checks | its records are updated by the resource manager and replaced by the servicer | two writers, one of them without the lock |
| Resource manager `Hypervisor/pynq_resource_manager.py` | `_resources` and per-type dictionaries, char device offsets | load_overlay, create_mmio, mmio_write, allocate_buffer, create_dma, cleanup | all of the above, `/dev/uio*`, sysfs | long critical sections, exceptions half way, iteration outside the lock |
| Servicer `Hypervisor/servicer.py` | none | one method per RPC, on 20 threads per tenant | resource and tenant manager | what a client is told against what was done |
| ATLAS crossbar `hardware/Vivado/ip_repository/ATLAS/crossbar_map_tri.vhd` | registered map, uniqueness bits, sampled inputs | clock edge, reset | AXI slave, tenants, pads | configuration registered, data combinational |
| ATLAS AXI slave `.../ATLAS/hdl/` | write and read state machines, latched addresses, four registers | AXI4-Lite transactions | crossbar | address and data arrive in any order; a map spread over registers |
| Char device mapper `drivers/pynq_char_mapper.c` | a list of buffer mappings per tenant | add, remove, mmap, create device | written by the resource manager through sysfs | outlives the hypervisor process |
| UIO mapper `drivers/pynq_uio_mapper.c` | device list, `next_minor` | create, destroy, module exit | scripts | counter read outside its mutex; an exit that overlaps a create |
| Configuration manager, management service, server `Hypervisor/config_manager.py`, `management_service.py`, `server.py` | tenants and their limits, running servers | add, update, remove tenants; save; start and stop servers | tenant manager, resource manager | rollback, persistence, deletion of a tenant in use |
| Protection unit `.../zupl_xmpu_v1_0/hdl/`, driver `.../drivers/` | registers, regions, lock; the driver's instance | accesses, register writes; add region, self test, interrupt status | PMU firmware, programs | a region is four registers; writes dropped by the lock are not reported |
| PMU firmware additions `.../pmu_fw_*/xpfw_pl_xmpu.c`, `xpfw_mod_em.c`, `xpfw_mod_sched.c` | task, error actions, handler | configure, retry, handle a violation | unit, boot loader, other processors | a handler that preempts the task; a level latched by a status bit |
| PMU build configuration `.../pmu_fw_*/xpfw_config.h` (nine versions) | none | what a build defines | selects the code above | switches, command line and DDR combine |
| Fault injection programs `.../rpu_fault_injection`, `apu_fault_injection`, `rpu_xmpu_simple_example` | row reached, verdicts | accesses, attempts to unlock, set-up, interrupt handler | unit | run beside the PMU and each other |
| Client `Containers/client/connection.py`, `pynq_proxy/` | token, mappings of `/dev/uio<z>`, buffer copies | calls with one retry, cleanup at exit, register access through a mapping, buffer synchronisation | servicer, UIO devices | token expiry; a mapping nobody takes back; stale copies |
| MMU filter, Lake accelerator, Vivado scripts, generated protobuf code | | | | not modelled |

What makes each of these correct:

* PR zone manager: the two tables agree; an allocation is never replaced; the
  search proposes only what can be loaded.
* DFX manager: a region is only programmed while isolated; `True` means loaded and
  connected; the sequence always ends.
* Resource manager and servicer: an allocated zone runs its tenant's bitstream;
  tables, zones, handles and charges agree; handles never outlive the zone; quotas
  hold; a cleanup takes all its tenant has and nothing else; no call writes the registers of
  somebody else's region; the lock is always given back.
* Crossbar: one pad for each virtual pin, inputs from the right pad, no glitch on a
  pad because of somebody else.
* AXI slave: a register takes the data addressed to it; no partial map is visible.
* Char device and UIO: a mapping reaches the buffer it was asked for; windows do not
  overlap; no device is there twice, and none is lost except by the module's exit.
* Protection unit and firmware: a region is never enabled half written; once configured
  the unit blocks what the requested regions refuse and nothing else; every violation is served and none
  is cleared unseen; a build has what its features need.
* Management, sessions and client: a deleted tenant keeps nothing, whatever was being served; the flag
  that asks for the cleanup at exit covers all the program holds; a call that is retried takes effect
  once.

## 2. Plan

Built, in this order:

1. `Platform`, `PRZoneManager`: tables and search.
2. `DFXDecoupler`: the sequence with faults; `ZoneManagers` puts 1 and 2 side by side.
3. `TenantManager`: records and quotas, operators only.
4. `Hypervisor` composes 1 to 3 with threads, lock, faults and restarts;
   `HypervisorProperties` states what it must guarantee.
5. `VFPGALease`: the abstract promise to tenants, implemented by `Hypervisor`.
6. `AtlasCrossbar`.
7. `AtlasAXI`: the slave and its master.
8. `CharMapper`, `CharBuffers`: the char device path of `allocate_buffer`, `free_buffer`,
   cleanup and restart, with the kernel module's lists.
9. `UioMapper`: concurrent creates and destroys.
10. `XMPU`, `XmpuDriver`, `PmuConfig`, `PmuFirmware`, `FaultInjection`: the protection unit, its
    driver, the firmware built from its configuration, and the programs.
11. `TenantLifecycle`, `ClientConnection`: tenants that are deleted while they are served, sessions that
    expire, and the programs' connections with their retry and cleanup.

Left:

12. The composition of `AtlasAXI` with `AtlasCrossbar`, whose port `owner_map` is the slices of the
    registers.
13. Proofs: every invariant and every action property that a run checks is now a theorem
    (section 6). What remains goes with 12.

## 3. Modules

* `Platform` declares what the Python modules share: zones, bitstream files, tenants,
  handles. A file `PR_<z>_<base>.bit` is the pair `<<z, base>>`.
* `PRZoneManager`. `allocations` is `_allocations`, `tenant_zones` is `_tenant_zones` with
  an absent key as the empty set. Each method runs under the class's lock and is one
  operator; `PRZoneSpec` drives them in any order. Number and base name are what
  `parse_bitstream_name` extracts; a name without prefix has zone `NoZone`.
* `DFXDecoupler`. `gpio` is the decouple line, `fabric` what the region holds, `reconf` the call
  of `reconfigure_pr_zone` in progress, one step for each access to the hardware. A
  download that raises leaves the old content or `Corrupt`.
* `ZoneManagers` is 1 and 2 side by side, changing in any order: they share no state, so a step of one
  leaves the other's variables alone.
* `TenantManager`. `tracked` is `TenantManager.resources`.
* `Hypervisor`. `resources` is `_resources`; `rm_lock` the holder of the resource manager's
  RLock; `worker` says where each server thread is: `lock` before it takes the lock,
  `reconfigure` inside `load_overlay`, `iterate` in the unlocked loop of the summary, `cleanup`,
  `decouple`, `handles` in `cleanup_tenant_resources`, `replace` before the servicer's unlocked
  assignment, `reply` or `error` before the answer. `uio_owner` is the owner of `/dev/uio<z>`;
  `mapped` says which tenants' containers have
  `/dev/uio<z>` mapped, which they may do (`MapUio`) while it is theirs; a mapping outlives the cleanup, the
  chown and the hypervisor, and needs no call to be written through (`UioWrite`, the `MMIO` class of
  `pynq_proxy/mmio.py`). The programs of the tenants in `MappingTenants` do so. `writers` records, for each
  region, who has written its registers since it was programmed (an observation, read by no action). `create_mmio`, `mmio_write`,
  `allocate_buffer` and `create_dma` hold the lock throughout and touch only memory of the
  process, so each is one action. `Restart` is a crash at any point followed by the
  constructor.
* `HypervisorProperties` holds the properties and the refinement mapping to `VFPGALease`.
* `VFPGALease`: regions are programmed while free, granted for what they hold, and revoked a
  tenant at a time.
* `AtlasCrossbar`: the registers change at `ClockEdge` and `Reset`, the ports at any time;
  combinational signals are operators. The synthesised circuit is modelled; in
  simulation `vpin_idx` (line 99) is a signal read in the process that assigns it,
  which is not in the sensitivity list, so a simulator may show an older index.
* `AtlasAXI`: `ClockEdge` is one rising edge of all clocked processes, one operator for each
  branch of the two state machines, together with the handshakes the master sees; the
  master's other actions change its outputs between edges. A word is a function from
  bits to levels and a strobe a set of lanes; `owner_map(i)` is the slice for pad `i`. `written` and
  `unanswered` observe what the master has completed. The master is the external part: it
  follows AXI4-Lite and the slave's comment that no write starts unless the last response
  can be taken; `AddressFirst` adds that no data precedes its address.
* `CharMapper` is the kernel module `pynq_char_mapper.c`: `buffers` is the list of each device, `vmas`
  what is mapped. Each entry point runs under one mutex and is one operator. A physical
  block is the memory of one buffer. `remove_buffer_store` keeps the conversion between the
  caller's hexadecimal and `kstrtoul` with base 0. `CLEARS_FREED` is the kernel's
  option to clear freed memory, which decides what the read after `kfree` in `create_device` returns.
* `CharBuffers` composes it with the methods of the resource manager that call it, each under the
  manager's lock and so one step, and with the tenants' `mmap` and `munmap`. `live` is `_buffers`,
  `buffer_to_offset` and `buffer_offsets` as in the code. `Start` and `Stop` are the process; the
  kernel module has its own `insmod` and `rmmod`. `Hypervisor` models the board without this
  module, `CharBuffers` the board with it.
* `UioMapper` is `pynq_uio_mapper.c`: one step per call into the driver core and per critical section,
  since only the list and the counter's increment are under the mutex. `module` is how far `pynq_uio_exit` is: it
  empties the list first (`ExitWalks`) and removes the attributes afterwards, `destroy` and then `create`, which
  is when it waits for the writers inside them. A device listed after the walk stays on the bus
  when the module's memory goes (`Reload`), and is then one of the `orphans`.
* `XMPU` is the unit: `WriteAllowed` the gate of the lock, `Hits`, `Allows` and `Blocked` the monitor.
  Addresses are pages of 256 bytes and whether the byte is the page's last.
* `XmpuDriver`: `XMpuPl_AddRegion` and the self test, a step per register. `inst` is the `XmpuPl`
  structure, `call` the one call in progress ("the driver is not thread safe").
* `PmuConfig`: what each version of `xpfw_config.h` defines, as what it adds to the version before;
  a build has a version, a few changed values, a few macros on the command line, and DDR or not.
* `PmuFirmware`: `configureXMPU` step by step (`conf`), the scheduler's task, the error manager's
  table (`em_action`) and `PL_ErrorHandler` (`handler`), which may preempt the task. The copies in the nine
  directories are the same but for version 2019.1, which alone waits for the boot loader.
* `FaultInjection` composes them: `apps` is the program on each processor, the accesses its table makes
  and the verdict it prints for each; `irq` the simple example's handler.
* `TenantLifecycle` is `config_manager.py`, `management_service.py`, `server.py`, the sessions and the calls of all
  servers. `config` is `config_manager.tenants`, which is the same dictionary as `TenantManager.config`; `servers`
  the tenants whose server takes calls; `cm_lock` the configuration manager's lock, kept while the watcher
  runs; `manager` where each `DeleteTenant` is (`stop`, `remove`, `watch`, `watch_stop`, `cleanup`); `thread` where each call is:
  before its token is checked, before the resource manager's lock, or answered. What `Hypervisor`
  does in many steps under that lock is one step here, and of the tables only the types of a tenant's
  resources are kept. `mine` is an observation: the program that asked for the resource still runs.
* `ClientConnection` adds the client's singleton (`client`): its channel, token, flag `_resources_created` and
  registration with `atexit`, and the call it is in. `call_with_auth`, `_authenticate`, `Send`, `Receive`, `cleanup_resources`,
  `disconnect` and `Exit` are its methods, cut where another process may act; a program can be killed at
  any point.
* `MC*` modules choose instances. `MCFabric` (the zone managers and the crossbar), `MCLiveness` (the hypervisor and the AXI slave)
  and `MCKernelDrivers` (the two kernel modules) put two components that share no state into one run and
  explore each with the other one unused; `MCPlXmpu` chooses the switches of the builds. Operators marked "Mutant" are deliberate errors; no
  specification uses them. Each belongs to one property of a run, which must fail
  when the mutant replaces the definition it precedes (`mutants` in `PROJECT.json`).

## 4. Runs

| Run | States | Shows |
|---|---|---|
| `zones_and_pads` | 784 k | zone manager: tables agree, proposals can be loaded; DFX manager: the sequence with faults; 2 zones, a file for a third one without decoupler, a base without a file for zone 0. Crossbar: routing under all maps, shared and out-of-range numbers included |
| `hypervisor_zones` | 803 k | zones, handles and lock with concurrent clients, faults and restarts; `Hypervisor` implements `VFPGALease` |
| `hypervisor_serial` | 752 k | accounting, quotas, cleanup, isolation of released zones, UIO ownership; all RPCs, tenants that make one call at a time, no hardware faults |
| `hypervisor_registers` | 314 k | no call of the hypervisor writes a register of somebody else's region, with programs that write through mappings of a zone's UIO device before and after they lose the zone |
| `liveness` | 55 k | the hypervisor's lock is always given back; writes to the AXI slave land where they were sent, are answered once and are read back, if the address comes no later than the data; every write accepted, every read answered |
| `hypervisor_quota_race` | violation | concurrent cleanup and load of one tenant exceed `max_overlays` |
| `hypervisor_cleanup_race` | violation | a cleanup raises because another tenant registers a resource |
| `atlas_axi_data_first` | violation | data before its address is stored at the last address |
| `kernel_drivers` | 800 k | a mapping reaches its own buffer and windows are apart, across frees, restarts and reloads; when creates, destroys and the module's exit overlap no device is there twice, and only what a create lists after the exit's walk is lost |
| `pl_xmpu` | 417 k | whole regions, protection as requested, verdicts of the programs, self test, violations served and none cleared unseen, configuration in the end, supported features; all nine firmware versions |
| `pl_xmpu_announced` | violation | the area announced for the non-secure programs refuses theirs and admits the secure one |
| `tenant_lifecycle` | 1,990 k | a tenant deleted by two managers at once while calls are served keeps nothing; its program's cleanup flag covers what it holds through expired tokens, retries, cancelled calls, kills and restarts; a retried call registers once |

**Bounds.** Two tenants, two threads and two zones (the code's default) give every
pair of interleaved calls of one tenant and of two; a third thread can only
wait for the one lock or be in the two unlocked windows, which two threads already
occupy together. Three handles let one tenant hold an overlay and a handle into it
while another call registers; `liveness` uses two, and one zone (`NumPRZones`) with the file of a second one that no decoupler
belongs to, so that a load succeeds, fails, finds its zone busy or unknown, and a cleanup is
disturbed by a load. `hypervisor_registers` has a UIO
device for zone 0 and none for zone 1, so that a former holder can write one region and not the other, and programs of both
tenants that map it; in the other runs no program does, since nothing else reads what is mapped. Handles
are never reused while any part of the hypervisor remembers them, as with `uuid4`,
but may be afterwards, so no counter is needed. Buffers have 1 or 2 bytes against a
limit of 3. Sets of handles, threads and tenants are symmetric, except in
`liveness`. The crossbar has 2 pads, 2 virtual pins and map numbers 0 to 3.
The AXI slave has registers of two one-bit lanes and two pads of three bits, so that a
slice crosses lanes and registers as pad 6 does in the real one; the master writes all ones or
zeros, to one lane or both, in `slv_reg1`, where the slices meet, and in `slv_reg3`.
`kernel_drivers`: 2 tenants, 2 blocks and 2 handles, so that a freed block and a freed handle are used
again by the other tenant; a size below a page and one above it; `CLEARS_FREED` false, the
default of the kernels the boards run; 2 devices; lists of 2 entries (`MaxListed`) and one mapped area
(`MaxAreas`); 2 writers and 2 names; one minor taken by another driver; 3 creates (`MaxCreates`), one more than
there are free minors. `pl_xmpu`: 1 or 2 regions (one too few, and enough); 64 pages with
the block RAM at 16, which leaves pages on both sides; one unit; 8 switches, at most 2 changed
(`MaxEdits`) and 1 given (`MaxGiven`), since a rule depends on at most two (`pl_xmpu_announced`: the builds as
they come, two regions, nothing else going on); 2 bitstreams (`MaxLoads`), so that one
reset of the unit happens; one request to the error manager (`MaxIpis`); one program started early (`MaxEarly`).
`tenant_lifecycle`: one tenant, since nothing in these modules but the resource manager's lock is shared
between tenants; two managers, so that two deletions overlap at every point; two threads, so that a
call cancelled on the way is still served next to the next call; two tokens, an old one and its
successor (a token is given out again only when nobody has it, as `uuid4` never would). At most one program
of a tenant runs at a time.
`CHECK_DEADLOCK FALSE` is set for `kernel_drivers`, `pl_xmpu` and `pl_xmpu_announced` alone: creates are bounded by a counter that never returns, and a
board whose firmware did not compile, or whose programs have ended, does nothing more.

**Properties that need an assumption.** `ChargedForWhatItHas`, `WithinQuota` and the part of `CleanupIsComplete`
that says nothing is left are about tenants in `SerialTenants`: the unlocked assignment in `CleanupResources` races
only with calls of the same tenant. `hypervisor_quota_race` shows what happens without it.
`ReleasedZonesAreIsolated` and `UioFollowsAllocation` are checked with `HardwareFaults = FALSE`, since
the code logs and ignores a failing GPIO write or chown: with such a fault both are false. They do not depend on
`SerialTenants`, but the run that checks them has only such tenants, with one overlay each; the
theorems are for any tenants. The theorems about these five properties have exactly these hypotheses.

**Fairness.** `FairSpec` is weak fairness of each thread's steps: the operating system
keeps scheduling a runnable thread, and GPIO writes and downloads return or
raise. A client is not required to call. `DFXSpec` has the same for the one sequence; no run asks for its end, which
`LockIsReleased` includes.
`FairAXISpec`: the clock runs, and a master presents the address and the data of a write it
started and takes answers, as AXI obliges it to; it need not start anything.
`LiveFairness` of `MCLiveness` is the fairness of these two, each while the other component is unused.
`FaultInjection`: the PMU's core goes on booting, runs its task, goes on in `configureXMPU`, takes a pending
error and ends its handler, and the RPU takes and ends its interrupt. The programs need not run.
`ConfiguredEventually` holds although each violation may preempt the task, because the programs make
finitely many accesses.

## 5. Findings

Four disagreements between the code and its own text, each with a run: the quota race; the
cleanup that another tenant's registration can abort; the AXI slave's write enable, which ignores whether
an address is there; and `REGION_1`, which asks for secure accesses although all programs announce its area as
"only accessible by Un-Secure Sub-Systems". `findings` in `PROJECT.json` quotes the lines.

More, met while modelling and not stated as violations. `AllocateBuffer` fails after it has registered and charged the
buffer: the log line at `pynq_resource_manager.py:518` formats `vm_offset` with a conditional as its format, which raises. So
buffers can only be freed by a cleanup. The reply of
`CreateDMA` names a field its message does not have, so every `CreateDMA` is answered with an
error after the handle was registered (`BuildableReplies` in the configurations leaves
it out). And:

* `CreateTenant` imports from a module that does not exist and raises; `DeleteTenant` without force reads
  `resources.buffers`, which does not exist, and raises for a tenant without overlays. `UpdateTenant` sets all limits to
  zero when the request names none. `_save_to_file` reads `zone.dfx_decoupler`, which does not exist, so the file is never
  written and deleted tenants are back after a restart.
* `start` iterates over the tenants while the management server already deletes; a deletion in between raises there.
* A program that disconnects and connects again is no longer registered with `atexit`: what it holds when it
  exits stays. So does what it holds when its token has expired by then, since the cleanup is not retried.
  A failed authentication leaves a channel without a token, and every later call raises.
* A container maps the registers of its zone once and writes them without any call. Nothing takes the mapping
  back: neither the release, nor the chown to the next tenant, nor a restart. So the regions that `README.md:21` calls
  private are so for the calls of the hypervisor only, which is what `HandlesWriteOwnRegions` says.
* A busy requested zone ends the search (`pr_zone_manager.py:228`), against the comment at line 232.
* A cleanup frees buffers and leaves their entries in the kernel's list. An entry is removed by an
  offset written in hexadecimal and read with base 0 (`pynq_char_mapper.c:155`): without digits above 9 it is
  taken as decimal, and another entry or none goes. `MmapReachesOwnBuffer` holds all the same,
  because a device's offsets are never used twice in one life of the device.
* After a crash of the hypervisor the kernel still has the tenant's device; the create fails and the
  tenant works without it until the module is reloaded.
* The number the UIO module lists is its own counter, not the minor the UIO core gave
  (`pynq_uio_mapper.c:128`). `NumbersAreUsed` says what it is good for.
* The exit function of the UIO module empties its list before it removes the attributes. A device that a
  create lists in between stays registered with the UIO core after the module's memory is gone, its
  callbacks included, and keeps its name and number from the next load (`OnlyTheExitLoses`).
* A violation between the read and the clear of ISR makes the simple example print "ISR Clear Failure!".
* The self test of the RPU can unlock the unit, which stays unlocked for the APU's program.

## 6. Proofs

All theorems hold for every value of the constants allowed by the assumptions
`PlatformAssumption`, `DFXAssumption`, `QuotaAssumption`, `HypervisorAssumption`, `AtlasAssumption`, `AXIAssumption`,
`CharMapperAssumption`, `CharBuffersAssumption`, `UioMapperAssumption`, `RegionsMaxAssumption`, `DriverAssumption`,
`KnobsAssumption`, `FirmwareAssumption`, `MaxEarlyAssumption` and `ClientsAssumption`: any number of
zones, tenants, threads, handles, pads, writers and bitstreams, any set of files, any configuration, with or
without faults, and whatever calls and replies are possible. `KnobsAssumption` says that a build does not
define `ENABLE_POS_QSPI` by hand: it is no switch but what a header defines for `ENABLE_POS`, and no header asks for
DDR where somebody else defines it. The theorems that say `ASSUME ~HardwareFaults` and `AddressFirst` need it
(section 4).

`ZoneManagerProofs`. `TablesAgree` with the type invariant is inductive. It is what makes
`release_all_tenant_zones` complete: the method walks one table and the claim is about the
other. For the DFX sequence `DFXInv` says what each step knows of the zone's line and content: a
region is programmed only while isolated, and `True` means loaded and connected.
The two managers of `ManagersSpec` are independent (`ManagersAreIndependent`): its behaviours are
behaviours of each manager's own specification, so each theorem about one manager alone holds of
them together, type correctness included (`ManagersAreTyped`).

The hypervisor's invariant comes in layers, each proved on top of the previous one.

1. `HypervisorProofs`: `LockInv` is type correctness, agreement of the zone tables and the lock
   discipline. A thread inside a multi-step method holds the lock, and the DFX
   manager is busy exactly when such a thread is in `load_overlay`. Everything later
   relies on it: a step of one thread cannot disturb the half-finished call of another.
2. `HypervisorZoneProofs`: `ZoneInv` adds what each point of the DFX sequence knows of
   the zone's line and content, that the zone in progress is still free, and that
   the zones a cleanup has yet to decouple are free. `AllocatedZoneRuns` is not inductive
   without these: the commit needs to know what the download left, and the decoupling
   loop must not touch a zone that somebody else was given meanwhile.
3. `HandleInv`, in the same module, says which resources a cleanup in progress may
   still leave behind, so that zones, overlays and handles correspond again when the
   lock is free, and that the writers of an allocated region are its holder and those who
   have had its UIO device mapped (`CallsWriteOwnRegions`). A theorem without the mappings would be false.
4. `SerialInv`, in `HypervisorProofs` on top of layer 1, is about tenants that make one call at a
   time. `Books`: a record in `tracked` holds the tenant's handles of each type, and the sum of
   its buffers' sizes. `Limits`: the record is within the quota. Neither is inductive alone. `load_overlay`
   checks the quota and commits many steps later, so `Stage` says what each point of a call knows:
   between check and commit there is room for one more overlay, and the unlocked assignment in
   the servicer replaces the record of a tenant whose cleanup has left nothing. Both last until the call's next
   step only because no other call of the tenant runs (`OneCallEach`). `Bytes(t)` is the
   cardinality of the set of the tenant's bytes, so a sum needs no induction over the buffers.
   From it `ChargesAreExact` and `QuotasAreRespected` follow, and with layer 3 `CleanupTakesItsOwn`: when
   a cleanup of a tenant in `SerialTenants` answers success, the zone manager, the resource manager and the tenant manager agree that nothing is left;
   and no step of a cleanup of any tenant, whatever its outcome, changes what another holds.
5. `IsolationInv`, in `HypervisorZoneProofs`, for boards where neither GPIO writes nor downloads fail (`~HardwareFaults`).
   `FreeZonesIsolated`: each region that nobody has and that was programmed once is isolated, or in the hands of a
   method that holds the lock, as the region being programmed or on the list of a cleanup that
   has yet to decouple it. `GivesUpUnknownZones`: without faults `reconfigure_pr_zone` returns `False`
   only for a zone that has no decoupler, so a load that is given up leaves no region connected.
   `DevicesFollowZones` needs no more than layer 1.

`HypervisorZoneProofs` also shows that each step of `Hypervisor` maps to a step of `VFPGALease` or a stutter,
using layer 2, and carries the lease's own invariant over.

`AtlasCrossbarProofs`: the registered uniqueness bit is true of the registered map, since both
are loaded at one edge. From it follow the exclusive connection and that the
routing loop never has two candidates. `NoPadGlitches`: what drives a pad is computed from the
registers and from the connected virtual pin, so a step that leaves both alone leaves the pad alone.

`AtlasAXIProofs` assumes `AddressFirst`. The invariant ties the slave's state to the master's: in
`Wdata` exactly between the two handshakes of a write, with its address latched. So the
register selected whenever WVALID is high is the one addressed, and since storing a word
twice is storing it once (`StrobedTwice`), it does not matter at how many edges the slave
sees it. That a write starts only when the last response can be taken makes the one bit
`axi_bvalid` a sufficient count.

Some invariants are theorems and in no run, which they were checked in before they were proved: type
correctness of the crossbar, the slave, the zone tables, the drivers and the connections (`SignalsAreTyped`, `SlaveIsTyped`,
`TablesAreTyped`, `ConnectionTypes` and the like), `NoTakeover`, `ReleaseAllIsComplete`, `LockDiscipline`,
`ReprogrammedZoneIsFree` and `NumbersAreUsed`.

`KernelDriverProofs`. `UioInv`: each platform device on the bus is listed, being made by one writer or
orphaned by an exit, and only one of these (`DevicesAreAccountedFor`, `NoDeviceIsTwice`); and the numbers on the
list and in the writers' hands are behind the counter (`NumbersBehind`), so that two creates that
overlap end with two devices. A reload takes the counter back to 0 under the orphans; the bus refuses a
platform device it already has, which is why the new ones are still distinct. `WindowInv`: a tenant's next offset is past all windows given out, which
makes windows disjoint whatever the sizes. `ListInv` relates the kernel's lists to the offsets the hypervisor
gave out in this life of the module; from it `MmapIsExact` follows, which needs `~CLEARS_FREED`: a kernel that clears freed
memory can report a device that was not created.

`LifecycleProofs`. `DeletedTenantsHoldNothing` is inductive: a tenant leaves the configuration before its resources are
freed, and only a call that finds it there, or a zone of its own, registers anything. For the connection
`LifeInv` says which calls may still be in a server's hands. The key is `OneCallEach` with `CancelledIsUnserved`: a program goes on
without its answer only when its server was stopped, and then it cannot send another call, so no two calls of a
running program are ever served together. From it follow that the flag is raised while a call that
creates is being served (`CallsAreFlagged`), that a cleanup that answered `success=True` has left nothing that
a later step could add (`CleanedIsEmpty`), and so `FlagCoversResources`; and that a retry follows only an answer that
registered nothing (`UnservedMadeNothing`), and so `RetriesTakeEffectOnce`.

`XmpuProofs`, again in layers. `ControlInv`: only one of PMU and RPU ever configures the unit, so there is one call of the driver.
`GateInv`: the lock is never on without the RPU in BYPASS, so the self test can restore POISON (`SelfTestRestores`).
`InterruptInv`: no masked interrupt is raised, and what a handler read is what it clears (`ViolationsAreSeen`).
`TestInv`: what the self test saved. `WholeInv` says which registers of the slot in use have been written at each
point of a call; from it `RegionsAreWhole` and the type invariant `ExampleIsTyped`.
`RoomInv` says how much of the configuration is in place, up to the reset by a second bitstream and on a
unit with two regions or more: the enabled regions are the first of the list, `REGION_0` before `REGION_1`
(`SlotsInOrder`), no call of the driver fails (`CallSucceeds`), and the driver's copy is right
(`InstanceKnows`). `NoRoomInv` is the other case: with one region the PMU fails at the second each time and
never completes. So a configured unit has exactly the two regions, and a lemma about its comparisons
(`BlocksAsRequested`, the page arithmetic) gives `EveryPageIsProtected`, which `ProtectedAsConfigured` samples next to
the regions' borders. `ReportInv` carries this through a program's table: each recorded verdict was
right when its access was made, and the requested regions do not change (`ProgramsPrintTheVerdicts`). These theorems are
about what the regions request, not about what the programs announce, which is not the same (section 5).
`BuildsAreSupported` goes through the rules of the nine headers once (`RuleFacts`): what a rule brings is brought
whatever else was edited or given, and a feature is defined only by its switch, the command line or such a rule.

**Model-checked only.** Liveness: `LockIsReleased`, `TransfersComplete`, `ConfiguredEventually` and
`ViolationsAreServed` depend on fairness, which needs ENABLED and is outside what the prover can do. So are recursion and
induction over data, which no theorem here needs: a tenant's memory is the cardinality of a set. The refinement of `VFPGALease` is proved for its safety, which is all it states.

## 7. Not modelled, and why

* `mmio_read`, `read_buffer`, `write_buffer`, `get_ip_object` and status reports change no state of the
  hypervisor. `unload_overlay` and `free_buffer` are reachable from no RPC; `CharBuffers` has `free_buffer`.
* The char device path is off in `Hypervisor` (`_char_device_enabled` is false), as on a board without the
  kernel module; `CharBuffers` has it, without the rest of the hypervisor.
* In `Hypervisor` a call starts after its token was validated; `TenantLifecycle` has the check, and keeps of the
  resource manager only what is said above. `UpdateTenant`, `AddAllowedBitstream`, `GetTenantStatus` decide
  whether a call is refused or report; any call may be refused in the model.
* Sizes are small integers; numpy's and protobuf's widths are not modelled.
* A program that unmaps a UIO device or ends: it only takes possible writes away. The client's copies of
  buffers and their dirty flags are local to one program.
* Addresses: a request for MMIO is the zone its range lies in. The comparison of
  ranges at `create_mmio` is arithmetic on one request without state.
* The copy of the GPIO line in `_decoupler_states` is written in the same call as the line
  and read only by reports.
* Tri-state contention between the FPGA and the outside of a pad.
* Of the example design: later bitstreams and requests to the error manager come only while the APU's
  program has not started or has ended and the RPU is not setting the unit up; an abort is taken within the
  delay after its access; `ENABLE_RECOVERY` is kept in an image only where the added code tests it (2019.1 with the
  error manager); the simple example runs under an image with neither error manager nor scheduler,
  the other programs of the RPU under one with the scheduler, as their texts ask. Verdicts are recorded for programs whose accesses
  come after the configuration. ERRS1, ERRS2 and the log, a violation in the very clock of a
  clear, the watchdog's time-outs, and the programs' accesses to the processors' own memories are left out.
* The unit's lock for PS masters without user bits (`AWUSER_WIDTH <= 9`), which has no BYPASS: the
  block design propagates the PS's width, so no example design has it.
* What versions 2022.2 to 2023.2 of `xpfw_config.h` define is the same text again; `PmuConfig` gives
  their definitions as the previous version's.
* The rest of the PMU firmware, which is not in the repository, and the MMU filter, of which the repository has
  generated files only.
* Vendor IP, generated HDL, Vivado scripts and generated protobuf code.
