------------------------------- MODULE UioMapper ------------------------------
(***************************************************************************)
(* The kernel module pynq_uio_mapper.c: writes to the class attribute      *)
(* create make a platform device and a UIO device for a physical block,    *)
(* writes to destroy remove the first of that name.                        *)
(*                                                                         *)
(* sysfs serialises the writers of one open file only, so creates and      *)
(* destroys of several processes interleave.  create_store takes the mutex *)
(* for the list and the counter alone: a create is one step per call it    *)
(* makes into the driver core, per read of next_minor and per critical     *)
(* section.  An open attribute does not hold the module either: the exit   *)
(* function runs beside the writers, and only class_remove_file waits for  *)
(* those that are inside create_store.                                     *)
(***************************************************************************)
EXTENDS Integers, Sequences, SequencesExt, FiniteSets

CONSTANTS
  Writers,      \* processes that write to the attributes
  Names,        \* device names
  OtherMinors,  \* minors of /dev/uio that other drivers took
  MaxMinor,     \* the UIO core has minors 0 .. MaxMinor
  MaxCreates    \* bound on next_minor

ASSUME UioMapperAssumption ==
  /\ MaxMinor \in Nat /\ MaxCreates \in Nat
  /\ OtherMinors \subseteq 0 .. MaxMinor

VARIABLES
  next_minor,
  device_list,  \* the list of pynq_uio_device
  bus,          \* platform devices on the bus, by name and id
  uio,          \* the UIO devices of this module: platform device -> minor
  writer,       \* where each process is in create_store
  module,       \* how far the exit function is
  orphans       \* platform devices whose module was unloaded without them

umVars == <<next_minor, device_list, bus, uio, writer, module, orphans>>

PlatformDevice == [name : Names, id : Nat]
ListedDevice == [pdev : PlatformDevice, minor : Nat]

Idle == [pc |-> "idle"]
Creating == [pc : {"add", "register", "number", "list"},
             pdev : PlatformDevice, minor : Nat]

UioTypeOK ==
  /\ next_minor \in Nat
  /\ device_list \in Seq(ListedDevice)
  /\ bus \subseteq PlatformDevice
  /\ DOMAIN uio \subseteq bus
  /\ uio \in [DOMAIN uio -> 0 .. MaxMinor]
  /\ writer \in [Writers -> {Idle} \cup Creating]
  /\ module \in {"loaded", "walked", "destroy removed", "create removed"}
  /\ orphans \subseteq PlatformDevice

UioInit ==
  /\ next_minor = 0
  /\ device_list = << >>
  /\ bus = {}
  /\ uio = [d \in {} |-> 0]
  /\ writer = [w \in Writers |-> Idle]
  /\ module = "loaded"
  /\ orphans = {}

-----------------------------------------------------------------------------
(* Helpers *)

InStep(w, pc) == writer[w].pc = pc
Goto(w, pc) == writer' = [writer EXCEPT ![w].pc = pc]
Return(w) == writer' = [writer EXCEPT ![w] = Idle]

\* The attributes that a write still reaches.
AcceptsCreate == module # "create removed"
AcceptsDestroy == module \in {"loaded", "walked"}

Listed == {device_list[i].pdev : i \in DOMAIN device_list}

FreeMinors == (0 .. MaxMinor) \ (OtherMinors \cup {uio[d] : d \in DOMAIN uio})
LowestFree == CHOOSE m \in FreeMinors : \A n \in FreeMinors : m <= n

Named(name) == {i \in DOMAIN device_list : device_list[i].pdev.name = name}
FirstNamed(name) == CHOOSE i \in Named(name) : \A j \in Named(name) : i <= j

-----------------------------------------------------------------------------
(* create_store; platform_device_add and uio_register_device are external *)

\* The memory is there, or the call ends with nothing to undo.
PlatformDeviceAlloc(w, name) ==
  /\ InStep(w, "idle")
  /\ AcceptsCreate
  /\ next_minor < MaxCreates
  /\ writer' = [writer EXCEPT ![w] =
       [pc |-> "add", pdev |-> [name |-> name, id |-> next_minor], minor |-> 0]]
  /\ UNCHANGED <<next_minor, device_list, bus, uio, module, orphans>>

PlatformDeviceAdd(w) ==
  /\ InStep(w, "add")
  /\ LET pdev == writer[w].pdev IN
       IF pdev \in bus THEN Return(w) /\ UNCHANGED bus
                       ELSE Goto(w, "register") /\ bus' = bus \cup {pdev}
  /\ UNCHANGED <<next_minor, device_list, uio, module, orphans>>

UioRegisterDevice(w) ==
  /\ InStep(w, "register")
  /\ FreeMinors # {}
  /\ uio' = [d \in DOMAIN uio \cup {writer[w].pdev} |->
               IF d = writer[w].pdev THEN LowestFree ELSE uio[d]]
  /\ Goto(w, "number")
  /\ UNCHANGED <<next_minor, device_list, bus, module, orphans>>

\* Mutant: returns without taking the platform device off the bus.
UioRegisterFailsLeaving(w) ==
  /\ InStep(w, "register")
  /\ Return(w)
  /\ UNCHANGED <<next_minor, device_list, bus, uio, module, orphans>>

UioRegisterFails(w) ==
  /\ InStep(w, "register")
  /\ bus' = bus \ {writer[w].pdev}
  /\ Return(w)
  /\ UNCHANGED <<next_minor, device_list, uio, module, orphans>>

\* uio_dev->minor = next_minor, without the mutex.
ReadMinor(w) ==
  /\ InStep(w, "number")
  /\ writer' = [writer EXCEPT ![w].pc = "list", ![w].minor = next_minor]
  /\ UNCHANGED <<next_minor, device_list, bus, uio, module, orphans>>

ListDevice(w) ==
  /\ InStep(w, "list")
  /\ device_list' = Append(device_list, [pdev |-> writer[w].pdev, minor |-> writer[w].minor])
  /\ next_minor' = next_minor + 1
  /\ Return(w)
  /\ UNCHANGED <<bus, uio, module, orphans>>

-----------------------------------------------------------------------------
(* destroy_store *)

\* Mutant: the entry stays on the list.
DestroyKeepsEntry(w, name) ==
  /\ InStep(w, "idle")
  /\ AcceptsDestroy
  /\ Named(name) # {}
  /\ LET pdev == device_list[FirstNamed(name)].pdev IN
       /\ bus' = bus \ {pdev}
       /\ uio' = [d \in DOMAIN uio \ {pdev} |-> uio[d]]
  /\ UNCHANGED <<next_minor, device_list, writer, module, orphans>>

Destroy(w, name) ==
  /\ InStep(w, "idle")
  /\ AcceptsDestroy
  /\ Named(name) # {}
  /\ LET i == FirstNamed(name)
         pdev == device_list[i].pdev IN
       /\ device_list' = RemoveAt(device_list, i)
       /\ bus' = bus \ {pdev}
       /\ uio' = [d \in DOMAIN uio \ {pdev} |-> uio[d]]
  /\ UNCHANGED <<next_minor, writer, module, orphans>>

-----------------------------------------------------------------------------
(* The exit function: the list is emptied first, and the attributes go after; *)
(* removing one refuses new writes and waits for those in progress.           *)

ExitWalks ==
  /\ module = "loaded"
  /\ module' = "walked"
  /\ device_list' = << >>
  /\ bus' = bus \ Listed
  /\ uio' = [d \in DOMAIN uio \ Listed |-> uio[d]]
  /\ UNCHANGED <<next_minor, writer, orphans>>

RemoveDestroy ==
  /\ module = "walked"
  /\ module' = "destroy removed"
  /\ UNCHANGED <<next_minor, device_list, bus, uio, writer, orphans>>

RemoveCreate ==
  /\ module = "destroy removed"
  /\ module' = "create removed"
  /\ UNCHANGED <<next_minor, device_list, bus, uio, writer, orphans>>

\* The writers are through.  The module's memory goes, its list and counter with
\* it, and the module is loaded again.  What a create listed after the walk stays
\* registered and nobody knows it.
Reload ==
  /\ module = "create removed"
  /\ \A w \in Writers : InStep(w, "idle")
  /\ module' = "loaded"
  /\ next_minor' = 0
  /\ device_list' = << >>
  /\ orphans' = orphans \cup Listed
  /\ UNCHANGED <<bus, uio, writer>>

-----------------------------------------------------------------------------

CreateStep(w) ==
  \/ PlatformDeviceAdd(w)
  \/ UioRegisterDevice(w)
  \/ UioRegisterFails(w)
  \/ ReadMinor(w)
  \/ ListDevice(w)

UioNext ==
  \/ \E w \in Writers :
       \/ \E name \in Names : PlatformDeviceAlloc(w, name) \/ Destroy(w, name)
       \/ CreateStep(w)
  \/ ExitWalks \/ RemoveDestroy \/ RemoveCreate \/ Reload

UioSpec == UioInit /\ [][UioNext]_umVars

-----------------------------------------------------------------------------
(* Properties *)

InFlight(pcs) == {writer[w].pdev : w \in {v \in Writers : writer[v].pc \in pcs}}

\* Every device the module made is on the list, where destroy and the exit find
\* it, or in the hands of a writer that is still making it: the unwinding of a
\* create that fails and creates, destroys and an exit that overlap lose none.
\* The exception is an orphan, which a create listed between the exit's walk
\* over the list and the removal of its attribute (pynq_uio_mapper.c:217-230).
OnlyTheExitLoses ==
  /\ bus = Listed \cup InFlight({"register", "number", "list"}) \cup orphans
  /\ DOMAIN uio = Listed \cup InFlight({"number", "list"}) \cup orphans

\* No two devices, listed, being made or orphaned, are the same platform device,
\* and no writer adds to the list what is there already: the unlocked reads of
\* next_minor, and a counter that a reload takes back to 0 under devices of its
\* predecessor, are caught by the bus (create_store, platform_device_add).
DevicesAreDistinct ==
  /\ \A i, j \in DOMAIN device_list : i # j => device_list[i].pdev # device_list[j].pdev
  /\ \A v, w \in Writers :
       /\ writer[v].pc \in {"register", "number", "list"}
       /\ writer[w].pc \in {"register", "number", "list"}
       /\ v # w
       => writer[v].pdev # writer[w].pdev
  /\ (Listed \cup orphans) \cap InFlight({"register", "number", "list"}) = {}
  /\ Listed \cap orphans = {}

\* The number a device is listed with is at least the id of its platform device
\* and below the counter, even when creates overlap: a later create that does
\* not overlap gets a larger one (create_store reads next_minor twice).
NumbersAreUsed ==
  \A i \in DOMAIN device_list :
    device_list[i].pdev.id <= device_list[i].minor /\ device_list[i].minor < next_minor
=============================================================================
