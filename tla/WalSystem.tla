----------------------------- MODULE WalSystem -----------------------------
(***************************************************************************)
(* The WAL driver's loading and unloading (wal_driver_init and _exit in    *)
(* driver/wal_driver_main.c) composed with the program that uses its       *)
(* devices (main in src/kvm_db.cc, through WAL_device_manager and          *)
(* WAL_device_interface in src/kvm_wal.cc).  They meet in /dev: the kernel *)
(* makes nodes for the driver's devices, and the program replaces them     *)
(* with nodes of its own.  Every step of the driver is a step of its own,  *)
(* and so is every system call of the program that looks at a node, makes, *)
(* removes, opens or closes one; most can fail.                            *)
(***************************************************************************)
EXTENDS Naturals, Sequences, Functions

CONSTANTS
  Majors,       \* major numbers the kernel hands out
  DEVICE_MAJOR, \* the major number the program uses: 240
  NULL

ASSUME MajorsAssumption == Majors \cup {DEVICE_MAJOR} \subseteq Nat \ {0}

VARIABLES
  pc,       \* the next step of wal_driver_init, or "unloaded", "loaded", "undo", "exit"
  res,      \* what the driver has registered or allocated
  undo,     \* what an error path or wal_driver_exit has still to release
  dev,      \* major and minor number of the driver's two devices
  node,     \* what is at /dev/rwal and /dev/wal, or NULL
  upc,      \* the program's next system call
  target,   \* the device it is for
  created,  \* devices whose m_..._device_created is set
  fds       \* devices the program has open

driverVars == <<pc, res, undo, dev>>
programVars == <<upc, target, created, fds>>
systemVars == <<driverVars, node, programVars>>

Devices == {"char", "block"}
Steps == <<"region", "cdev", "class", "device", "data", "disk", "blkdev", "added", "proc">>
Programs == {"start", "exists", "remove", "mknod", "probe", "open", "close", "cleanup", "unlink"}
Numbers == (Majors \cup {DEVICE_MAJOR, 0}) \X {0, 1}
Nodes == [number : Numbers, kernel : BOOLEAN]

ASSUME NullAssumption == NULL \notin Nodes

TypeSystem ==
  /\ pc \in Range(Steps) \cup {"unloaded", "loaded", "undo", "exit"}
  /\ res \subseteq Range(Steps)
  /\ undo \in Seq(Range(Steps))
  /\ dev \in [Devices -> Numbers]
  /\ node \in [Devices -> Nodes \cup {NULL}]
  /\ upc \in Programs /\ target \in Devices
  /\ created \subseteq Devices /\ fds \subseteq Devices

InitSystem ==
  /\ pc = "unloaded" /\ res = {} /\ undo = <<>>
  /\ dev = [d \in Devices |-> <<0, 0>>]
  /\ node = [d \in Devices |-> NULL]
  /\ upc = "start" /\ target = "char" /\ created = {} /\ fds = {}
-----------------------------------------------------------------------------
(* wal_driver_cleanup_char_device and wal_driver_cleanup_block_device.     *)
CleanupChar == <<"device", "class", "cdev", "region">>
(* Mutant: CleanupBlock with the storage freed first.                      *)
CleanupBlockDataFirst == <<"data", "added", "disk", "blkdev">>

CleanupBlock == <<"added", "disk", "blkdev", "data">>

(* Mutant: Undo with class_destroy missing from its label.                 *)
UndoKeepsClass(step) ==
  CASE step = "region" -> <<>>
    [] step = "cdev" -> <<"region">>
    [] step \in {"class", "device"} -> <<"cdev", "region">>
    [] step = "data" -> CleanupChar
    [] step = "disk" -> <<"data">> \o CleanupChar
    [] step = "blkdev" -> <<"disk", "data">> \o CleanupChar
    [] step = "added" -> <<"blkdev", "disk", "data">> \o CleanupChar

(* What is released when a step fails: the labels of the two functions,    *)
(* and fail_block.                                                         *)
Undo(step) ==
  CASE step = "region" -> <<>>
    [] step = "cdev" -> <<"region">>
    [] step = "class" -> <<"cdev", "region">>
    [] step = "device" -> <<"class", "cdev", "region">>
    [] step = "data" -> CleanupChar
    [] step = "disk" -> <<"data">> \o CleanupChar
    [] step = "blkdev" -> <<"disk", "data">> \o CleanupChar
    [] step = "added" -> <<"blkdev", "disk", "data">> \o CleanupChar

After(step) == IF step = "proc" THEN "loaded"
               ELSE Steps[1 + CHOOSE k \in DOMAIN Steps : Steps[k] = step]

(* devtmpfs makes a node when a device appears, unless there is one, and   *)
(* removes it with the device if it is still its own.                      *)
NodeOf(step) == CASE step = "device" -> {"char"} [] step = "added" -> {"block"} [] OTHER -> {}
NodesMade(step) ==
  [d \in Devices |-> IF d \in NodeOf(step) /\ node[d] = NULL
                     THEN [number |-> dev[d], kernel |-> TRUE] ELSE node[d]]
NodesRemoved(step) ==
  [d \in Devices |-> IF d \in NodeOf(step) /\ node[d] # NULL /\ node[d].kernel
                     THEN NULL ELSE node[d]]

Load ==
  /\ pc = "unloaded"
  /\ pc' = "region"
  /\ UNCHANGED <<res, undo, dev, node, programVars>>

(* alloc_chrdev_region and register_blkdev choose a major number.          *)
Acquire(step, m) ==
  /\ pc = step
  /\ res' = res \cup {step}
  /\ dev' = CASE step = "region" -> [dev EXCEPT !["char"] = <<m, 0>>]
              [] step = "blkdev" -> [dev EXCEPT !["block"] = <<m, 0>>]
              [] OTHER -> dev
  /\ node' = NodesMade(step)
  /\ pc' = After(step)
  /\ UNCHANGED <<undo, programVars>>

AcquireFail(step) ==
  /\ pc = step /\ step # "proc"
  /\ undo' = Undo(step)
  /\ pc' = "undo"
  /\ UNCHANGED <<res, dev, node, programVars>>

(* The /proc entry is not needed.                                          *)
ProcFail ==
  /\ pc = "proc"
  /\ pc' = "loaded"
  /\ UNCHANGED <<res, undo, dev, node, programVars>>

(* rmmod: the kernel refuses it while a device is open.                    *)
Unload ==
  /\ pc = "loaded" /\ fds = {}
  /\ undo' = (IF "proc" \in res THEN <<"proc">> ELSE <<>>) \o CleanupBlock \o CleanupChar
  /\ pc' = "exit"
  /\ UNCHANGED <<res, dev, node, programVars>>

Release ==
  /\ undo # <<>>
  /\ res' = res \ {Head(undo)}
  /\ node' = NodesRemoved(Head(undo))
  /\ undo' = Tail(undo)
  /\ UNCHANGED <<pc, dev, programVars>>

(* The memory of the module is freed.                                      *)
Gone ==
  /\ pc \in {"undo", "exit"} /\ undo = <<>>
  /\ pc' = "unloaded"
  /\ dev' = [d \in Devices |-> <<0, 0>>]
  /\ UNCHANGED <<res, undo, node, programVars>>
-----------------------------------------------------------------------------
StaticNumber(d) == <<DEVICE_MAJOR, IF d = "char" THEN 0 ELSE 1>>

(* The call is step, for the device d.                                     *)
GoTo(step, d) == upc' = step /\ target' = d

Start ==
  /\ upc = "start"
  /\ GoTo("exists", "char")
  /\ UNCHANGED <<driverVars, node, created, fds>>

(* create_single_device looks for a node ...                               *)
Exists ==
  /\ upc = "exists"
  /\ GoTo(IF node[target] # NULL THEN "remove" ELSE "mknod", target)
  /\ UNCHANGED <<driverVars, node, created, fds>>

(* ... removes it, whoever made it ...                                     *)
RemoveExisting ==
  /\ upc = "remove" /\ node[target] # NULL
  /\ node' = [node EXCEPT ![target] = NULL]
  /\ GoTo("mknod", target)
  /\ UNCHANGED <<driverVars, created, fds>>

(* ... and makes one, which fails if there is one again.                   *)
Mknod ==
  /\ upc = "mknod" /\ node[target] = NULL
  /\ node' = [node EXCEPT ![target] = [number |-> StaticNumber(target), kernel |-> FALSE]]
  /\ created' = created \cup {target}
  /\ IF target = "char" THEN GoTo("exists", "block") ELSE GoTo("probe", "block")
  /\ UNCHANGED <<driverVars, fds>>

(* Mutant: CreateFail with m_..._device_created set before the call.       *)
CreateFailFlagged ==
  /\ \/ upc = "remove" /\ node[target] = NULL
     \/ upc = "mknod"
  /\ created' = created \cup {target}
  /\ GoTo("cleanup", "char")
  /\ UNCHANGED <<driverVars, node, fds>>

(* The node to be removed is gone, or mknod fails: create_devices takes    *)
(* /dev/rwal back if it was made, and main returns.  cleanup_devices, which *)
(* then runs, does the same; one of the two at most finds a node to unlink. *)
CreateFail ==
  /\ \/ upc = "remove" /\ node[target] = NULL
     \/ upc = "mknod"
  /\ GoTo("cleanup", "char")
  /\ UNCHANGED <<driverVars, node, created, fds>>

(* KVM_probe::initialize fails, or the program goes on to open_devices.    *)
Probe ==
  /\ upc = "probe"
  /\ GoTo("open", "char") \/ GoTo("cleanup", "char")
  /\ UNCHANGED <<driverVars, node, created, fds>>

(* Whether open finds a driver behind the node of d.                       *)
Reaches(d) ==
  /\ node[d] # NULL /\ node[d].number = dev[d]
  /\ (IF d = "char" THEN "cdev" ELSE "added") \in res
  /\ pc # "exit"

(* open_devices opens one device and then the other.  With both open the   *)
(* program does its tests, which change nothing here.                      *)
Open ==
  /\ upc = "open" /\ Reaches(target)
  /\ fds' = fds \cup {target}
  /\ IF target = "char" THEN GoTo("open", "block") ELSE GoTo("close", "char")
  /\ UNCHANGED <<driverVars, node, created>>

OpenFail ==
  /\ upc = "open"
  /\ GoTo("close", "char")
  /\ UNCHANGED <<driverVars, node, created, fds>>

(* open_devices, when the second open fails, and ~WAL_device_interface     *)
(* close what is open.                                                     *)
CloseDevice ==
  /\ upc = "close"
  /\ fds' = fds \ {target}
  /\ IF target = "char" THEN GoTo("close", "block") ELSE GoTo("cleanup", "char")
  /\ UNCHANGED <<driverVars, node, created>>

(* What follows cleanup_single_device: the other device, or the end of the *)
(* program, which takes the flags in made with it.                         *)
Cleaned(made) ==
  IF target = "char" THEN GoTo("cleanup", "block") /\ created' = made
  ELSE GoTo("start", "char") /\ created' = {}

(* cleanup_single_device looks for the node of a device it has made ...    *)
Cleanup ==
  /\ upc = "cleanup"
  /\ IF target \in created /\ node[target] # NULL
     THEN GoTo("unlink", target) /\ UNCHANGED created
     ELSE Cleaned(created)
  /\ UNCHANGED <<driverVars, node, fds>>

(* ... and unlinks it.  A node that unlink cannot remove stays, and is     *)
(* forgotten.                                                              *)
Unlink ==
  /\ upc = "unlink"
  /\ node' \in {node, [node EXCEPT ![target] = NULL]}
  /\ Cleaned(created \ {target})
  /\ UNCHANGED <<driverVars, fds>>

(* The program dies, by a signal or an exception nobody catches.           *)
Killed ==
  /\ upc # "start"
  /\ GoTo("start", "char") /\ created' = {} /\ fds' = {}
  /\ UNCHANGED <<driverVars, node>>

Driver ==
  \/ Load \/ ProcFail \/ Unload \/ Release \/ Gone
  \/ \E step \in Range(Steps) : AcquireFail(step) \/ \E m \in Majors : Acquire(step, m)

Program ==
  \/ Start \/ Exists \/ RemoveExisting \/ Mknod \/ CreateFail \/ Probe
  \/ Open \/ OpenFail \/ CloseDevice \/ Cleanup \/ Unlink \/ Killed

NextSystem == Driver \/ Program

SpecSystem == InitSystem /\ [][NextSystem]_systemVars
-----------------------------------------------------------------------------
(* A driver whose load failed at any step, or that was unloaded, has       *)
(* released all it had, and the kernel has no node of it left in /dev.     *)
NothingLeftBehind ==
  pc = "unloaded" => res = {} /\ \A d \in Devices : node[d] # NULL => ~node[d].kernel

(* As long as the disk can be given requests its storage exists: an error  *)
(* path or wal_driver_exit frees block_data only after the disk is gone.   *)
StorageUnderDisk == "added" \in res => {"data", "disk", "blkdev"} \subseteq res

(* What the program takes for its own node is its own: whatever the driver *)
(* and the kernel do between its looking for a node, making one, looking   *)
(* again and unlinking it, cleanup_single_device never unlinks the node of *)
(* a driver that was loaded in between.                                    *)
CleanupRemovesOwn ==
  /\ \A d \in created : node[d] # NULL /\ ~node[d].kernel
  /\ upc = "unlink" => target \in created

(* /dev/rwal and /dev/wal lead to the driver's devices for as long as the  *)
(* driver is loaded.                                                       *)
NodesLeadToDriver ==
  pc = "loaded" => \A d \in Devices : node[d] # NULL => node[d].number = dev[d]
=============================================================================
