--------------------------- MODULE UringblkModule ---------------------------
(***************************************************************************)
(* Loading and unloading the uringblk driver (driver/uringblk_main.c):     *)
(* uringblk_init with uringblk_init_admin_dev, parse_device_list and       *)
(* uringblk_init_device, every step of which can fail; the error labels,   *)
(* each a step of its own; uringblk_exit with uringblk_cleanup_device and  *)
(* uringblk_cleanup_admin_dev; and the opening of administration files     *)
(* while all this goes on.                                                 *)
(***************************************************************************)
EXTENDS Integers, Sequences, FiniteSetsExt

CONSTANTS
  Lists,        \* values of the parameter devices: sequences of entries
  Paths,        \* values of the parameter backend_device; EMPTY is the empty one
  EMPTY,        \* an empty entry or path
  GARBAGE, NULL, \* an uninitialised pointer, the null pointer
  MaxDevices,   \* values of the parameter max_devices, an int
  URINGBLK_MINORS \* how many minors the administration interface has

ASSUME ModuleAssumption ==
  /\ EMPTY \in Paths /\ GARBAGE \notin Paths /\ NULL \notin Paths
  /\ NULL \notin Seq(Paths) /\ GARBAGE # NULL
  /\ MaxDevices \subseteq Int
  /\ URINGBLK_MINORS \in Nat \ {0}
  /\ \A l \in Lists : l \in Seq(Paths)

VARIABLES
  param,        \* module parameters: devices, backend_device, type, max_devices
  pc,           \* where uringblk_init or uringblk_exit has got to
  unloading,    \* uringblk_exit runs, not uringblk_init
  res,          \* what the driver has registered or allocated
  devres,       \* what each minor has
  paths,        \* device_paths: a sequence, or NULL
  count,        \* device_count
  slot,         \* uringblk_device_array: index -> path, NULL or GARBAGE
  num,          \* num_devices
  i,            \* the loop variable of uringblk_init and uringblk_exit
  wild,         \* kinds of pointers followed or freed that were never set
  opened        \* open administration files: minor, and whether it had its node

vars == <<param, pc, unloading, res, devres, paths, count, slot, num, i, wild, opened>>

(* What uringblk_init acquires once, and what it acquires for each minor,  *)
(* in order.                                                               *)
Global == {"region", "cdev", "class", "blkdev", "paths", "strings", "array"}
PerDevice == {"dev", "backend", "tags", "disk", "added", "sysfs", "node"}
Minors == 0 .. (URINGBLK_MINORS - 1)

(* A path of device_paths, a slot of the device array, and the slot read   *)
(* by the open of an administration file.                                  *)
Kinds == {"path", "slot", "open"}

GlobalPcs == {"region", "cdev", "class", "validate", "blkdev", "parse", "array"}
DevicePcs == {"dev", "devvalidate", "backend", "tags", "disk", "added", "sysfs", "node",
              "nextdev"}
DeviceLabels == {"err_put_disk", "err_free_tag_set", "err_cleanup_backend", "err_free_dev",
                 "err_clear_slot"}
CleanupPcs == {"cleanup", "rm_node", "rm_sysfs", "del_disk", "put_disk", "rm_tags",
               "rm_backend", "rm_dev"}
GlobalLabels == {"err_del_cdev", "err_unreg_chrdev", "err_free_paths", "err_unregister"}
ExitPcs == {"exit_blkdev", "exit_class", "exit_cdev", "exit_region"}
Pcs == {"unloaded", "failed", "loaded", "exited"} \cup GlobalPcs \cup DevicePcs
         \cup DeviceLabels \cup CleanupPcs \cup GlobalLabels \cup ExitPcs

Init ==
  /\ param \in [devices : Lists, backend : Paths, type : {"virtual", "device"},
                max : MaxDevices]
  /\ pc = "unloaded" /\ unloading = FALSE
  /\ res = {} /\ devres = [m \in Minors |-> {}]
  /\ paths = NULL
  /\ count = 0
  /\ slot = <<>>
  /\ num = 0
  /\ i = 0
  /\ wild = {}
  /\ opened = {}
-----------------------------------------------------------------------------
(* validate_backend_config.                                                *)
Valid(type, path) == type = "virtual" \/ path # EMPTY

(* What parse_device_list returns: the separator after an entry has been   *)
(* overwritten by the time the loop looks for it, so the loop ends after   *)
(* the first entry, which is left out if it is empty.                      *)
ParseDeviceList(list) == IF Head(list) = EMPTY THEN <<>> ELSE <<Head(list)>>

(* The element of device_paths the loop reads for device m: the array is   *)
(* not initialised beyond the entries that were parsed.                    *)
PathAt(m) == IF m < Len(paths) THEN paths[m + 1] ELSE GARBAGE

(* free_device_list frees the first device_count entries and the array.    *)
ListFreed ==
  {"paths"} \cup (IF paths # NULL /\ count >= Len(paths) THEN {"strings"} ELSE {})
FreesGarbage == paths # NULL /\ count > Len(paths)

FreeDeviceList ==
  /\ res' = res \ ListFreed
  /\ wild' = IF FreesGarbage THEN wild \cup {"path"} ELSE wild
  /\ paths' = NULL

(* A device list was given, or a single device.                            *)
Listed == param.devices # <<>>
Single == ~Listed /\ param.type = "device" /\ param.backend # EMPTY

(* A step that registers one thing, and goes on.                           *)
Register(step, next) ==
  /\ pc = step
  /\ res' = res \cup {step}
  /\ pc' = next
  /\ UNCHANGED <<param, unloading, devres, paths, count, slot, num, i, wild, opened>>

(* Where a step of uringblk_init_admin_dev or uringblk_init goes on when   *)
(* it fails: to a label, or out of uringblk_init at once.                  *)
OnError(step) ==
  CASE step = "cdev" -> "err_unreg_chrdev"
    [] step = "class" -> "err_del_cdev"
    [] step = "parse" -> "err_unregister"
    [] step = "array" -> "err_free_paths"
    [] OTHER -> "failed"

RegisterFail(step) ==
  /\ pc = step
  /\ step = "parse" => Listed \/ Single
  /\ pc' = OnError(step)
  /\ UNCHANGED <<param, unloading, res, devres, paths, count, slot, num, i, wild, opened>>

(* A label, or a step of uringblk_exit, that releases one thing.           *)
Unregister(label, next, thing) ==
  /\ pc = label
  /\ res' = res \ {thing}
  /\ pc' = next
  /\ UNCHANGED <<param, unloading, devres, paths, count, slot, num, i, wild, opened>>

Load ==
  /\ pc = "unloaded"
  /\ pc' = "region"
  /\ UNCHANGED <<param, unloading, res, devres, paths, count, slot, num, i, wild, opened>>

(* The early validation: a refusal leaves uringblk_init at once.           *)
Validate ==
  /\ pc = "validate"
  /\ IF Valid(param.type, param.backend)
     THEN pc' = "blkdev"
     ELSE pc' = "failed"
  /\ UNCHANGED <<param, unloading, res, devres, paths, count, slot, num, i, wild, opened>>

(* Mutant: Clamp to max_devices whatever was parsed.                       *)
ClampToMax(n) == param.max

Clamp(n) == Min({param.max, IF n =< 0 THEN 1 ELSE n})

(* The device list, or the single device, and the number of devices.       *)
Parse ==
  /\ pc = "parse"
  /\ pc' = "array"
  /\ LET found == ParseDeviceList(param.devices) IN
       /\ paths' = IF Listed THEN found
                   ELSE IF Single THEN <<param.backend>> ELSE NULL
       /\ count' = IF Listed THEN Clamp(Len(found)) ELSE Clamp(1)
       /\ param' = IF Listed /\ Min({Len(found), param.max}) > 0
                   THEN [param EXCEPT !.type = "device"] ELSE param
       /\ res' = IF Listed \/ Single THEN res \cup {"paths", "strings"} ELSE res
  /\ UNCHANGED <<unloading, devres, slot, num, i, wild, opened>>

(* kmalloc_array does not clear what it allocates, and refuses a negative  *)
(* number of elements.                                                     *)
AllocArray ==
  /\ pc = "array" /\ count >= 0
  /\ res' = res \cup {"array"}
  /\ slot' = [m \in 0 .. (count - 1) |-> GARBAGE]
  /\ pc' = "dev"
  /\ UNCHANGED <<param, unloading, devres, paths, count, num, i, wild, opened>>
-----------------------------------------------------------------------------
(* The loop of uringblk_init: the device is allocated, and its             *)
(* configuration filled in from device_paths.                              *)
AllocDevice ==
  /\ pc = "dev" /\ i < count
  /\ devres' = [devres EXCEPT ![i] = {"dev"}]
  /\ slot' = [slot EXCEPT ![i] = IF paths = NULL THEN param.backend ELSE PathAt(i)]
  /\ wild' = IF paths # NULL /\ PathAt(i) = GARBAGE THEN wild \cup {"path"} ELSE wild
  /\ pc' = "devvalidate"
  /\ UNCHANGED <<param, unloading, res, paths, count, num, i, opened>>

(* The error path runs the same variable i through the array again.        *)
AllocDeviceFail ==
  /\ pc = "dev" /\ i < count
  /\ slot' = [slot EXCEPT ![i] = NULL]
  /\ i' = 0
  /\ pc' = "cleanup"
  /\ UNCHANGED <<param, unloading, res, devres, paths, count, num, wild, opened>>

(* uringblk_init_device starts by clearing the device, and takes its       *)
(* configuration from the module parameters.                               *)
InitDevice ==
  /\ pc = "devvalidate"
  /\ slot' = [slot EXCEPT ![i] = param.backend]
  /\ IF Valid(param.type, param.backend)
     THEN pc' = "backend"
     ELSE pc' = "err_free_dev"
  /\ UNCHANGED <<param, unloading, res, devres, paths, count, num, i, wild, opened>>

(* Mutant: Following with the administration node made as soon as there is *)
(* a disk.                                                                 *)
FollowingNodeEarly(step) ==
  CASE step = "backend" -> "tags"
    [] step = "tags" -> "disk"
    [] step = "disk" -> "node"
    [] step = "node" -> "added"
    [] step = "added" -> "sysfs"
    [] step = "sysfs" -> "nextdev"

(* The order of the steps of uringblk_init_device.                         *)
Following(step) ==
  CASE step = "backend" -> "tags"
    [] step = "tags" -> "disk"
    [] step = "disk" -> "added"
    [] step = "added" -> "sysfs"
    [] step = "sysfs" -> "node"
    [] step = "node" -> "nextdev"

DeviceStep(step) ==
  /\ pc = step
  /\ devres' = [devres EXCEPT ![i] = @ \cup {step}]
  /\ pc' = Following(step)
  /\ UNCHANGED <<param, unloading, res, paths, count, slot, num, i, wild, opened>>

(* Mutant: OnDeviceError jumping past the label that cleans the backend.   *)
OnDeviceErrorShort(step) ==
  CASE step = "backend" -> "err_free_dev"
    [] step = "tags" -> "err_free_dev"
    [] step = "disk" -> "err_free_tag_set"
    [] step = "added" -> "err_put_disk"
    [] OTHER -> Following(step)

(* Where uringblk_init_device goes on when a step fails; neither sysfs nor *)
(* the administration node is needed.                                      *)
OnDeviceError(step) ==
  CASE step = "backend" -> "err_free_dev"
    [] step = "tags" -> "err_cleanup_backend"
    [] step = "disk" -> "err_free_tag_set"
    [] step = "added" -> "err_put_disk"
    [] OTHER -> Following(step)

DeviceFail(step) ==
  /\ pc = step
  /\ pc' = OnDeviceError(step)
  /\ UNCHANGED <<param, unloading, res, devres, paths, count, slot, num, i, wild, opened>>

(* A label of uringblk_init_device, the kfree of its caller, or a call of  *)
(* uringblk_cleanup_device: one thing of device i is released.             *)
Release(label, next, thing) ==
  /\ pc = label
  /\ devres' = [devres EXCEPT ![i] = @ \ {thing}]
  /\ pc' = next
  /\ UNCHANGED <<param, unloading, res, paths, count, slot, num, i, wild, opened>>

ClearSlot ==
  /\ pc = "err_clear_slot"
  /\ slot' = [slot EXCEPT ![i] = NULL]
  /\ i' = 0
  /\ pc' = "cleanup"
  /\ UNCHANGED <<param, unloading, res, devres, paths, count, num, wild, opened>>

(* Mutant: NextDevice counting a device twice.                             *)
NextDeviceTwice ==
  /\ pc = "nextdev"
  /\ num' = num + 2 /\ i' = i + 1
  /\ pc' = "dev"
  /\ UNCHANGED <<param, unloading, res, devres, paths, count, slot, wild, opened>>

NextDevice ==
  /\ pc = "nextdev"
  /\ num' = num + 1 /\ i' = i + 1
  /\ pc' = "dev"
  /\ UNCHANGED <<param, unloading, res, devres, paths, count, slot, wild, opened>>

Loaded ==
  /\ pc = "dev" /\ i >= count
  /\ FreeDeviceList
  /\ pc' = "loaded"
  /\ UNCHANGED <<param, unloading, devres, count, slot, num, i, opened>>

(* The start of uringblk_exit; a module that is in use is not unloaded.    *)
Exit ==
  /\ pc = "loaded" /\ opened = {}
  /\ unloading' = TRUE
  /\ i' = 0
  /\ pc' = "cleanup"
  /\ UNCHANGED <<param, res, devres, paths, count, slot, num, wild, opened>>

(* Mutant: Bound one short in uringblk_exit.                               *)
BoundShort == IF unloading THEN num - 1 ELSE count

(* How far the loops of err_cleanup_devices and of uringblk_exit run.      *)
Bound == IF unloading THEN num ELSE count

(* One round of these loops: a device that was completed is cleaned up and *)
(* freed, one that was not is only freed, and so is whatever an            *)
(* uninitialised slot holds.                                               *)
Cleanup ==
  /\ pc = "cleanup" /\ i < Bound
  /\ pc' = CASE slot[i] \in {NULL, GARBAGE} -> "cleanup"
             [] OTHER -> IF i < num THEN "rm_node" ELSE "rm_dev"
  /\ i' = IF slot[i] \in {NULL, GARBAGE} THEN i + 1 ELSE i
  /\ wild' = IF slot[i] = GARBAGE THEN wild \cup {"slot"} ELSE wild
  /\ UNCHANGED <<param, unloading, res, devres, paths, count, slot, num, opened>>

FreeDevice ==
  /\ pc = "rm_dev"
  /\ devres' = [devres EXCEPT ![i] = @ \ {"dev"}]
  /\ i' = i + 1
  /\ pc' = "cleanup"
  /\ UNCHANGED <<param, unloading, res, paths, count, slot, num, wild, opened>>

(* After the loop the device array goes; the error path resets             *)
(* num_devices here, uringblk_exit at its end.                             *)
FreeArray ==
  /\ pc = "cleanup" /\ i >= Bound
  /\ res' = res \ {"array"}
  /\ slot' = <<>>
  /\ num' = IF unloading THEN num ELSE 0
  /\ pc' = IF unloading THEN "exit_blkdev" ELSE "err_free_paths"
  /\ UNCHANGED <<param, unloading, devres, paths, count, i, wild, opened>>

FreePaths ==
  /\ pc = "err_free_paths"
  /\ FreeDeviceList
  /\ pc' = "err_unregister"
  /\ UNCHANGED <<param, unloading, devres, count, slot, num, i, opened>>

ExitEnd ==
  /\ pc = "exit_region"
  /\ res' = res \ {"region"}
  /\ num' = 0
  /\ pc' = "exited"
  /\ UNCHANGED <<param, unloading, devres, paths, count, slot, i, wild, opened>>
-----------------------------------------------------------------------------
(* uringblk_admin_open of minor m, through the node the driver made or     *)
(* through any other node with its numbers.  The kernel lets it in from    *)
(* cdev_add on, and not any more once the module goes.  The array may not  *)
(* be there yet, be too short, or not be set at m, or hold a device that   *)
(* was freed; a null slot is refused with -ENODEV.                         *)
Stray(m) == m \notin DOMAIN slot \/ slot[m] = GARBAGE
              \/ (slot[m] # NULL /\ "dev" \notin devres[m])

AdminOpen(m) ==
  /\ "cdev" \in res /\ ~unloading /\ pc # "failed"
  /\ m \in DOMAIN slot => slot[m] # NULL
  /\ IF Stray(m)
     THEN /\ wild' = wild \cup {"open"}
          /\ UNCHANGED opened
     ELSE /\ opened' = opened \cup {<<m, "node" \in devres[m]>>}
          /\ UNCHANGED wild
  /\ UNCHANGED <<param, pc, unloading, res, devres, paths, count, slot, num, i>>

(* uringblk_admin_release.                                                 *)
AdminRelease(f) ==
  /\ f \in opened /\ pc # "failed"
  /\ opened' = opened \ {f}
  /\ UNCHANGED <<param, pc, unloading, res, devres, paths, count, slot, num, i, wild>>
-----------------------------------------------------------------------------
GlobalStep ==
  \/ Load
  \/ Register("region", "cdev") \/ Register("cdev", "class") \/ Register("class", "validate")
  \/ Validate
  \/ Register("blkdev", "parse") \/ Parse \/ AllocArray
  \/ \E step \in GlobalPcs \ {"validate"} : RegisterFail(step)
  \/ Unregister("err_del_cdev", "err_unreg_chrdev", "cdev")
  \/ Unregister("err_unreg_chrdev", "failed", "region")
  \/ FreePaths
  \/ Unregister("err_unregister", "failed", "blkdev")

DeviceInit ==
  \/ AllocDevice \/ AllocDeviceFail \/ InitDevice
  \/ \E step \in {"backend", "tags", "disk", "added", "sysfs", "node"} :
       DeviceStep(step) \/ DeviceFail(step)
  \/ Release("err_put_disk", "err_free_tag_set", "disk")
  \/ Release("err_free_tag_set", "err_cleanup_backend", "tags")
  \/ Release("err_cleanup_backend", "err_free_dev", "backend")
  \/ Release("err_free_dev", "err_clear_slot", "dev")
  \/ ClearSlot \/ NextDevice \/ Loaded

CleanupStep ==
  \/ Cleanup
  \/ Release("rm_node", "rm_sysfs", "node") \/ Release("rm_sysfs", "del_disk", "sysfs")
  \/ Release("del_disk", "put_disk", "added") \/ Release("put_disk", "rm_tags", "disk")
  \/ Release("rm_tags", "rm_backend", "tags") \/ Release("rm_backend", "rm_dev", "backend")
  \/ FreeDevice \/ FreeArray

ExitStep ==
  \/ Exit
  \/ Unregister("exit_blkdev", "exit_class", "blkdev")
  \/ Unregister("exit_class", "exit_cdev", "class")
  \/ Unregister("exit_cdev", "exit_region", "cdev")
  \/ ExitEnd

Next ==
  \/ GlobalStep \/ DeviceInit \/ CleanupStep \/ ExitStep
  \/ \E m \in Minors : AdminOpen(m)
  \/ \E f \in opened : AdminRelease(f)

Spec == Init /\ [][Next]_vars
-----------------------------------------------------------------------------
(* The values the variables take.                                          *)
TypeOK ==
  /\ param \in [devices : Lists, backend : Paths, type : {"virtual", "device"},
                max : MaxDevices]
  /\ pc \in Pcs /\ unloading \in BOOLEAN
  /\ res \subseteq Global /\ devres \in [Minors -> SUBSET PerDevice]
  /\ paths = NULL \/ paths \in Seq(Paths \ {EMPTY})
  /\ count \in Int /\ 0 .. (count - 1) \subseteq Minors
  /\ DOMAIN slot \subseteq Minors
  /\ num \in Nat /\ i \in Nat /\ (count >= 0 => num =< count /\ i =< count)
  /\ wild \subseteq Kinds
  /\ opened \subseteq Minors \X BOOLEAN

(* uringblk_init and its error paths follow or free a pointer that was     *)
(* never set only if the device list begins with an empty entry: then      *)
(* device_count, forced to one, exceeds what parse_device_list stored.  No *)
(* other list, limit or failing step makes them reach an entry of          *)
(* device_paths that was not parsed or a slot of uringblk_device_array the *)
(* loop had not come to.                                                   *)
WildOnlyFromHole == wild \cap {"path", "slot"} # {} => Listed /\ Head(param.devices) = EMPTY

(* Whatever can still reach a device, requests through its disk or         *)
(* commands through an administration file opened by its node, finds the   *)
(* backend, the tag set and the disk there, at every step of loading, of   *)
(* the error labels and of unloading.                                      *)
ReachableDeviceWhole ==
  \A m \in Minors :
    "added" \in devres[m] \/ <<m, TRUE>> \in opened =>
      {"dev", "backend", "tags", "disk"} \subseteq devres[m]

(* What is lost when max_devices leaves no device: device_count is then    *)
(* less than the number of entries that were copied.                       *)
Uncounted == IF param.max =< 0 THEN {"strings"} ELSE {}

(* Unloading the driver gives back all that loading it acquired.           *)
ExitReleasesAll ==
  pc = "exited" => res \subseteq Uncounted /\ \A m \in Minors : devres[m] = {}

(* At whatever step loading fails, the labels of uringblk_init_device and  *)
(* of uringblk_init give back every device, the device array, the device   *)
(* list and the block major; only the administration interface can stay.   *)
FailedLoadKeepsAtMostAdmin ==
  pc = "failed" => /\ res \subseteq {"region", "cdev", "class"} \cup Uncounted
                   /\ \A m \in Minors : devres[m] = {}

(* A driver that could not be loaded has left nothing registered.          *)
FailedLoadReleasesAll == pc = "failed" => res = {} /\ \A m \in Minors : devres[m] = {}

(* Neither an entry of device_paths nor a slot of uringblk_device_array is *)
(* followed or freed by uringblk_init before it was set.                   *)
NoWildPointer == wild \cap {"path", "slot"} = {}

(* The open of an administration file reads a slot that was set and holds  *)
(* a device that was not freed.                                            *)
NoStrayOpen == "open" \notin wild

Entries == SelectSeq(param.devices, LAMBDA p : p # EMPTY)

(* With a device list, there is a device for each path it names, up to     *)
(* max_devices.                                                            *)
EveryListedPathHasDevice ==
  pc = "loaded" /\ Entries # <<>> => num = Min({Len(Entries), param.max})

(* With a device list, the devices sit on the paths it names.              *)
DevicesSitOnListedPaths ==
  pc = "loaded" /\ Entries # <<>> => \A m \in 0 .. (num - 1) : slot[m] = Entries[m + 1]
=============================================================================
