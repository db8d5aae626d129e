----------------------- MODULE UringblkModule_proofs -----------------------
(***************************************************************************)
(* Proofs about the loading and unloading of the uringblk driver, for all  *)
(* parameters: what is held at each step and each error label, and what    *)
(* is left at the end.                                                     *)
(***************************************************************************)
EXTENDS UringblkModule, TLAPS

(* uringblk_init before the device list is parsed, the administration      *)
(* interface, and where a device is being made or unmade.                  *)
Early == {"unloaded", "region", "cdev", "class", "validate", "blkdev", "parse",
          "err_del_cdev", "err_unreg_chrdev"}
Admin == {"region", "cdev", "class"}
InDevice == DevicePcs \ {"dev"}
Removing == CleanupPcs \ {"cleanup"}
Looping == DevicePcs \cup DeviceLabels \cup CleanupPcs
Over == {"failed", "exited", "err_unregister"}

(* The list has at most one entry, and so there is at most one device.     *)
LoopInv ==
  /\ count =< 1
  /\ paths = NULL \/ (paths \in Seq(Paths \ {EMPTY}) /\ Len(paths) =< 1)
  /\ pc \in Early => paths = NULL /\ count = 0
  /\ pc \in Early \cup {"array"} => num = 0 /\ i = 0 /\ slot = <<>>
  /\ pc \in Over \cup ExitPcs => paths = NULL
  /\ pc \in Looping \cup {"loaded"} => count \in {0, 1} /\ DOMAIN slot = 0 .. (count - 1)
  /\ pc \in InDevice \cup DeviceLabels => i = 0 /\ num = 0 /\ count = 1
  /\ pc \in DevicePcs => i = num
  /\ pc \in InDevice \ {"devvalidate"} => slot[0] \in Paths
  /\ pc = "dev" /\ i = 1 => slot[0] \in Paths
  /\ pc = "loaded" => num = count /\ paths = NULL /\ (count = 1 => slot[0] \in Paths)
  /\ pc \in CleanupPcs =>
       IF unloading THEN /\ num = count /\ paths = NULL
                         /\ count = 1 => slot[0] \in Paths
                    ELSE num = 0 /\ count = 1 /\ slot[0] = NULL
  /\ pc \in Removing => unloading /\ i = 0 /\ count = 1
  /\ unloading <=> pc \in Removing \cup ExitPcs \cup {"exited"} \/ (pc = "cleanup" /\ num = count)

(* uringblk_init_device has returned for the device, or will not again.    *)
Done == pc = "loaded" \/ (pc = "dev" /\ i = 1) \/ (pc = "cleanup" /\ unloading /\ i = 0)

(* What the device must have and may have at each step.                    *)
Core == {"dev", "backend", "tags", "disk", "added"}
DeviceInv ==
  /\ \A m \in Minors : m # 0 => devres[m] = {}
  /\ \A m \in Minors : devres[m] # {} => count = 1
  /\ pc \in {"devvalidate", "backend", "err_free_dev", "rm_dev"} => devres[0] = {"dev"}
  /\ pc \in {"tags", "err_cleanup_backend", "rm_backend"} => devres[0] = {"dev", "backend"}
  /\ pc \in {"disk", "err_free_tag_set", "rm_tags"} => devres[0] = {"dev", "backend", "tags"}
  /\ pc \in {"added", "err_put_disk", "put_disk"} => devres[0] = Core \ {"added"}
  /\ pc \in {"sysfs", "del_disk"} => devres[0] = Core
  /\ pc \in {"node", "rm_sysfs"} => devres[0] \in {Core, Core \cup {"sysfs"}}
  /\ pc \in {"nextdev", "rm_node"} => Core \subseteq devres[0]
  /\ Done /\ count = 1 => Core \subseteq devres[0]
  /\ ~(pc \in InDevice \cup DeviceLabels \cup Removing \/ Done) \/ pc = "err_clear_slot" =>
       devres[0] = {}
  /\ \A m \in Minors : <<m, TRUE>> \in opened =>
       m = 0 /\ count = 1 /\ ~unloading /\ (pc = "nextdev" \/ Done)

(* What the driver may have.                                               *)
HeldInv ==
  /\ pc \in {"unloaded", "region"} => res = {}
  /\ pc \in {"cdev", "err_unreg_chrdev"} => res \subseteq {"region"}
  /\ pc \in {"class", "err_del_cdev"} => res \subseteq {"region", "cdev"}
  /\ pc \in {"validate", "blkdev"} => res \subseteq Admin
  /\ pc = "parse" => res \subseteq Admin \cup {"blkdev"}
  /\ pc \in {"array", "err_free_paths"} =>
       res \subseteq Admin \cup {"blkdev", "paths", "strings"}
  /\ pc = "err_unregister" => res \subseteq Admin \cup {"blkdev"} \cup Uncounted
  /\ pc = "failed" => res \subseteq Admin \cup Uncounted
  /\ pc = "loaded" \/ (pc \in CleanupPcs /\ unloading) =>
       res \subseteq Admin \cup {"blkdev", "array"} \cup Uncounted
  /\ pc = "exit_blkdev" => res \subseteq Admin \cup {"blkdev"} \cup Uncounted
  /\ pc = "exit_class" => res \subseteq Admin \cup Uncounted
  /\ pc = "exit_cdev" => res \subseteq {"region", "cdev"} \cup Uncounted
  /\ pc = "exit_region" => res \subseteq {"region"} \cup Uncounted
  /\ pc = "exited" => res \subseteq Uncounted
  /\ pc \in {"array", "err_free_paths"} \cup Looping \cup {"loaded"} =>
       /\ count = 1 \/ param.max =< 0
       /\ "strings" \in res => paths # NULL \/ param.max =< 0

(* Pointers that were never set.                                           *)
Hole == Listed /\ Head(param.devices) = EMPTY
WildInv ==
  /\ wild \cap {"path", "slot"} # {} => Hole
  /\ paths # NULL => Len(paths) = 1 \/ Hole

Inv == TypeOK /\ LoopInv /\ DeviceInv
-----------------------------------------------------------------------------
(* Parameters.                                                             *)

(* There is a first minor.                                                 *)
LEMMA FirstMinor == 0 \in Minors /\ Minors \subseteq Nat
BY ModuleAssumption DEF Minors

(* parse_device_list returns no entry, or one that is not empty.           *)
LEMMA OneEntry ==
  ASSUME NEW l \in Lists, l # <<>>
  PROVE  /\ ParseDeviceList(l) \in Seq(Paths \ {EMPTY})
         /\ Len(ParseDeviceList(l)) =< 1
         /\ Head(l) # EMPTY => Len(ParseDeviceList(l)) = 1
<1>1. l \in Seq(Paths) /\ Head(l) \in Paths
  BY ModuleAssumption
<1>2. CASE Head(l) = EMPTY
  BY <1>2 DEF ParseDeviceList
<1>3. CASE Head(l) # EMPTY
  BY <1>1, <1>3 DEF ParseDeviceList
<1>4. QED
  BY Zenon, <1>2, <1>3

(* The number of devices is one, or what max_devices says if that leaves   *)
(* none.                                                                   *)
LEMMA ClampOne ==
  ASSUME TypeOK, NEW n \in {0, 1}
  PROVE  Clamp(n) \in Int /\ Clamp(n) =< 1 /\ (Clamp(n) = 1 \/ param.max =< 0)
<1>1. param.max \in Int
  BY Zenon, ModuleAssumption DEF TypeOK
<1>2. Clamp(n) = Min({param.max, 1})
  BY DEF Clamp
<1>3. CASE param.max =< 0
  <2>1. Min({param.max, 1}) = param.max
    BY <1>1, <1>3 DEF Min
  <2>2. QED
    BY <1>1, <1>2, <1>3, <2>1
<1>4. CASE param.max >= 1
  <2>1. Min({param.max, 1}) = 1
    BY <1>1, <1>4 DEF Min
  <2>2. QED
    BY <1>2, <2>1
<1>5. QED
  BY <1>1, <1>3, <1>4

(* What Parse does.                                                        *)
LEMMA ParseEffect ==
  ASSUME TypeOK, Parse
  PROVE  /\ count' \in Int /\ count' =< 1 /\ (count' = 1 \/ param.max =< 0)
         /\ paths' = NULL \/ (paths' \in Seq(Paths \ {EMPTY}) /\ Len(paths') =< 1)
         /\ paths' = NULL <=> ~(Listed \/ Single)
         /\ paths' # NULL => Len(paths') = 1 \/ Hole
         /\ param' \in [devices : Lists, backend : Paths, type : {"virtual", "device"},
                         max : MaxDevices]
         /\ param'.max = param.max /\ param'.devices = param.devices
<1>1. param.devices \in Lists /\ param.backend \in Paths
  BY Zenon DEF TypeOK
<1>2. /\ param' \in [devices : Lists, backend : Paths, type : {"virtual", "device"},
                      max : MaxDevices]
      /\ param'.max = param.max /\ param'.devices = param.devices
  <2>1. param' = param \/ param' = [param EXCEPT !.type = "device"]
    BY Zenon DEF Parse
  <2>2. QED
    BY <2>1 DEF TypeOK
<1>3. CASE Listed
  <2>1. param.devices # <<>>
    BY Zenon, <1>3 DEF Listed
  <2>2. paths' = ParseDeviceList(param.devices) /\ count' = Clamp(Len(paths'))
    BY Zenon, <1>3 DEF Parse
  <2>3. paths' \in Seq(Paths \ {EMPTY}) /\ Len(paths') =< 1
    BY Zenon, <1>1, <2>1, <2>2, OneEntry
  <2>4. paths' # NULL
    BY <2>3, ModuleAssumption
  <2>5. Len(paths') = 1 \/ Hole
    BY Zenon, <1>1, <1>3, <2>1, <2>2, OneEntry DEF Hole
  <2>6. Len(paths') \in {0, 1}
    BY <2>3
  <2>7. QED
    BY Zenon, <1>2, <1>3, <2>2, <2>3, <2>4, <2>5, <2>6, ClampOne
<1>4. CASE Single
  <2>1. paths' = <<param.backend>> /\ count' = Clamp(1)
    BY Zenon, <1>4 DEF Parse, Single
  <2>2. param.backend \in Paths \ {EMPTY}
    BY Zenon, <1>1, <1>4 DEF Single
  <2>3. paths' \in Seq(Paths \ {EMPTY}) /\ Len(paths') = 1
    BY <2>1, <2>2
  <2>4. paths' # NULL
    BY <2>3, ModuleAssumption
  <2>5. Len(paths') =< 1 /\ 1 \in {0, 1}
    BY <2>3
  <2>6. QED
    BY Zenon, <1>2, <1>4, <2>1, <2>3, <2>4, <2>5, ClampOne
<1>5. CASE ~Listed /\ ~Single
  <2>1. paths' = NULL /\ count' = Clamp(1)
    BY Zenon, <1>5 DEF Parse
  <2>2. QED
    BY Zenon, <1>2, <1>5, <2>1, ClampOne
<1>6. QED
  BY Zenon, <1>3, <1>4, <1>5
-----------------------------------------------------------------------------
(* The steps.                                                              *)

(* Steps that touch nothing of this.                                       *)
LEMMA SameDevice ==
  ASSUME DeviceInv, UNCHANGED <<pc, unloading, devres, count, i, opened>>
  PROVE  DeviceInv'
BY Zenon DEF DeviceInv, Done

LEMMA SameHeld ==
  ASSUME HeldInv, UNCHANGED <<param, pc, unloading, res, paths, count>>
  PROVE  HeldInv'
<1>1. Uncounted' = Uncounted
  BY Zenon DEF Uncounted
<1>2. /\ pc' = pc /\ unloading' = unloading /\ res' = res /\ paths' = paths
      /\ count' = count /\ param'.max = param.max
  OBVIOUS
<1>3. QED
  BY SMTT(30), <1>1, <1>2 DEF HeldInv

(* Every step keeps the types, the bounds of the loops and the state of    *)
(* the device.                                                             *)
LEMMA InvNext ==
  ASSUME Inv, [Next]_vars
  PROVE  Inv'
<1> USE FirstMinor DEF Early, Looping, InDevice, Removing, Over, GlobalPcs, DevicePcs,
        DeviceLabels, CleanupPcs, GlobalLabels, ExitPcs
<1>a. TypeOK /\ LoopInv /\ DeviceInv
  BY Zenon DEF Inv
<1>1. CASE Load \/ Register("region", "cdev") \/ Register("cdev", "class")
          \/ Register("class", "validate") \/ Validate \/ Register("blkdev", "parse")
  <2>1. TypeOK'
    BY <1>a, <1>1 DEF TypeOK, LoopInv, Load, Register, Validate, Pcs, Global, PerDevice, Kinds
  <2>2. LoopInv'
    BY <1>a, <1>1 DEF TypeOK, LoopInv, Load, Register, Validate
  <2>3. DeviceInv'
    BY <1>a, <1>1 DEF TypeOK, LoopInv, DeviceInv, Done, Core, Load, Register, Validate
  <2>4. QED
    BY Zenon, <2>1, <2>2, <2>3 DEF Inv
<1>2. CASE Parse
  <2>1. TypeOK'
    BY <1>a, <1>2, ParseEffect DEF TypeOK, LoopInv, Parse, Pcs, Global, PerDevice, Kinds
  <2>2. LoopInv'
    BY <1>a, <1>2, ParseEffect DEF TypeOK, LoopInv, Parse
  <2>3. DeviceInv'
    BY <1>a, <1>2, ParseEffect DEF TypeOK, LoopInv, DeviceInv, Done, Core, Parse
  <2>4. QED
    BY Zenon, <2>1, <2>2, <2>3 DEF Inv
<1>3. CASE AllocArray
  <2>1. TypeOK'
    BY <1>a, <1>3 DEF TypeOK, LoopInv, AllocArray, Pcs, Global, PerDevice, Kinds
  <2>2. LoopInv'
    BY <1>a, <1>3 DEF TypeOK, LoopInv, AllocArray
  <2>3. DeviceInv'
    BY <1>a, <1>3 DEF TypeOK, LoopInv, DeviceInv, Done, Core, AllocArray
  <2>4. QED
    BY Zenon, <2>1, <2>2, <2>3 DEF Inv
<1>4. ASSUME NEW step \in GlobalPcs \ {"validate"}, RegisterFail(step)
      PROVE  Inv'
  <2>1. TypeOK'
    BY <1>a, <1>4 DEF TypeOK, LoopInv, RegisterFail, OnError, GlobalPcs, Pcs, Global, PerDevice, Kinds
  <2>2. LoopInv'
    BY <1>a, <1>4 DEF TypeOK, LoopInv, RegisterFail, OnError, GlobalPcs
  <2>3. DeviceInv'
    BY <1>a, <1>4 DEF TypeOK, LoopInv, DeviceInv, Done, Core, RegisterFail, OnError, GlobalPcs
  <2>4. QED
    BY Zenon, <2>1, <2>2, <2>3 DEF Inv
<1>5. CASE Unregister("err_del_cdev", "err_unreg_chrdev", "cdev")
          \/ Unregister("err_unreg_chrdev", "failed", "region")
          \/ Unregister("err_unregister", "failed", "blkdev")
  <2>1. TypeOK'
    BY <1>a, <1>5 DEF TypeOK, LoopInv, Unregister, Pcs, Global, PerDevice, Kinds
  <2>2. LoopInv'
    BY <1>a, <1>5 DEF TypeOK, LoopInv, Unregister
  <2>3. DeviceInv'
    BY <1>a, <1>5 DEF TypeOK, LoopInv, DeviceInv, Done, Core, Unregister
  <2>4. QED
    BY Zenon, <2>1, <2>2, <2>3 DEF Inv
<1>6. CASE FreePaths
  <2>1. TypeOK'
    BY <1>a, <1>6 DEF TypeOK, LoopInv, FreePaths, FreeDeviceList, Pcs, Global, PerDevice, Kinds
  <2>2. LoopInv'
    BY <1>a, <1>6 DEF TypeOK, LoopInv, FreePaths, FreeDeviceList
  <2>3. DeviceInv'
    BY <1>a, <1>6 DEF TypeOK, LoopInv, DeviceInv, Done, Core, FreePaths, FreeDeviceList
  <2>4. QED
    BY Zenon, <2>1, <2>2, <2>3 DEF Inv
<1>7. CASE AllocDevice
  <2>1. TypeOK'
    BY <1>a, <1>7 DEF TypeOK, LoopInv, AllocDevice, Pcs, Global, PerDevice, Kinds
  <2>2. LoopInv'
    BY <1>a, <1>7 DEF TypeOK, LoopInv, AllocDevice
  <2>3. DeviceInv'
    BY <1>a, <1>7 DEF TypeOK, LoopInv, DeviceInv, Done, Core, AllocDevice
  <2>4. QED
    BY Zenon, <2>1, <2>2, <2>3 DEF Inv
<1>8. CASE AllocDeviceFail
  <2>1. TypeOK'
    BY <1>a, <1>8 DEF TypeOK, LoopInv, AllocDeviceFail, Pcs, Global, PerDevice, Kinds
  <2>2. LoopInv'
    BY <1>a, <1>8 DEF TypeOK, LoopInv, AllocDeviceFail
  <2>3. DeviceInv'
    BY <1>a, <1>8 DEF TypeOK, LoopInv, DeviceInv, Done, Core, AllocDeviceFail
  <2>4. QED
    BY Zenon, <2>1, <2>2, <2>3 DEF Inv
<1>9. CASE InitDevice
  <2>1. TypeOK'
    BY <1>a, <1>9 DEF TypeOK, LoopInv, InitDevice, Pcs, Global, PerDevice, Kinds
  <2>2. LoopInv'
    BY <1>a, <1>9 DEF TypeOK, LoopInv, InitDevice
  <2>3. DeviceInv'
    BY <1>a, <1>9 DEF TypeOK, LoopInv, DeviceInv, Done, Core, InitDevice
  <2>4. QED
    BY Zenon, <2>1, <2>2, <2>3 DEF Inv
<1>10. ASSUME NEW step \in {"backend", "tags", "disk", "added", "sysfs", "node"}, DeviceStep(step)
      PROVE  Inv'
  <2>1. TypeOK'
    BY <1>a, <1>10 DEF TypeOK, LoopInv, DeviceStep, Following, Pcs, Global, PerDevice, Kinds
  <2>2. LoopInv'
    BY <1>a, <1>10 DEF TypeOK, LoopInv, DeviceStep, Following
  <2>3. DeviceInv'
    BY <1>a, <1>10 DEF TypeOK, LoopInv, DeviceInv, Done, Core, DeviceStep, Following
  <2>4. QED
    BY Zenon, <2>1, <2>2, <2>3 DEF Inv
<1>11. ASSUME NEW step \in {"backend", "tags", "disk", "added", "sysfs", "node"}, DeviceFail(step)
      PROVE  Inv'
  <2>1. TypeOK'
    BY <1>a, <1>11 DEF TypeOK, LoopInv, DeviceFail, OnDeviceError, Following, Pcs
  <2>2. LoopInv'
    BY <1>a, <1>11 DEF TypeOK, LoopInv, DeviceFail, OnDeviceError, Following
  <2>3. DeviceInv'
    <3>1. DeviceInv /\ count = 1 /\ i = 0 /\ unloading = FALSE
      BY Zenon, <1>a, <1>11 DEF TypeOK, LoopInv, DeviceFail
    <3>2. /\ UNCHANGED <<unloading, devres, count, i, opened>>
          /\ \/ pc = "backend" /\ pc' = "err_free_dev"
             \/ pc = "tags" /\ pc' = "err_cleanup_backend"
             \/ pc = "disk" /\ pc' = "err_free_tag_set"
             \/ pc = "added" /\ pc' = "err_put_disk"
             \/ pc = "sysfs" /\ pc' = "node"
             \/ pc = "node" /\ pc' = "nextdev"
      BY <1>11 DEF DeviceFail, OnDeviceError, Following
    <3>3. QED
      BY ZenonT(30), <3>1, <3>2 DEF DeviceInv, Done
  <2>4. QED
    BY Zenon, <2>1, <2>2, <2>3 DEF Inv
<1>12. CASE Release("err_put_disk", "err_free_tag_set", "disk")
          \/ Release("err_free_tag_set", "err_cleanup_backend", "tags")
          \/ Release("err_cleanup_backend", "err_free_dev", "backend")
          \/ Release("err_free_dev", "err_clear_slot", "dev")
  <2>1. TypeOK'
    BY <1>a, <1>12 DEF TypeOK, LoopInv, Release, Pcs, Global, PerDevice, Kinds
  <2>2. LoopInv'
    BY <1>a, <1>12 DEF TypeOK, LoopInv, Release
  <2>3. DeviceInv'
    BY <1>a, <1>12 DEF TypeOK, LoopInv, DeviceInv, Done, Core, Release
  <2>4. QED
    BY Zenon, <2>1, <2>2, <2>3 DEF Inv
<1>13. CASE ClearSlot
  <2>1. TypeOK'
    BY <1>a, <1>13 DEF TypeOK, LoopInv, ClearSlot, Pcs, Global, PerDevice, Kinds
  <2>2. LoopInv'
    BY <1>a, <1>13 DEF TypeOK, LoopInv, ClearSlot
  <2>3. DeviceInv'
    BY <1>a, <1>13 DEF TypeOK, LoopInv, DeviceInv, Done, Core, ClearSlot
  <2>4. QED
    BY Zenon, <2>1, <2>2, <2>3 DEF Inv
<1>14. CASE NextDevice
  <2>1. TypeOK'
    BY <1>a, <1>14 DEF TypeOK, LoopInv, NextDevice, Pcs, Global, PerDevice, Kinds
  <2>2. LoopInv'
    BY <1>a, <1>14 DEF TypeOK, LoopInv, NextDevice
  <2>3. DeviceInv'
    BY <1>a, <1>14 DEF TypeOK, LoopInv, DeviceInv, Done, Core, NextDevice
  <2>4. QED
    BY Zenon, <2>1, <2>2, <2>3 DEF Inv
<1>15. CASE Loaded
  <2>1. TypeOK'
    BY <1>a, <1>15 DEF TypeOK, LoopInv, Loaded, FreeDeviceList, Pcs, Global, PerDevice, Kinds
  <2>2. LoopInv'
    BY <1>a, <1>15 DEF TypeOK, LoopInv, Loaded, FreeDeviceList
  <2>3. DeviceInv'
    BY <1>a, <1>15 DEF TypeOK, LoopInv, DeviceInv, Done, Core, Loaded, FreeDeviceList
  <2>4. QED
    BY Zenon, <2>1, <2>2, <2>3 DEF Inv
<1>16. CASE Cleanup
  <2>1. TypeOK'
    BY <1>a, <1>16 DEF TypeOK, LoopInv, Cleanup, Bound, Pcs, Global, PerDevice, Kinds
  <2>2. LoopInv'
    BY <1>a, <1>16 DEF TypeOK, LoopInv, Cleanup, Bound
  <2>3. DeviceInv'
    BY <1>a, <1>16 DEF TypeOK, LoopInv, DeviceInv, Done, Core, Cleanup, Bound
  <2>4. QED
    BY Zenon, <2>1, <2>2, <2>3 DEF Inv
<1>17. CASE Release("rm_node", "rm_sysfs", "node") \/ Release("rm_sysfs", "del_disk", "sysfs")
          \/ Release("del_disk", "put_disk", "added")
          \/ Release("put_disk", "rm_tags", "disk")
          \/ Release("rm_tags", "rm_backend", "tags")
          \/ Release("rm_backend", "rm_dev", "backend")
  <2>0. PICK label \in Removing, thing \in PerDevice, next \in Removing : Release(label, next, thing)
    BY Zenon, <1>17 DEF PerDevice
  <2>a. i = 0 /\ devres' = [devres EXCEPT ![0] = @ \ {thing}]
    BY Zenon, <1>a, <2>0 DEF LoopInv, Release
  <2>b. devres'[0] = devres[0] \ {thing} /\ \A m \in Minors : m # 0 => devres'[m] = devres[m]
    BY Zenon, <1>a, <2>a DEF TypeOK
  <2>1. TypeOK'
    BY <1>a, <2>0, <2>a DEF TypeOK, LoopInv, Release, Pcs, PerDevice
  <2>2. LoopInv'
    BY <1>a, <1>17 DEF TypeOK, LoopInv, Release
  <2>3. DeviceInv'
    BY <1>a, <1>17, <2>b DEF TypeOK, LoopInv, DeviceInv, Done, Core, Release
  <2>4. QED
    BY Zenon, <2>1, <2>2, <2>3 DEF Inv
<1>18. CASE FreeDevice
  <2>a. i = 0 /\ devres[0] = {"dev"} /\ count = 1 /\ unloading
    BY Zenon, <1>a, <1>18 DEF LoopInv, DeviceInv, FreeDevice
  <2>b. devres'[0] = {} /\ \A m \in Minors : m # 0 => devres'[m] = devres[m]
    BY <1>a, <1>18, <2>a DEF TypeOK, FreeDevice
  <2>c. i' = 1 /\ pc' = "cleanup" /\ UNCHANGED <<unloading, count, opened>>
    BY <1>18, <2>a DEF FreeDevice
  <2>1. TypeOK'
    BY <1>a, <1>18 DEF TypeOK, LoopInv, FreeDevice, Pcs, Global, PerDevice, Kinds
  <2>2. LoopInv'
    BY <1>a, <1>18 DEF TypeOK, LoopInv, FreeDevice
  <2>3. DeviceInv'
    <3>1. DeviceInv
      BY Zenon, <1>a
    <3>2. \A m \in Minors : <<m, TRUE>> \notin opened
      BY Zenon, <2>a, <3>1 DEF DeviceInv
    <3>3. ~Done'
      BY <2>c DEF Done
    <3>4. \A m \in Minors : devres'[m] = {}
      BY Zenon, <2>b, <3>1 DEF DeviceInv
    <3>5. QED
      BY Zenon, <2>c, <3>2, <3>3, <3>4 DEF DeviceInv
  <2>4. QED
    BY Zenon, <2>1, <2>2, <2>3 DEF Inv
<1>19. CASE FreeArray
  <2>1. TypeOK'
    BY <1>a, <1>19 DEF TypeOK, LoopInv, FreeArray, Bound, Pcs, Global, PerDevice, Kinds
  <2>2. LoopInv'
    BY <1>a, <1>19 DEF TypeOK, LoopInv, FreeArray, Bound
  <2>3. DeviceInv'
    BY <1>a, <1>19 DEF TypeOK, LoopInv, DeviceInv, Done, Core, FreeArray, Bound
  <2>4. QED
    BY Zenon, <2>1, <2>2, <2>3 DEF Inv
<1>20. CASE Exit
  <2>1. TypeOK'
    BY <1>a, <1>20 DEF TypeOK, LoopInv, Exit, Pcs, Global, PerDevice, Kinds
  <2>2. LoopInv'
    BY <1>a, <1>20 DEF TypeOK, LoopInv, Exit
  <2>3. DeviceInv'
    BY <1>a, <1>20 DEF TypeOK, LoopInv, DeviceInv, Done, Core, Exit
  <2>4. QED
    BY Zenon, <2>1, <2>2, <2>3 DEF Inv
<1>21. CASE Unregister("exit_blkdev", "exit_class", "blkdev")
          \/ Unregister("exit_class", "exit_cdev", "class")
          \/ Unregister("exit_cdev", "exit_region", "cdev")
          \/ ExitEnd
  <2>1. TypeOK'
    BY <1>a, <1>21 DEF TypeOK, LoopInv, Unregister, ExitEnd, Pcs, Global, PerDevice, Kinds
  <2>2. LoopInv'
    BY <1>a, <1>21 DEF TypeOK, LoopInv, Unregister, ExitEnd
  <2>3. DeviceInv'
    BY <1>a, <1>21 DEF TypeOK, LoopInv, DeviceInv, Done, Core, Unregister, ExitEnd
  <2>4. QED
    BY Zenon, <2>1, <2>2, <2>3 DEF Inv
<1>22. ASSUME NEW m \in Minors, AdminOpen(m)
      PROVE  Inv'
  <2>1. TypeOK'
    BY <1>a, <1>22 DEF TypeOK, LoopInv, AdminOpen, Stray, Pcs, Global, PerDevice, Kinds
  <2>2. LoopInv'
    BY <1>a, <1>22 DEF TypeOK, LoopInv, AdminOpen, Stray
  <2>3. DeviceInv'
    BY <1>a, <1>22 DEF TypeOK, LoopInv, DeviceInv, Done, Core, AdminOpen, Stray
  <2>4. QED
    BY Zenon, <2>1, <2>2, <2>3 DEF Inv
<1>23. ASSUME NEW f \in opened, AdminRelease(f)
      PROVE  Inv'
  <2>1. TypeOK'
    BY <1>a, <1>23 DEF TypeOK, LoopInv, AdminRelease, Pcs, Global, PerDevice, Kinds
  <2>2. LoopInv'
    BY <1>a, <1>23 DEF TypeOK, LoopInv, AdminRelease
  <2>3. DeviceInv'
    BY <1>a, <1>23 DEF TypeOK, LoopInv, DeviceInv, Done, Core, AdminRelease
  <2>4. QED
    BY Zenon, <2>1, <2>2, <2>3 DEF Inv
<1>24. CASE UNCHANGED vars
  <2>1. TypeOK'
    BY <1>a, <1>24 DEF TypeOK, vars
  <2>2. LoopInv'
    BY <1>a, <1>24 DEF LoopInv, vars
  <2>3. DeviceInv'
    BY Zenon, <1>a, <1>24, SameDevice DEF vars
  <2>4. QED
    BY Zenon, <2>1, <2>2, <2>3 DEF Inv
<1>25. QED
  BY Zenon, <1>1, <1>2, <1>3, <1>4, <1>5, <1>6, <1>7, <1>8, <1>9, <1>10, <1>11, <1>12, <1>13, <1>14, <1>15, <1>16, <1>17, <1>18, <1>19, <1>20, <1>21, <1>22, <1>23, <1>24
  DEF Next, GlobalStep, DeviceInit, CleanupStep, ExitStep

(* At first nothing is held.                                               *)
LEMMA InvInit ==
  ASSUME Init
  PROVE  Inv /\ HeldInv /\ WildInv
<1> USE FirstMinor DEF Early, Looping, InDevice, Removing, Over, DevicePcs, DeviceLabels,
        CleanupPcs, ExitPcs
<1>1. TypeOK
  BY DEF Init, TypeOK, Pcs
<1>2. LoopInv
  BY DEF Init, LoopInv
<1>3. DeviceInv
  BY Zenon DEF Init, DeviceInv, Done
<1>4. HeldInv /\ WildInv
  BY Zenon DEF Init, HeldInv, WildInv
<1>5. QED
  BY Zenon, <1>1, <1>2, <1>3, <1>4 DEF Inv

(* Every step and every label releases what was acquired before.           *)
LEMMA HeldNext ==
  ASSUME Inv, HeldInv, [Next]_vars
  PROVE  HeldInv'
<1> USE DEF HeldInv, LoopInv, Uncounted, Admin, Early, Looping, InDevice, Removing, Over,
        GlobalPcs, DevicePcs, DeviceLabels, CleanupPcs, ExitPcs
<1>a. TypeOK /\ LoopInv
  BY Zenon DEF Inv
<1>b. /\ "paths" \in ListFreed /\ ListFreed \subseteq {"paths", "strings"}
      /\ paths # NULL /\ count = 1 => "strings" \in ListFreed
  BY <1>a DEF ListFreed
<1>1. CASE Load \/ Register("region", "cdev") \/ Register("cdev", "class")
          \/ Register("class", "validate") \/ Validate \/ Register("blkdev", "parse")
  BY Zenon, <1>a, <1>b, <1>1 DEF Load, Register, Validate
<1>2. CASE Parse
  BY Zenon, <1>a, <1>2, ParseEffect DEF Parse
<1>3. CASE AllocArray
  BY Zenon, <1>a, <1>b, <1>3 DEF AllocArray
<1>4. ASSUME NEW step \in GlobalPcs \ {"validate"}, RegisterFail(step)
      PROVE  HeldInv'
  BY Zenon, <1>a, <1>b, <1>4 DEF RegisterFail, OnError, GlobalPcs
<1>5. CASE Unregister("err_del_cdev", "err_unreg_chrdev", "cdev")
          \/ Unregister("err_unreg_chrdev", "failed", "region")
          \/ Unregister("err_unregister", "failed", "blkdev")
  BY Zenon, <1>a, <1>b, <1>5 DEF Unregister
<1>6. CASE FreePaths
  BY Zenon, <1>a, <1>b, <1>6 DEF FreePaths, FreeDeviceList
<1>7. CASE AllocDevice
  BY Zenon, <1>a, <1>b, <1>7 DEF AllocDevice
<1>8. CASE AllocDeviceFail
  BY Zenon, <1>a, <1>b, <1>8 DEF AllocDeviceFail
<1>9. CASE InitDevice
  BY Zenon, <1>a, <1>b, <1>9 DEF InitDevice
<1>10. ASSUME NEW step \in {"backend", "tags", "disk", "added", "sysfs", "node"}, DeviceStep(step)
      PROVE  HeldInv'
  BY Zenon, <1>a, <1>b, <1>10 DEF DeviceStep, Following
<1>11. ASSUME NEW step \in {"backend", "tags", "disk", "added", "sysfs", "node"}, DeviceFail(step)
      PROVE  HeldInv'
  BY <1>a, <1>11 DEF DeviceFail, OnDeviceError, Following
<1>12. CASE Release("err_put_disk", "err_free_tag_set", "disk")
          \/ Release("err_free_tag_set", "err_cleanup_backend", "tags")
          \/ Release("err_cleanup_backend", "err_free_dev", "backend")
          \/ Release("err_free_dev", "err_clear_slot", "dev")
  BY Zenon, <1>a, <1>b, <1>12 DEF Release
<1>13. CASE ClearSlot
  BY Zenon, <1>a, <1>b, <1>13 DEF ClearSlot
<1>14. CASE NextDevice
  BY Zenon, <1>a, <1>b, <1>14 DEF NextDevice
<1>15. CASE Loaded
  <2>1. pc' = "loaded" /\ res' = res \ ListFreed /\ UNCHANGED <<param, count>>
    BY Zenon, <1>15 DEF Loaded, FreeDeviceList
  <2>2. "strings" \in res' => param.max =< 0
    BY Zenon, <1>b, <1>15, <2>1 DEF Loaded
  <2>3. res' \subseteq {"region", "cdev", "class", "blkdev", "array", "strings"}
    BY Zenon, <1>a, <1>b, <2>1 DEF TypeOK, Global
  <2>4. res' \subseteq Admin \cup {"blkdev", "array"} \cup Uncounted'
    BY <2>1, <2>2, <2>3 DEF Uncounted
  <2>5. count = 1 \/ param.max =< 0
    BY Zenon, <1>15 DEF Loaded
  <2>6. QED
    BY Zenon, <2>1, <2>2, <2>4, <2>5
<1>16. CASE Cleanup
  BY Zenon, <1>a, <1>b, <1>16 DEF Cleanup, Bound
<1>17. CASE Release("rm_node", "rm_sysfs", "node") \/ Release("rm_sysfs", "del_disk", "sysfs")
          \/ Release("del_disk", "put_disk", "added")
          \/ Release("put_disk", "rm_tags", "disk")
          \/ Release("rm_tags", "rm_backend", "tags")
          \/ Release("rm_backend", "rm_dev", "backend")
  BY Zenon, <1>a, <1>b, <1>17 DEF Release
<1>18. CASE FreeDevice
  BY Zenon, <1>a, <1>b, <1>18 DEF FreeDevice
<1>19. CASE FreeArray
  BY <1>a, <1>19 DEF FreeArray, Bound
<1>20. CASE Exit
  BY Zenon, <1>a, <1>b, <1>20 DEF Exit
<1>21. CASE Unregister("exit_blkdev", "exit_class", "blkdev")
          \/ Unregister("exit_class", "exit_cdev", "class")
          \/ Unregister("exit_cdev", "exit_region", "cdev")
          \/ ExitEnd
  BY Zenon, <1>a, <1>b, <1>21 DEF Unregister, ExitEnd
<1>22. ASSUME NEW m \in Minors, AdminOpen(m)
      PROVE  HeldInv'
  BY Zenon, <1>22, SameHeld DEF AdminOpen
<1>23. ASSUME NEW f \in opened, AdminRelease(f)
      PROVE  HeldInv'
  BY Zenon, <1>23, SameHeld DEF AdminRelease
<1>24. CASE UNCHANGED vars
  BY Zenon, <1>24, SameHeld DEF vars
<1>25. QED
  BY Zenon, <1>1, <1>2, <1>3, <1>4, <1>5, <1>6, <1>7, <1>8, <1>9, <1>10, <1>11, <1>12, <1>13, <1>14, <1>15, <1>16, <1>17, <1>18, <1>19, <1>20, <1>21, <1>22, <1>23, <1>24
  DEF Next, GlobalStep, DeviceInit, CleanupStep, ExitStep

(* Pointers that were never set are followed because of a hole alone.      *)
LEMMA WildNext ==
  ASSUME Inv, WildInv, [Next]_vars
  PROVE  WildInv'
<1>a. TypeOK /\ LoopInv
  BY Zenon DEF Inv
<1>b. ~Hole => ~FreesGarbage
  <2>1. SUFFICES ASSUME ~Hole, paths # NULL PROVE ~(count > Len(paths))
    BY Zenon DEF FreesGarbage
  <2>2. Len(paths) = 1 /\ count \in Int /\ count =< 1
    BY Zenon, <1>a, <2>1 DEF WildInv, LoopInv, TypeOK
  <2>3. QED
    BY <2>2
<1>c. paths # NULL /\ ~Hole => PathAt(0) # GARBAGE
  <2>1. SUFFICES ASSUME paths # NULL, ~Hole PROVE PathAt(0) # GARBAGE
    BY Zenon
  <2>2. paths[1] \in Paths /\ PathAt(0) = paths[1]
    BY <1>a, <2>1 DEF PathAt, WildInv, LoopInv
  <2>3. QED
    BY Zenon, <2>2, ModuleAssumption
<1>1. CASE UNCHANGED <<param, paths, wild>>
  BY Zenon, <1>1 DEF WildInv, Hole, Listed
<1>2. CASE Parse
  <2>1. Hole' = Hole
    BY Zenon, <1>a, <1>2, ParseEffect DEF Hole, Listed
  <2>2. QED
    BY Zenon, <1>a, <1>2, <2>1, ParseEffect DEF WildInv, Parse
<1>3. CASE FreePaths \/ Loaded
  BY Zenon, <1>b, <1>3 DEF WildInv, FreePaths, Loaded, FreeDeviceList, Hole, Listed
<1>4. CASE AllocDevice
  <2>1. i = 0
    BY <1>a, <1>4 DEF TypeOK, LoopInv, AllocDevice
  <2>2. ~Hole => ~(paths # NULL /\ PathAt(i) = GARBAGE)
    BY Zenon, <1>c, <2>1
  <2>3. QED
    BY Zenon, <1>4, <2>2 DEF WildInv, AllocDevice, Hole, Listed
<1>5. CASE Cleanup
  <2>1. slot[i] # GARBAGE
    <3>1. i = 0 /\ slot[0] \in Paths \cup {NULL}
      BY <1>a, <1>5 DEF TypeOK, LoopInv, Cleanup, Bound, CleanupPcs, Looping
    <3>2. QED
      BY Zenon, <3>1, ModuleAssumption
  <2>2. QED
    BY Zenon, <1>5, <2>1 DEF WildInv, Cleanup, Hole, Listed
<1>6. ASSUME NEW m \in Minors, AdminOpen(m)
      PROVE  WildInv'
  BY Zenon, <1>6 DEF WildInv, AdminOpen, Hole, Listed
<1>7. QED
  BY Zenon, <1>1, <1>2, <1>3, <1>4, <1>5, <1>6
  DEF Next, GlobalStep, DeviceInit, CleanupStep, ExitStep, vars, Load, Register, Validate,
      AllocArray, RegisterFail, Unregister, AllocDeviceFail, InitDevice, DeviceStep,
      DeviceFail, Release, ClearSlot, NextDevice, FreeDevice, FreeArray, Exit, ExitEnd,
      AdminRelease
-----------------------------------------------------------------------------
(* The life of the driver.                                                 *)

LEMMA Always == Spec => [](Inv /\ HeldInv /\ WildInv)
<1>1. Init => Inv /\ HeldInv /\ WildInv
  BY Zenon, InvInit
<1>2. Inv /\ HeldInv /\ WildInv /\ [Next]_vars => (Inv /\ HeldInv /\ WildInv)'
  BY Zenon, InvNext, HeldNext, WildNext
<1>3. QED
  BY <1>1, <1>2, PTL DEF Spec

(* All variables keep their types for all parameters.                      *)
THEOREM TypeCorrect == Spec => []TypeOK
<1>1. Inv => TypeOK
  BY Zenon DEF Inv
<1>2. QED
  BY <1>1, Always, PTL

(* As long as requests can come in through the disk, or commands through   *)
(* an administration file opened by its node, the device has its backend,  *)
(* its tag set and its disk, for all parameters and at every step of       *)
(* loading, failing and unloading: nothing that uringblk_init does after   *)
(* the node is made can fail, and uringblk_cleanup_device takes the disk   *)
(* away before what it stands on.                                          *)
THEOREM DeviceWhole == Spec => []ReachableDeviceWhole
<1>1. Inv => ReachableDeviceWhole
  <2>1. SUFFICES ASSUME Inv, NEW m \in Minors,
                        "added" \in devres[m] \/ <<m, TRUE>> \in opened
                 PROVE  {"dev", "backend", "tags", "disk"} \subseteq devres[m]
    BY Zenon DEF ReachableDeviceWhole
  <2>2. TypeOK /\ LoopInv /\ DeviceInv
    BY Zenon, <2>1 DEF Inv
  <2>3. m = 0 /\ count = 1
    BY Zenon, <2>1, <2>2 DEF DeviceInv
  <2>4. Core \subseteq devres[0]
    BY <2>1, <2>2, <2>3 DEF DeviceInv, Core, InDevice, DevicePcs, DeviceLabels, Removing,
         CleanupPcs
  <2>5. QED
    BY Zenon, <2>3, <2>4 DEF Core
<1>2. QED
  BY <1>1, Always, PTL

(* uringblk_exit gives back all that uringblk_init acquired, whichever     *)
(* optional parts of the device could not be made, but for the strings of  *)
(* a list when max_devices leaves no device.                               *)
THEOREM ExitGivesBack == Spec => []ExitReleasesAll
<1>1. Inv /\ HeldInv => ExitReleasesAll
  BY Zenon DEF Inv, DeviceInv, Done, HeldInv, ExitReleasesAll, InDevice, DevicePcs,
       DeviceLabels, Removing, CleanupPcs
<1>2. QED
  BY <1>1, Always, PTL

(* The labels of uringblk_init_device and uringblk_init together give back *)
(* what the steps before the failing one acquired, whichever it is, but    *)
(* for the administration interface.                                       *)
THEOREM FailedLoadGivesBack == Spec => []FailedLoadKeepsAtMostAdmin
<1>1. Inv /\ HeldInv => FailedLoadKeepsAtMostAdmin
  BY Zenon DEF Inv, DeviceInv, Done, HeldInv, Admin, FailedLoadKeepsAtMostAdmin, InDevice,
       DevicePcs, DeviceLabels, Removing, CleanupPcs
<1>2. QED
  BY <1>1, Always, PTL

(* Only for a device list that begins with an empty entry does             *)
(* uringblk_init follow or free a pointer that was never set, whichever    *)
(* step fails and whatever max_devices is.                                 *)
THEOREM WildFromHole == Spec => []WildOnlyFromHole
<1>1. WildInv => WildOnlyFromHole
  BY Zenon DEF WildInv, WildOnlyFromHole, Hole
<1>2. QED
  BY <1>1, Always, PTL
=============================================================================
