------------------------------ MODULE Wal_proofs -----------------------------
(***************************************************************************)
(* Proofs about the WAL driver: its loading and unloading beside the       *)
(* program that makes nodes for its devices, for all major numbers; and    *)
(* its two devices, for any callers, files, lengths and bios and any width *)
(* of its counters.                                                        *)
(***************************************************************************)
EXTENDS WalDriver, WalSystem, SequenceTheorems, TLAPS

StepNames == {"region", "cdev", "class", "device", "data", "disk", "blkdev", "added", "proc"}
Char == {"region", "cdev", "class", "device"}
Block == {"data", "disk", "blkdev", "added"}

(* What wal_driver_init has at each of its steps.                          *)
LoadInv ==
  /\ pc \in {"unloaded", "region"} => res = {}
  /\ pc = "cdev" => res = {"region"}
  /\ pc = "class" => res = {"region", "cdev"}
  /\ pc = "device" => res = {"region", "cdev", "class"}
  /\ pc = "data" => res = Char
  /\ pc = "disk" => res = Char \cup {"data"}
  /\ pc = "blkdev" => res = Char \cup {"data", "disk"}
  /\ pc = "added" => res = Char \cup {"data", "disk", "blkdev"}
  /\ pc = "proc" => res = Char \cup Block
  /\ pc = "loaded" => res \cup {"proc"} = StepNames

(* What an error path or wal_driver_exit has still to release is what the  *)
(* driver has, each once, and only the /proc entry goes before the disk.   *)
Distinct(s) == \A j, k \in DOMAIN s : s[j] = s[k] => j = k
DiskFirst(s) == \A j, k \in DOMAIN s : j < k /\ s[k] = "added" => s[j] = "proc"
UndoInv ==
  /\ pc \notin {"undo", "exit"} => undo = <<>>
  /\ pc \in {"undo", "exit"} => res = Range(undo) /\ Distinct(undo) /\ DiskFirst(undo)

(* A node the kernel made belongs to a device that is registered.          *)
Registered(d) == (IF d = "char" THEN "device" ELSE "added") \in res
NodeInv == \A d \in Devices : node[d] # NULL /\ node[d].kernel => Registered(d)

(* The program has made no node for a device it is about to make one for.  *)
ProgramInv ==
  /\ upc = "start" => created = {}
  /\ upc \in {"exists", "remove", "mknod"} =>
       created \subseteq (IF target = "char" THEN {} ELSE {"char"})

SystemInv ==
  /\ TypeSystem /\ LoadInv /\ UndoInv /\ StorageUnderDisk
  /\ NodeInv /\ ProgramInv /\ CleanupRemovesOwn

-----------------------------------------------------------------------------
(* The order of the steps.                                                 *)

LEMMA StepsRange == Range(Steps) = StepNames
<1>1. DOMAIN Steps = 1 .. 9
  BY DEF Steps
<1>2. \A k \in 1 .. 9 : Steps[k] \in StepNames
  BY DEF Steps, StepNames
<1>3. \A n \in StepNames : \E k \in 1 .. 9 : Steps[k] = n
  BY DEF Steps, StepNames
<1>4. QED
  BY <1>1, <1>2, <1>3, Zenon DEF Range

(* The step after each step of wal_driver_init.                            *)
LEMMA AfterStep ==
  /\ After("region") = "cdev" /\ After("cdev") = "class" /\ After("class") = "device"
  /\ After("device") = "data" /\ After("data") = "disk" /\ After("disk") = "blkdev"
  /\ After("blkdev") = "added" /\ After("added") = "proc" /\ After("proc") = "loaded"
<1>1. DOMAIN Steps = 1 .. 9
  BY DEF Steps
<1>2. \A j, k \in 1 .. 9 : Steps[j] = Steps[k] => j = k
  BY DEF Steps
<1>3. ASSUME NEW k \in 1 .. 8
      PROVE  After(Steps[k]) = Steps[1 + k]
  <2>1. (CHOOSE j \in DOMAIN Steps : Steps[j] = Steps[k]) = k
    BY <1>1, <1>2
  <2>2. Steps[k] # "proc"
    BY DEF Steps
  <2>3. QED
    BY Zenon, <2>1, <2>2 DEF After
<1>4. After("proc") = "loaded"
  BY Zenon DEF After
<1>5. QED
  BY <1>3, <1>4 DEF Steps

(* The first element released, the rest is what is left.                   *)
LEMMA Released ==
  ASSUME NEW s \in Seq(StepNames), s # <<>>, Distinct(s), DiskFirst(s)
  PROVE  /\ Tail(s) \in Seq(StepNames) /\ Distinct(Tail(s)) /\ DiskFirst(Tail(s))
         /\ Range(Tail(s)) = Range(s) \ {Head(s)}
         /\ Head(s) \in Range(s) /\ Head(s) \in StepNames
         /\ "added" \in Range(s) => Head(s) \in {"added", "proc"}
<1>1. /\ Len(s) \in Nat \ {0} /\ DOMAIN s = 1 .. Len(s) /\ Head(s) = s[1]
      /\ Tail(s) \in Seq(StepNames) /\ DOMAIN Tail(s) = 1 .. (Len(s) - 1)
      /\ \A k \in 1 .. (Len(s) - 1) : Tail(s)[k] = s[k + 1]
  OBVIOUS
<1>2. Distinct(Tail(s))
  BY <1>1 DEF Distinct
<1>3. DiskFirst(Tail(s))
  BY <1>1 DEF DiskFirst
<1>4. ASSUME NEW k \in 1 .. Len(s), k # 1
      PROVE  k - 1 \in 1 .. (Len(s) - 1) /\ Tail(s)[k - 1] = s[k]
  BY <1>1, <1>4
<1>5. ASSUME NEW k \in 1 .. (Len(s) - 1)
      PROVE  k + 1 \in DOMAIN s /\ k + 1 # 1 /\ 1 \in DOMAIN s
  BY <1>1
<1>6. Range(Tail(s)) = Range(s) \ {Head(s)}
  <2>1. ASSUME NEW x \in Range(Tail(s))
        PROVE  x \in Range(s) \ {Head(s)}
    <3>1. PICK k \in 1 .. (Len(s) - 1) : x = s[k + 1]
      BY Zenon, <1>1, <2>1 DEF Range
    <3>2. s[k + 1] # s[1]
      BY Zenon, <1>5 DEF Distinct
    <3>3. QED
      BY Zenon, <1>1, <1>5, <3>1, <3>2 DEF Range
  <2>2. ASSUME NEW x \in Range(s) \ {Head(s)}
        PROVE  x \in Range(Tail(s))
    <3>1. PICK k \in 1 .. Len(s) : x = s[k]
      BY Zenon, <1>1, <2>2 DEF Range
    <3>2. k # 1
      BY Zenon, <1>1, <2>2, <3>1
    <3>3. QED
      BY Zenon, <1>1, <1>4, <3>1, <3>2 DEF Range
  <2>3. QED
    BY Zenon, <2>1, <2>2
<1>7. Head(s) \in Range(s) /\ Head(s) \in StepNames
  BY <1>1 DEF Range
<1>8. ASSUME "added" \in Range(s)
      PROVE  Head(s) \in {"added", "proc"}
  <2>1. PICK k \in 1 .. Len(s) : s[k] = "added"
    BY Zenon, <1>1, <1>8 DEF Range
  <2>2. CASE k = 1
    BY Zenon, <1>1, <2>1, <2>2
  <2>3. CASE k # 1
    BY <1>1, <2>1, <2>3 DEF DiskFirst
  <2>4. QED
    BY Zenon, <2>2, <2>3
<1>9. QED
  BY Zenon, <1>1, <1>2, <1>3, <1>6, <1>7, <1>8

(* The sequences of the error paths and of wal_driver_exit release what    *)
(* the driver has, each once, and the disk before what is under it.        *)
Unwinds(s, what) == s \in Seq(StepNames) /\ Range(s) = what /\ Distinct(s) /\ DiskFirst(s)
LEMMA Sequences ==
  /\ Unwinds(Undo("region"), {})
  /\ Unwinds(Undo("cdev"), {"region"})
  /\ Unwinds(Undo("class"), {"region", "cdev"})
  /\ Unwinds(Undo("device"), {"region", "cdev", "class"})
  /\ Unwinds(Undo("data"), Char)
  /\ Unwinds(Undo("disk"), Char \cup {"data"})
  /\ Unwinds(Undo("blkdev"), Char \cup {"data", "disk"})
  /\ Unwinds(Undo("added"), Char \cup {"data", "disk", "blkdev"})
  /\ Unwinds(<<>> \o CleanupBlock \o CleanupChar, Char \cup Block)
  /\ Unwinds(<<"proc">> \o CleanupBlock \o CleanupChar, StepNames)
<1>1. Unwinds(Undo("region"), {})
  BY DEF Unwinds, Undo, Range, Distinct, DiskFirst
<1>2. Unwinds(Undo("cdev"), {"region"})
  BY DEF Unwinds, Undo, Range, Distinct, DiskFirst, StepNames
<1>3. Unwinds(Undo("class"), {"region", "cdev"})
  BY DEF Unwinds, Undo, Range, Distinct, DiskFirst, StepNames
<1>4. Unwinds(Undo("device"), {"region", "cdev", "class"})
  BY DEF Unwinds, Undo, Range, Distinct, DiskFirst, StepNames
<1>5. Unwinds(Undo("data"), Char)
  BY DEF Unwinds, Undo, Range, Distinct, DiskFirst, StepNames, CleanupChar, Char
<1>6. Unwinds(Undo("disk"), Char \cup {"data"})
  <2>1. Undo("disk") = <<"data">> \o CleanupChar
    BY Zenon DEF Undo
  <2>2. Unwinds(<<"data">> \o CleanupChar, Char \cup {"data"})
    <3> DEFINE s == <<"data">> \o CleanupChar
    <3>1. s \in Seq(StepNames)
      BY DEF StepNames, CleanupChar
    <3>2. Range(s) = Char \cup {"data"}
      BY DEF Range, CleanupChar, Char
    <3>3. Distinct(s)
      BY DEF Distinct, CleanupChar
    <3>4. DiskFirst(s)
      BY DEF DiskFirst, CleanupChar
    <3>5. QED
      BY Zenon, <3>1, <3>2, <3>3, <3>4 DEF Unwinds
  <2>3. QED
    BY Zenon, <2>1, <2>2
<1>7. Unwinds(Undo("blkdev"), Char \cup {"data", "disk"})
  <2>1. Undo("blkdev") = <<"disk", "data">> \o CleanupChar
    BY Zenon DEF Undo
  <2>2. Unwinds(<<"disk", "data">> \o CleanupChar, Char \cup {"data", "disk"})
    BY DEF Unwinds, Range, Distinct, DiskFirst, StepNames, CleanupChar, Char
  <2>3. QED
    BY Zenon, <2>1, <2>2
<1>8. Unwinds(Undo("added"), Char \cup {"data", "disk", "blkdev"})
  <2>1. Undo("added") = <<"blkdev", "disk", "data">> \o CleanupChar
    BY Zenon DEF Undo
  <2>2. Unwinds(<<"blkdev", "disk", "data">> \o CleanupChar, Char \cup {"data", "disk", "blkdev"})
    BY DEF Unwinds, Range, Distinct, DiskFirst, StepNames, CleanupChar, Char
  <2>3. QED
    BY Zenon, <2>1, <2>2
<1>9. Unwinds(<<>> \o CleanupBlock \o CleanupChar, Char \cup Block)
  BY DEF Unwinds, Range, Distinct, DiskFirst, StepNames, CleanupBlock, CleanupChar, Char, Block
<1>10. Unwinds(<<"proc">> \o CleanupBlock \o CleanupChar, StepNames)
  BY DEF Unwinds, Range, Distinct, DiskFirst, StepNames, CleanupBlock, CleanupChar
<1>11. QED
  BY Zenon, <1>1, <1>2, <1>3, <1>4, <1>5, <1>6, <1>7, <1>8, <1>9, <1>10

-----------------------------------------------------------------------------
(* The invariant.                                                          *)

LEMMA InvInit == InitSystem => SystemInv
<1> SUFFICES ASSUME InitSystem PROVE SystemInv
  BY Zenon
<1>1. <<0, 0>> \in Numbers
  BY Zenon DEF Numbers
<1>2. TypeSystem
  BY <1>1, StepsRange DEF InitSystem, TypeSystem, StepNames, Programs, Devices
<1>3. LoadInv /\ UndoInv /\ StorageUnderDisk
  BY Zenon DEF InitSystem, LoadInv, UndoInv, StorageUnderDisk
<1>4. NodeInv /\ ProgramInv /\ CleanupRemovesOwn
  BY Zenon DEF InitSystem, NodeInv, ProgramInv, CleanupRemovesOwn
<1>5. QED
  BY Zenon, <1>2, <1>3, <1>4 DEF SystemInv

(* A node of the kernel's stays one, or goes, unless its device appears.   *)
LEMMA NodeSteps ==
  ASSUME TypeSystem, NEW step
  PROVE  /\ NodesMade(step) \in [Devices -> Nodes \cup {NULL}]
         /\ NodesRemoved(step) \in [Devices -> Nodes \cup {NULL}]
         /\ \A d \in Devices : node[d] # NULL => NodesMade(step)[d] = node[d]
         /\ \A d \in Devices :
              NodesMade(step)[d] # node[d] => step = (IF d = "char" THEN "device" ELSE "added")
         /\ \A d \in Devices :
              node[d] # NULL /\ ~node[d].kernel => NodesRemoved(step)[d] = node[d]
         /\ \A d \in Devices :
              /\ NodesRemoved(step)[d] # NULL
              /\ NodesRemoved(step)[d].kernel
              => /\ NodesRemoved(step)[d] = node[d]
                 /\ step # (IF d = "char" THEN "device" ELSE "added")
<1>1. \A d \in Devices : [number |-> dev[d], kernel |-> TRUE] \in Nodes
  BY Zenon DEF TypeSystem, Nodes
<1>2. \A d \in Devices : d \in NodeOf(step) <=> step = (IF d = "char" THEN "device" ELSE "added")
  BY Zenon DEF Devices, NodeOf
<1>3. QED
  BY Zenon, <1>1, <1>2 DEF TypeSystem, NodesMade, NodesRemoved

(* The driver's steps.                                                     *)
LEMMA AcquireKeeps ==
  ASSUME SystemInv, NEW step \in StepNames, NEW m \in Majors, Acquire(step, m)
  PROVE  SystemInv'
<1> USE DEF SystemInv
<1>1. /\ pc = step /\ res' = res \cup {step} /\ pc' = After(step) /\ node' = NodesMade(step)
      /\ UNCHANGED <<undo, upc, target, created, fds>>
  BY Zenon DEF Acquire, programVars
<1>2. pc' \in StepNames \cup {"loaded"}
  BY Zenon, <1>1, AfterStep DEF StepNames
<1>3. dev' \in [Devices -> Numbers]
  <2>1. <<m, 0>> \in Numbers
    BY Zenon DEF Numbers
  <2>2. dev \in [Devices -> Numbers] /\ "char" \in Devices /\ "block" \in Devices
    BY Zenon DEF TypeSystem, Devices
  <2>3. CASE step = "region"
    BY Zenon, <2>1, <2>2, <2>3 DEF Acquire
  <2>4. CASE step = "blkdev"
    BY Zenon, <2>1, <2>2, <2>4 DEF Acquire
  <2>5. CASE step \notin {"region", "blkdev"}
    BY Zenon, <2>2, <2>5 DEF Acquire
  <2>6. QED
    BY Zenon, <2>3, <2>4, <2>5
<1>4. TypeSystem'
  BY Zenon, <1>1, <1>2, <1>3, NodeSteps, StepsRange DEF TypeSystem
<1>5. LoadInv'
  <2>1. CASE step \in {"region", "cdev", "class"}
    BY Zenon, <1>1, <2>1, AfterStep DEF LoadInv
  <2>2. CASE step \in {"device", "data", "disk"}
    BY <1>1, <2>2, AfterStep DEF LoadInv, Char
  <2>3. CASE step \in {"blkdev", "added"}
    BY <1>1, <2>3, AfterStep DEF LoadInv, Char, Block
  <2>4. CASE step = "proc"
    BY Zenon, <1>1, <2>4, AfterStep DEF LoadInv, Char, Block, StepNames
  <2>5. QED
    BY Zenon, <2>1, <2>2, <2>3, <2>4 DEF StepNames
<1>6. UndoInv'
  BY Zenon, <1>1, <1>2 DEF UndoInv, StepNames
<1>7. StorageUnderDisk'
  BY Zenon, <1>1 DEF StorageUnderDisk, LoadInv
<1>8. NodeInv'
  BY <1>1, NodeSteps DEF NodeInv, Registered
<1>9. ProgramInv' /\ CleanupRemovesOwn'
  BY <1>1, NodeSteps DEF ProgramInv, CleanupRemovesOwn, TypeSystem
<1>10. QED
  BY Zenon, <1>4, <1>5, <1>6, <1>7, <1>8, <1>9

(* wal_driver_init fails, or wal_driver_exit begins.                       *)
LEMMA UnwindingKeeps ==
  ASSUME SystemInv, (\E step \in StepNames : AcquireFail(step)) \/ Unload
  PROVE  SystemInv'
<1> USE DEF SystemInv
<1>1. Unwinds(undo', res) /\ pc' \in {"undo", "exit"}
  <2>1. ASSUME NEW step \in StepNames, AcquireFail(step)
        PROVE  Unwinds(undo', res) /\ pc' \in {"undo", "exit"}
    <3>1. pc = step /\ undo' = Undo(step) /\ pc' = "undo" /\ step # "proc"
      BY Zenon, <2>1 DEF AcquireFail
    <3>2. CASE step \in {"region", "cdev", "class", "device"}
      BY Zenon, <3>1, <3>2, Sequences DEF LoadInv
    <3>3. CASE step \in {"data", "disk", "blkdev", "added"}
      BY Zenon, <3>1, <3>3, Sequences DEF LoadInv
    <3>4. QED
      BY Zenon, <3>1, <3>2, <3>3 DEF StepNames
  <2>2. ASSUME Unload
        PROVE  Unwinds(undo', res) /\ pc' \in {"undo", "exit"}
    <3>1. res \subseteq StepNames /\ res \cup {"proc"} = StepNames
      BY Zenon, <2>2, StepsRange DEF Unload, TypeSystem, LoadInv
    <3>2. CASE "proc" \in res
      BY Zenon, <2>2, <3>1, <3>2, Sequences DEF Unload
    <3>3. CASE "proc" \notin res
      <4>1. res = Char \cup Block
        BY Zenon, <3>1, <3>3 DEF StepNames, Char, Block
      <4>2. QED
        BY Zenon, <2>2, <3>3, <4>1, Sequences DEF Unload
    <3>4. QED
      BY Zenon, <3>2, <3>3
  <2>3. QED
    BY Zenon, <2>1, <2>2
<1>2. UNCHANGED <<res, dev, node, upc, target, created, fds>>
  BY Zenon DEF AcquireFail, Unload, programVars
<1>3. TypeSystem'
  BY Zenon, <1>1, <1>2, StepsRange DEF TypeSystem, Unwinds
<1>4. LoadInv' /\ UndoInv' /\ StorageUnderDisk'
  BY Zenon, <1>1, <1>2 DEF LoadInv, UndoInv, StorageUnderDisk, Unwinds
<1>5. NodeInv' /\ ProgramInv' /\ CleanupRemovesOwn'
  BY Zenon, <1>2 DEF NodeInv, Registered, ProgramInv, CleanupRemovesOwn
<1>6. QED
  BY Zenon, <1>3, <1>4, <1>5

LEMMA ReleaseKeeps == ASSUME SystemInv, Release PROVE SystemInv'
<1> USE DEF SystemInv
<1>1. /\ undo # <<>> /\ res' = res \ {Head(undo)} /\ node' = NodesRemoved(Head(undo))
      /\ undo' = Tail(undo) /\ UNCHANGED <<pc, dev, upc, target, created, fds>>
  BY Zenon DEF Release, programVars
<1>2. pc \in {"undo", "exit"} /\ res = Range(undo) /\ Distinct(undo) /\ DiskFirst(undo)
  BY Zenon, <1>1 DEF UndoInv
<1>3. undo \in Seq(StepNames)
  BY Zenon, StepsRange DEF TypeSystem
<1>4. /\ Tail(undo) \in Seq(StepNames) /\ Distinct(Tail(undo)) /\ DiskFirst(Tail(undo))
      /\ Range(Tail(undo)) = res \ {Head(undo)}
      /\ "added" \in res => Head(undo) \in {"added", "proc"}
  BY Zenon, <1>1, <1>2, <1>3, Released
<1>5. TypeSystem'
  BY Zenon, <1>1, <1>4, NodeSteps, StepsRange DEF TypeSystem
<1>6. LoadInv' /\ UndoInv'
  BY Zenon, <1>1, <1>2, <1>4 DEF LoadInv, UndoInv
<1>7. StorageUnderDisk'
  BY Zenon, <1>1, <1>4 DEF StorageUnderDisk
<1>8. NodeInv'
  BY <1>1, NodeSteps DEF NodeInv, Registered
<1>9. ProgramInv' /\ CleanupRemovesOwn'
  BY <1>1, NodeSteps DEF ProgramInv, CleanupRemovesOwn, TypeSystem
<1>10. QED
  BY Zenon, <1>5, <1>6, <1>7, <1>8, <1>9

LEMMA LoadGoneKeeps == ASSUME SystemInv, Load \/ ProcFail \/ Gone PROVE SystemInv'
<1> USE DEF SystemInv
<1>1. UNCHANGED <<res, undo, node, upc, target, created, fds>>
  BY Zenon DEF Load, ProcFail, Gone, programVars
<1>2. <<0, 0>> \in Numbers
  BY Zenon DEF Numbers
<1>3. dev' \in [Devices -> Numbers] /\ pc' \in {"region", "loaded", "unloaded"}
  BY Zenon, <1>2 DEF Load, ProcFail, Gone, TypeSystem
<1>4. TypeSystem'
  BY Zenon, <1>1, <1>3, StepsRange DEF TypeSystem, StepNames
<1>5. LoadInv'
  <2>1. CASE Load
    BY Zenon, <1>1, <2>1 DEF LoadInv, Load
  <2>2. CASE ProcFail
    BY <1>1, <2>2 DEF LoadInv, ProcFail, StepNames, Char, Block
  <2>3. CASE Gone
    <3>1. res = {}
      BY <2>3 DEF Gone, UndoInv, Range
    <3>2. QED
      BY Zenon, <1>1, <2>3, <3>1 DEF LoadInv, Gone
  <2>4. QED
    BY Zenon, <2>1, <2>2, <2>3
<1>6. UndoInv'
  BY Zenon, <1>1, <1>3 DEF Load, ProcFail, Gone, UndoInv
<1>7. StorageUnderDisk' /\ NodeInv' /\ ProgramInv' /\ CleanupRemovesOwn'
  BY Zenon, <1>1 DEF StorageUnderDisk, NodeInv, Registered, ProgramInv, CleanupRemovesOwn
<1>8. QED
  BY Zenon, <1>4, <1>5, <1>6, <1>7

(* The program's steps leave the driver as it is.                          *)
LEMMA DriverKept ==
  ASSUME SystemInv, UNCHANGED driverVars
  PROVE  LoadInv' /\ UndoInv' /\ StorageUnderDisk' /\ \A d : Registered(d)' <=> Registered(d)
BY DEF SystemInv, driverVars, LoadInv, UndoInv, StorageUnderDisk, Registered

LEMMA ProgramKeeps == ASSUME SystemInv, Program PROVE SystemInv'
<1> USE DEF SystemInv
<1>1. UNCHANGED <<pc, res, undo, dev>> /\ UNCHANGED driverVars
  BY Zenon DEF Program, Start, Exists, RemoveExisting, Mknod, CreateFail, Probe, Open, OpenFail,
       CloseDevice, Cleanup, Unlink, Killed, driverVars
<1>2. "char" \in Devices /\ "block" \in Devices /\ target \in Devices
  BY Zenon DEF Devices, TypeSystem
<1>3. CASE Start \/ Exists \/ CreateFail \/ Probe \/ Killed
  <2>1. node' = node /\ created' \in {created, {}} /\ fds' \in {fds, {}}
    BY Zenon, <1>3 DEF Start, Exists, CreateFail, Probe, Killed
  <2>2. upc' \in Programs /\ upc' # "unlink" /\ target' \in Devices
    BY Zenon, <1>2, <1>3 DEF Start, Exists, CreateFail, Probe, Killed, GoTo, Programs
  <2>3. TypeSystem'
    BY Zenon, <1>1, <2>1, <2>2 DEF TypeSystem
  <2>4. ProgramInv'
    BY Zenon, <1>3 DEF Start, Exists, CreateFail, Probe, Killed, GoTo, ProgramInv
  <2>5. NodeInv' /\ CleanupRemovesOwn'
    BY Zenon, <1>1, <2>1, <2>2 DEF NodeInv, Registered, CleanupRemovesOwn
  <2>6. QED
    BY Zenon, <1>1, <2>3, <2>4, <2>5, DriverKept
<1>4. CASE RemoveExisting
  <2>1. /\ upc = "remove" /\ upc' = "mknod"
        /\ node' = [node EXCEPT ![target] = NULL] /\ UNCHANGED <<target, created, fds>>
    BY Zenon, <1>4 DEF RemoveExisting, GoTo
  <2>2. target \notin created
    BY Zenon, <1>2, <2>1 DEF ProgramInv, Devices
  <2>3. TypeSystem'
    BY Zenon, <1>1, <2>1 DEF TypeSystem, Programs
  <2>4. NodeInv' /\ CleanupRemovesOwn'
    BY Zenon, <1>1, <2>1, <2>2 DEF NodeInv, Registered, CleanupRemovesOwn, TypeSystem
  <2>5. ProgramInv'
    BY Zenon, <2>1 DEF ProgramInv
  <2>6. QED
    BY Zenon, <1>1, <2>3, <2>4, <2>5, DriverKept
<1>5. CASE Mknod
  <2> DEFINE new == [number |-> StaticNumber(target), kernel |-> FALSE]
  <2>1. new \in Nodes /\ new # NULL /\ ~new.kernel
    <3>1. StaticNumber(target) \in Numbers
      BY Zenon DEF StaticNumber, Numbers
    <3>2. new \in Nodes
      BY Zenon, <3>1 DEF Nodes
    <3>3. QED
      BY Zenon, <3>2, NullAssumption
  <2> HIDE DEF new
  <2>2. /\ node' = [node EXCEPT ![target] = new] /\ created' = created \cup {target}
        /\ upc' \in {"exists", "probe"} /\ target' = "block" /\ UNCHANGED fds
    BY Zenon, <1>5 DEF Mknod, GoTo, new
  <2>3. TypeSystem'
    BY Zenon, <1>1, <1>2, <2>1, <2>2 DEF TypeSystem, Programs
  <2>4. NodeInv' /\ CleanupRemovesOwn'
    BY Zenon, <1>1, <1>2, <2>1, <2>2 DEF NodeInv, Registered, CleanupRemovesOwn, TypeSystem
  <2>5. ProgramInv'
    <3>1. upc' = "exists" => target = "char"
      BY Zenon, <1>5 DEF Mknod, GoTo
    <3>2. upc = "mknod"
      BY Zenon, <1>5 DEF Mknod
    <3>3. QED
      BY Zenon, <2>2, <3>1, <3>2 DEF ProgramInv
  <2>6. QED
    BY Zenon, <1>1, <2>3, <2>4, <2>5, DriverKept
<1>6. CASE Open \/ OpenFail \/ CloseDevice
  <2>1. node' = node /\ created' = created /\ upc' \in {"open", "close", "cleanup"}
    BY Zenon, <1>6 DEF Open, OpenFail, CloseDevice, GoTo
  <2>2. fds' \subseteq Devices /\ target' \in Devices
    BY Zenon, <1>2, <1>6 DEF Open, OpenFail, CloseDevice, GoTo, TypeSystem
  <2>3. TypeSystem'
    BY Zenon, <1>1, <2>1, <2>2 DEF TypeSystem, Programs
  <2>4. NodeInv' /\ CleanupRemovesOwn' /\ ProgramInv'
    BY Zenon, <1>1, <2>1 DEF NodeInv, Registered, CleanupRemovesOwn, ProgramInv
  <2>5. QED
    BY Zenon, <1>1, <2>3, <2>4, DriverKept
<1>7. CASE Cleanup
  <2>1. node' = node /\ fds' = fds /\ target' \in Devices
    BY Zenon, <1>2, <1>7 DEF Cleanup, Cleaned, GoTo
  <2>2. \/ upc' = "unlink" /\ target' = target /\ target \in created /\ created' = created
        \/ upc' = "cleanup" /\ created' = created
        \/ upc' = "start" /\ created' = {}
    BY Zenon, <1>7 DEF Cleanup, Cleaned, GoTo
  <2>3. TypeSystem'
    BY Zenon, <1>1, <2>1, <2>2 DEF TypeSystem, Programs
  <2>4. NodeInv' /\ CleanupRemovesOwn' /\ ProgramInv'
    BY Zenon, <1>1, <2>1, <2>2 DEF NodeInv, Registered, CleanupRemovesOwn, ProgramInv
  <2>5. QED
    BY Zenon, <1>1, <2>3, <2>4, DriverKept
<1>8. CASE Unlink
  <2>1. /\ node' = node \/ node' = [node EXCEPT ![target] = NULL]
        /\ fds' = fds /\ target' \in Devices
    BY Zenon, <1>2, <1>8 DEF Unlink, Cleaned, GoTo
  <2>2. \/ upc' = "cleanup" /\ created' = created \ {target}
        \/ upc' = "start" /\ created' = {}
    BY Zenon, <1>8 DEF Unlink, Cleaned, GoTo
  <2>3. TypeSystem'
    BY Zenon, <1>1, <2>1, <2>2 DEF TypeSystem, Programs
  <2>4. NodeInv' /\ CleanupRemovesOwn' /\ ProgramInv'
    BY Zenon, <1>1, <1>2, <2>1, <2>2 DEF NodeInv, Registered, CleanupRemovesOwn, ProgramInv,
         TypeSystem
  <2>5. QED
    BY Zenon, <1>1, <2>3, <2>4, DriverKept
<1>9. QED
  BY Zenon, <1>3, <1>4, <1>5, <1>6, <1>7, <1>8 DEF Program

LEMMA InvNext == SystemInv /\ [NextSystem]_systemVars => SystemInv'
<1> SUFFICES ASSUME SystemInv, [NextSystem]_systemVars PROVE SystemInv'
  BY Zenon
<1>1. CASE Driver
  <2>1. CASE \E step \in StepNames : \E m \in Majors : Acquire(step, m)
    BY Zenon, <2>1, AcquireKeeps
  <2>2. CASE (\E step \in StepNames : AcquireFail(step)) \/ Unload
    BY Zenon, <2>2, UnwindingKeeps
  <2>3. CASE Load \/ ProcFail \/ Gone
    BY Zenon, <2>3, LoadGoneKeeps
  <2>4. CASE Release
    BY Zenon, <2>4, ReleaseKeeps
  <2>5. QED
    BY Zenon, <1>1, <2>1, <2>2, <2>3, <2>4, StepsRange DEF Driver
<1>2. CASE Program
  BY Zenon, <1>2, ProgramKeeps
<1>3. CASE UNCHANGED systemVars
  <2>1. UNCHANGED <<pc, res, undo, dev, node, upc, target, created, fds>>
    BY Zenon, <1>3 DEF systemVars, driverVars, programVars
  <2>2. TypeSystem' /\ NodeInv' /\ ProgramInv' /\ CleanupRemovesOwn'
    BY Zenon, <2>1 DEF SystemInv, TypeSystem, NodeInv, Registered, ProgramInv, CleanupRemovesOwn
  <2>3. QED
    BY Zenon, <1>3, <2>2, DriverKept DEF SystemInv, systemVars
<1>4. QED
  BY Zenon, <1>1, <1>2, <1>3 DEF NextSystem

LEMMA Invariant == SpecSystem => []SystemInv
BY InvInit, InvNext, PTL DEF SpecSystem

-----------------------------------------------------------------------------
(* Whatever step of wal_driver_init fails, and after every unload, nothing *)
(* the driver registered or allocated is left, and no node of the kernel's *)
(* for it, at whatever points the program makes and removes nodes.         *)
THEOREM AllReleased == SpecSystem => []NothingLeftBehind
<1>1. SystemInv => NothingLeftBehind
  BY Zenon DEF SystemInv, LoadInv, NodeInv, Registered, NothingLeftBehind
<1>2. QED
  BY <1>1, Invariant, PTL

(* No error path and no unload frees the storage, the disk or the number   *)
(* of the block device while the disk can be given requests.               *)
THEOREM DiskHasStorage == SpecSystem => []StorageUnderDisk
<1>1. SystemInv => StorageUnderDisk
  BY Zenon DEF SystemInv
<1>2. QED
  BY <1>1, Invariant, PTL

(* cleanup_single_device unlinks nodes the program made, and never one of  *)
(* the kernel's, although the driver comes and goes between its calls.     *)
THEOREM OwnNodesRemoved == SpecSystem => []CleanupRemovesOwn
<1>1. SystemInv => CleanupRemovesOwn
  BY Zenon DEF SystemInv
<1>2. QED
  BY <1>1, Invariant, PTL

-----------------------------------------------------------------------------
(* The two devices.                                                        *)

(* A call that has not been handled has returned nothing.                  *)
HandlerInv == \A t \in Threads : call[t].pc \in {"idle", "handler"} => call[t].ret = 0

(* Bytes are owed only under status_mutex, and by a bio only for a segment *)
(* it still has.                                                           *)
LockInv ==
  /\ mutex = "free" => owed = Nothing
  /\ mutex = "bio" /\ bio.left = <<>> => owed = Nothing

(* With the bytes that are owed, the totals belong to the counts at any    *)
(* time.                                                                   *)
Bytes(c, w, total, extra, chars, blocks, most) ==
  /\ {chars, blocks} \cap w = {} => c[total] + extra =< c[chars] * most + c[blocks] * PageSize
  /\ total \notin w => c[total] + extra >= c[blocks] * SectorSize
Owing(total) == IF owed.total = total THEN owed.bytes ELSE 0
BytesInv ==
  /\ Bytes(status.counts, wraps, "total_bytes_read", Owing("total_bytes_read"),
           "char_read_count", "block_read_count", MsgLen)
  /\ Bytes(status.counts, wraps, "total_bytes_written", Owing("total_bytes_written"),
           "char_write_count", "block_write_count", PageSize)

DevicesInv == TypeOK /\ HandlerInv /\ ReadStaysInMessage /\ LockInv /\ BytesInv

(* What the sizes are.                                                     *)
LEMMA Sizes ==
  /\ MsgLen \in Nat /\ PageSize \in Nat /\ SectorSize \in Nat /\ Sectors \in Nat
  /\ U32 \in Nat /\ U32 # 0 /\ MaxCalls \in Nat /\ Counts \subseteq Nat /\ Offsets \subseteq Nat
BY Zenon, WalAssumption

(* min of two lengths.                                                     *)
LEMMA MinOf ==
  ASSUME NEW a \in Nat, NEW b \in Nat
  PROVE  Min({a, b}) \in Nat /\ Min({a, b}) =< a /\ Min({a, b}) =< b
<1>1. \E m \in {a, b} : \A y \in {a, b} : m =< y
  <2>1. a =< b \/ b =< a
    OBVIOUS
  <2>2. QED
    BY <2>1
<1>2. Min({a, b}) \in {a, b} /\ \A y \in {a, b} : Min({a, b}) =< y
  BY Zenon, <1>1 DEF Min
<1>3. QED
  BY <1>2

(* An addition in a __u32.                                                 *)
LEMMA Wrapped ==
  ASSUME NEW x \in Nat
  PROVE  /\ x % U32 \in 0 .. (U32 - 1) /\ x % U32 =< x /\ x % U32 \in Nat
         /\ x < U32 => x % U32 = x
BY Sizes

LEMMA OneMore ==
  ASSUME NEW a \in Nat, NEW m \in Nat PROVE (a + 1) * m = a * m + m /\ a * m \in Nat
OBVIOUS

(* What Bump does to the counter it is about and to the others.            *)
LEMMA BumpIs ==
  ASSUME TypeOK, NEW c \in CountFields, NEW n \in Nat, Bump(c, n)
  PROVE  /\ status' \in [counts : [CountFields -> 0 .. (U32 - 1)], mode : Modes]
         /\ wraps \subseteq wraps' /\ wraps' \subseteq CountFields
         /\ status.counts[c] \in Nat /\ status'.counts[c] \in Nat
         /\ status'.counts[c] =< status.counts[c] + n
         /\ c \notin wraps' => status'.counts[c] = status.counts[c] + n
         /\ \A x \in CountFields \ {c} : status'.counts[x] = status.counts[x]
<1>1. /\ status \in [counts : [CountFields -> 0 .. (U32 - 1)], mode : Modes]
      /\ wraps \subseteq CountFields
  BY Zenon DEF TypeOK
<1> DEFINE old == status.counts
           new == [old EXCEPT ![c] = (@ + n) % U32]
<1>2. old \in [CountFields -> 0 .. (U32 - 1)]
  BY <1>1
<1>3. old[c] \in Nat /\ old[c] + n \in Nat
  BY <1>2, Sizes
<1>4. /\ (old[c] + n) % U32 \in 0 .. (U32 - 1) /\ (old[c] + n) % U32 =< old[c] + n
      /\ (old[c] + n) % U32 \in Nat
      /\ old[c] + n < U32 => (old[c] + n) % U32 = old[c] + n
  BY Zenon, <1>3, Wrapped
<1>5. /\ new \in [CountFields -> 0 .. (U32 - 1)] /\ new[c] = (old[c] + n) % U32
      /\ \A x \in CountFields \ {c} : new[x] = old[x]
  BY Zenon, <1>2, <1>4
<1>6. status' = [status EXCEPT !.counts = new]
  BY <1>1 DEF Bump
<1> HIDE DEF new
<1>7. /\ status' \in [counts : [CountFields -> 0 .. (U32 - 1)], mode : Modes]
      /\ status'.counts = new
  BY <1>1, <1>5, <1>6
<1>8. /\ wraps \subseteq wraps' /\ wraps' \subseteq CountFields
      /\ c \notin wraps' => ~(old[c] + n >= U32)
  BY Zenon, <1>1 DEF Bump
<1>9. c \notin wraps' => old[c] + n < U32
  BY <1>3, <1>8, Sizes
<1>10. QED
  BY Zenon, <1>3, <1>4, <1>5, <1>7, <1>8, <1>9

(* Adding a call and its bytes keeps the bytes of n calls under n times the *)
(* most a call moves, and over n times the least.                          *)
LEMMA Upper ==
  ASSUME NEW a \in Nat, NEW m \in Nat, NEW rest \in Nat, NEW total \in Nat,
         NEW n \in Nat, n =< m, total =< a * m + rest
  PROVE  total + n =< (a + 1) * m + rest
<1>1. (a + 1) * m = a * m + m /\ a * m \in Nat
  BY OneMore
<1>2. QED
  BY <1>1

LEMMA Lower ==
  ASSUME NEW a \in Nat, NEW b \in Nat, b =< a + 1, NEW m \in Nat, NEW total \in Nat,
         NEW n \in Nat, m =< n, total >= a * m
  PROVE  total + n >= b * m
<1>1. (a + 1) * m = a * m + m /\ a * m \in Nat
  BY OneMore
<1>2. b * m =< (a + 1) * m
  BY SMT
<1>3. QED
  BY <1>1, <1>2

LEMMA CountsNat ==
  ASSUME TypeOK, NEW x \in CountFields
  PROVE  /\ status.counts[x] \in Nat /\ status.counts[x] * PageSize \in Nat
         /\ status.counts[x] * SectorSize \in Nat
BY Sizes DEF TypeOK

(* A call of the character device is counted, and its bytes are owed.      *)
LEMMA CharCounted ==
  ASSUME TypeOK, NEW total \in CountFields, NEW chars \in CountFields,
         NEW blocks \in CountFields, total # chars, total # blocks, chars # blocks,
         NEW most \in Nat, Bytes(status.counts, wraps, total, 0, chars, blocks, most),
         NEW n \in Nat, n =< most, Bump(chars, 1)
  PROVE  Bytes(status'.counts, wraps', total, n, chars, blocks, most)
<1> DEFINE old == status.counts
           new == status'.counts
<1>1. /\ wraps \subseteq wraps' /\ new[blocks] = old[blocks] /\ new[total] = old[total]
      /\ chars \notin wraps' => new[chars] = old[chars] + 1
  BY Zenon, BumpIs, 1 \in Nat
<1>2. old[total] \in Nat /\ old[chars] \in Nat /\ old[blocks] \in Nat
  BY Zenon, CountsNat
<1>3. old[blocks] * PageSize \in Nat /\ old[blocks] * SectorSize \in Nat
  BY Zenon, CountsNat
<1>4. ASSUME {chars, blocks} \cap wraps' = {}
      PROVE  new[total] + n =< new[chars] * most + new[blocks] * PageSize
  <2>1. old[total] + 0 =< old[chars] * most + old[blocks] * PageSize
    BY Zenon, <1>1, <1>4 DEF Bytes
  <2>2. old[total] =< old[chars] * most + old[blocks] * PageSize
    BY <1>2, <2>1
  <2>3. old[total] + n =< (old[chars] + 1) * most + old[blocks] * PageSize
    BY <1>2, <1>3, <2>2, Upper
  <2>4. new[chars] = old[chars] + 1
    BY Zenon, <1>1, <1>4
  <2>5. QED
    BY Zenon, <1>1, <2>3, <2>4
<1>5. ASSUME total \notin wraps'
      PROVE  new[total] + n >= new[blocks] * SectorSize
  <2>1. old[total] + 0 >= old[blocks] * SectorSize
    BY Zenon, <1>1, <1>5 DEF Bytes
  <2>2. old[total] + n >= old[blocks] * SectorSize
    BY <1>2, <1>3, <2>1
  <2>3. QED
    BY Zenon, <1>1, <2>2
<1>6. QED
  BY Zenon, <1>4, <1>5 DEF Bytes

(* A segment is counted, and its bytes are owed.                           *)
LEMMA SegmentCounted ==
  ASSUME TypeOK, NEW total \in CountFields, NEW chars \in CountFields,
         NEW blocks \in CountFields, total # chars, total # blocks, chars # blocks,
         NEW most \in Nat, Bytes(status.counts, wraps, total, 0, chars, blocks, most),
         NEW n \in Nat, SectorSize =< n, n =< PageSize, Bump(blocks, 1)
  PROVE  Bytes(status'.counts, wraps', total, n, chars, blocks, most)
<1> DEFINE old == status.counts
           new == status'.counts
<1>1. /\ wraps \subseteq wraps' /\ new[chars] = old[chars] /\ new[total] = old[total]
      /\ new[blocks] \in Nat /\ new[blocks] =< old[blocks] + 1
      /\ blocks \notin wraps' => new[blocks] = old[blocks] + 1
  BY Zenon, BumpIs, 1 \in Nat
<1>2. old[total] \in Nat /\ old[chars] \in Nat /\ old[blocks] \in Nat
  BY Zenon, CountsNat
<1>3. old[chars] * most \in Nat /\ old[blocks] * SectorSize \in Nat
  BY <1>2, Sizes
<1>4. ASSUME {chars, blocks} \cap wraps' = {}
      PROVE  new[total] + n =< new[chars] * most + new[blocks] * PageSize
  <2>1. old[total] + 0 =< old[chars] * most + old[blocks] * PageSize
    BY Zenon, <1>1, <1>4 DEF Bytes
  <2>2. old[total] =< old[blocks] * PageSize + old[chars] * most
    <3>1. old[blocks] * PageSize \in Nat
      BY Zenon, CountsNat
    <3>2. QED
      BY <1>2, <1>3, <2>1, <3>1
  <2>3. old[total] + n =< (old[blocks] + 1) * PageSize + old[chars] * most
    BY <1>2, <1>3, <2>2, Upper, Sizes
  <2>4. (old[blocks] + 1) * PageSize \in Nat
    BY <1>2, Sizes
  <2>5. old[total] + n =< old[chars] * most + (old[blocks] + 1) * PageSize
    BY <1>2, <1>3, <2>3, <2>4
  <2>6. new[blocks] = old[blocks] + 1
    BY Zenon, <1>1, <1>4
  <2>7. QED
    BY Zenon, <1>1, <2>5, <2>6
<1>5. ASSUME total \notin wraps'
      PROVE  new[total] + n >= new[blocks] * SectorSize
  <2>1. old[total] + 0 >= old[blocks] * SectorSize
    BY Zenon, <1>1, <1>5 DEF Bytes
  <2>2. old[total] >= old[blocks] * SectorSize
    BY <1>2, <1>3, <2>1
  <2>3. old[total] + n >= new[blocks] * SectorSize
    BY <1>1, <1>2, <2>2, Lower, Sizes
  <2>4. QED
    BY Zenon, <1>1, <2>3
<1>6. QED
  BY Zenon, <1>4, <1>5 DEF Bytes

(* The bytes owed are counted.                                             *)
LEMMA OwedCounted ==
  ASSUME TypeOK, NEW total \in CountFields, NEW chars \in CountFields,
         NEW blocks \in CountFields, total # chars, total # blocks, NEW most \in Nat,
         NEW n \in Nat, Bytes(status.counts, wraps, total, n, chars, blocks, most),
         Bump(total, n)
  PROVE  Bytes(status'.counts, wraps', total, 0, chars, blocks, most)
<1> DEFINE old == status.counts
           new == status'.counts
<1>1. /\ wraps \subseteq wraps' /\ new[chars] = old[chars] /\ new[blocks] = old[blocks]
      /\ new[total] \in Nat /\ new[total] =< old[total] + n
      /\ total \notin wraps' => new[total] = old[total] + n
  BY Zenon, BumpIs
<1>2. old[total] \in Nat /\ old[chars] \in Nat /\ old[blocks] \in Nat
  BY Zenon, CountsNat
<1>3. /\ old[chars] * most \in Nat /\ old[blocks] * PageSize \in Nat
      /\ old[blocks] * SectorSize \in Nat
  BY <1>2, Sizes
<1>4. ASSUME {chars, blocks} \cap wraps' = {}
      PROVE  new[total] + 0 =< new[chars] * most + new[blocks] * PageSize
  <2>1. old[total] + n =< old[chars] * most + old[blocks] * PageSize
    BY Zenon, <1>1, <1>4 DEF Bytes
  <2>2. new[total] + 0 =< old[chars] * most + old[blocks] * PageSize
    BY <1>1, <1>2, <1>3, <2>1
  <2>3. QED
    BY Zenon, <1>1, <2>2
<1>5. ASSUME total \notin wraps'
      PROVE  new[total] + 0 >= new[blocks] * SectorSize
  <2>1. old[total] + n >= old[blocks] * SectorSize
    BY Zenon, <1>1, <1>5 DEF Bytes
  <2>2. new[total] + 0 >= old[blocks] * SectorSize
    BY <1>1, <1>2, <1>3, <1>5, <2>1
  <2>3. QED
    BY Zenon, <1>1, <2>2
<1>6. QED
  BY Zenon, <1>4, <1>5 DEF Bytes

(* Counters that are not about these bytes leave them alone.               *)
LEMMA OthersCounted ==
  ASSUME TypeOK, NEW total \in CountFields, NEW chars \in CountFields,
         NEW blocks \in CountFields, NEW most, NEW extra,
         Bytes(status.counts, wraps, total, extra, chars, blocks, most),
         NEW c \in CountFields, NEW n \in Nat, Bump(c, n), c \notin {total, chars, blocks}
  PROVE  Bytes(status'.counts, wraps', total, extra, chars, blocks, most)
<1>1. /\ wraps \subseteq wraps' /\ status'.counts[total] = status.counts[total]
      /\ status'.counts[chars] = status.counts[chars]
      /\ status'.counts[blocks] = status.counts[blocks]
  BY Zenon, BumpIs
<1>2. QED
  BY Zenon, <1>1 DEF Bytes

LEMMA Fields ==
  /\ "total_bytes_read" \in CountFields /\ "total_bytes_written" \in CountFields
  /\ "char_read_count" \in CountFields /\ "char_write_count" \in CountFields
  /\ "block_read_count" \in CountFields /\ "block_write_count" \in CountFields
BY Zenon DEF CountFields

(* Counting a call or a segment, and then its bytes.                       *)
LEMMA CountKeeps ==
  ASSUME TypeOK, BytesInv, owed = Nothing, NEW n \in Nat,
         \/ n =< MsgLen /\ Count("char_read_count", "total_bytes_read", n)
         \/ n =< PageSize /\ Count("char_write_count", "total_bytes_written", n)
         \/ SectorSize =< n /\ n =< PageSize /\ Count("block_read_count", "total_bytes_read", n)
         \/ SectorSize =< n /\ n =< PageSize /\ Count("block_write_count", "total_bytes_written", n)
  PROVE  /\ BytesInv' /\ wraps' \subseteq CountFields
         /\ status' \in [counts : [CountFields -> 0 .. (U32 - 1)], mode : Modes]
         /\ owed' \in [total : Totals, bytes : Nat]
<1>1. PICK k \in CountFields, c \in Totals : Count(k, c, n)
  BY Zenon, Fields DEF Totals
<1>2. /\ wraps' \subseteq CountFields
      /\ status' \in [counts : [CountFields -> 0 .. (U32 - 1)], mode : Modes]
  BY Zenon, <1>1, BumpIs, 1 \in Nat DEF Count
<1>3. owed' \in [total : Totals, bytes : Nat]
  BY Zenon, <1>1 DEF Count
<1>4. /\ Bytes(status.counts, wraps, "total_bytes_read", 0,
               "char_read_count", "block_read_count", MsgLen)
      /\ Bytes(status.counts, wraps, "total_bytes_written", 0,
               "char_write_count", "block_write_count", PageSize)
  BY DEF BytesInv, Owing, Nothing
<1>5. ASSUME \/ n =< MsgLen /\ Count("char_read_count", "total_bytes_read", n)
             \/ SectorSize =< n /\ n =< PageSize
                /\ Count("block_read_count", "total_bytes_read", n)
      PROVE  BytesInv'
  <2>1. Bytes(status'.counts, wraps', "total_bytes_read", n,
              "char_read_count", "block_read_count", MsgLen)
    BY <1>4, <1>5, CharCounted, SegmentCounted, Fields, Sizes DEF Count
  <2>2. Bytes(status'.counts, wraps', "total_bytes_written", 0,
              "char_write_count", "block_write_count", PageSize)
    BY <1>4, <1>5, OthersCounted, Fields DEF Count
  <2>3. owed' = [total |-> "total_bytes_read", bytes |-> n]
    BY Zenon, <1>5 DEF Count
  <2>4. Owing("total_bytes_read")' = n /\ Owing("total_bytes_written")' = 0
    BY <2>3 DEF Owing
  <2>5. QED
    BY Zenon, <2>1, <2>2, <2>4 DEF BytesInv
<1>6. ASSUME \/ n =< PageSize /\ Count("char_write_count", "total_bytes_written", n)
             \/ SectorSize =< n /\ n =< PageSize
                /\ Count("block_write_count", "total_bytes_written", n)
      PROVE  BytesInv'
  <2>1. Bytes(status'.counts, wraps', "total_bytes_written", n,
              "char_write_count", "block_write_count", PageSize)
    BY <1>4, <1>6, CharCounted, SegmentCounted, Fields, Sizes DEF Count
  <2>2. Bytes(status'.counts, wraps', "total_bytes_read", 0,
              "char_read_count", "block_read_count", MsgLen)
    BY <1>4, <1>6, OthersCounted, Fields DEF Count
  <2>3. owed' = [total |-> "total_bytes_written", bytes |-> n]
    BY Zenon, <1>6 DEF Count
  <2>4. Owing("total_bytes_written")' = n /\ Owing("total_bytes_read")' = 0
    BY <2>3 DEF Owing
  <2>5. QED
    BY Zenon, <2>1, <2>2, <2>4 DEF BytesInv
<1>7. QED
  BY Zenon, <1>2, <1>3, <1>5, <1>6

LEMMA BytesKeep ==
  ASSUME TypeOK, BytesInv, CountBytes
  PROVE  /\ BytesInv' /\ wraps' \subseteq CountFields /\ owed' = Nothing
         /\ status' \in [counts : [CountFields -> 0 .. (U32 - 1)], mode : Modes]
<1> DEFINE c == owed.total
           n == owed.bytes
<1>1. owed' = Nothing /\ Bump(c, n)
  BY Zenon DEF CountBytes
<1>2. c \in Totals /\ n \in Nat
  BY Zenon DEF CountBytes, TypeOK
<1>3. Totals \subseteq CountFields
  BY Zenon, Fields DEF Totals
<1>4. Owing("total_bytes_read")' = 0 /\ Owing("total_bytes_written")' = 0
  BY <1>1 DEF Owing, Nothing
<1>5. CASE c = "total_bytes_read"
  <2>1. Owing("total_bytes_read") = n /\ Owing("total_bytes_written") = 0
    BY <1>5 DEF Owing
  <2>2. /\ Bytes(status.counts, wraps, "total_bytes_read", n,
                 "char_read_count", "block_read_count", MsgLen)
        /\ Bytes(status.counts, wraps, "total_bytes_written", 0,
                 "char_write_count", "block_write_count", PageSize)
    BY Zenon, <2>1 DEF BytesInv
  <2> HIDE DEF n
  <2>3. Bytes(status'.counts, wraps', "total_bytes_read", 0,
              "char_read_count", "block_read_count", MsgLen)
    BY <1>1, <1>2, <1>5, <2>2, OwedCounted, Fields, Sizes
  <2>4. Bytes(status'.counts, wraps', "total_bytes_written", 0,
              "char_write_count", "block_write_count", PageSize)
    BY <1>1, <1>2, <1>5, <2>2, OthersCounted, Fields
  <2>5. QED
    BY Zenon, <1>1, <1>2, <1>3, <1>4, <2>3, <2>4, BumpIs DEF BytesInv
<1>6. CASE c = "total_bytes_written"
  <2>1. Owing("total_bytes_written") = n /\ Owing("total_bytes_read") = 0
    BY <1>6 DEF Owing
  <2>2. /\ Bytes(status.counts, wraps, "total_bytes_written", n,
                 "char_write_count", "block_write_count", PageSize)
        /\ Bytes(status.counts, wraps, "total_bytes_read", 0,
                 "char_read_count", "block_read_count", MsgLen)
    BY Zenon, <2>1 DEF BytesInv
  <2> HIDE DEF n
  <2>3. Bytes(status'.counts, wraps', "total_bytes_written", 0,
              "char_write_count", "block_write_count", PageSize)
    BY <1>1, <1>2, <1>6, <2>2, OwedCounted, Fields, Sizes
  <2>4. Bytes(status'.counts, wraps', "total_bytes_read", 0,
              "char_read_count", "block_read_count", MsgLen)
    BY <1>1, <1>2, <1>6, <2>2, OthersCounted, Fields
  <2>5. QED
    BY Zenon, <1>1, <1>2, <1>3, <1>4, <2>3, <2>4, BumpIs DEF BytesInv
<1>7. QED
  BY Zenon, <1>2, <1>5, <1>6 DEF Totals

LEMMA BytesStay ==
  ASSUME BytesInv, UNCHANGED <<owed, wraps>>, status'.counts = status.counts PROVE BytesInv'
BY Zenon DEF BytesInv, Bytes, Owing

LEMMA CallFields ==
  ASSUME NEW r \in Calls PROVE r.pos \in Nat /\ r.count \in Nat
<1>1. r.pos \in Nat /\ r.count \in Counts \cup {0}
  BY DEF Calls
<1>2. \A x \in Counts \cup {0} : x \in Nat
  <2>1. Counts \subseteq Nat
    BY Zenon, Sizes
  <2>2. QED
    BY <2>1
<1>3. QED
  BY Zenon, <1>1, <1>2

(* The invariants of a single call.                                        *)
CallOK(r) ==
  /\ r.pc \in {"idle", "handler"} => r.ret = 0
  /\ r.pc \in {"counted", "return"} /\ r.kind = "read" /\ r.ret > 0 => r.pos =< MsgLen

LEMMA CallsOK == (HandlerInv /\ ReadStaysInMessage) <=> \A t \in Threads : CallOK(call[t])
BY Zenon DEF HandlerInv, ReadStaysInMessage, CallOK

(* A step of one call that leaves the others alone.                        *)
LEMMA CallStep ==
  ASSUME TypeOK, HandlerInv, ReadStaysInMessage, NEW t \in Threads, NEW r \in Calls,
         CallOK(r), call' = [call EXCEPT ![t] = r]
  PROVE  call' \in [Threads -> Calls] /\ HandlerInv' /\ ReadStaysInMessage'
<1>1. call \in [Threads -> Calls]
  BY Zenon DEF TypeOK
<1>2. \A u \in Threads : CallOK(call[u])
  BY Zenon, CallsOK
<1>3. call' \in [Threads -> Calls] /\ \A u \in Threads : CallOK(call'[u])
  BY Zenon, <1>1, <1>2
<1>4. QED
  BY Zenon, <1>3 DEF HandlerInv, ReadStaysInMessage, CallOK

-----------------------------------------------------------------------------
(* The devices' steps.                                                     *)

LEMMA DevicesInit == Init => DevicesInv
<1> SUFFICES ASSUME Init PROVE DevicesInv
  BY Zenon
<1>1. Idle \in Calls /\ CallOK(Idle)
  <2>1. (CHOOSE f \in Files : TRUE) \in Files
    BY Zenon, WalAssumption
  <2>2. QED
    BY <2>1 DEF Idle, Calls, CallOK
<1>2. call \in [Threads -> Calls] /\ \A t \in Threads : CallOK(call[t])
  BY Zenon, <1>1 DEF Init
<1>3. status \in [counts : [CountFields -> 0 .. (U32 - 1)], mode : Modes]
  BY Sizes DEF Init, NoStatus, Modes
<1>4. bio \in [dir : {"read", "write"}, at : Nat, left : Seq(Segments)]
  BY DEF Init
<1>5. TypeOK
  BY <1>2, <1>3, <1>4, Sizes DEF Init, TypeOK
<1>6. HandlerInv /\ ReadStaysInMessage
  BY Zenon, <1>2, CallsOK
<1>7. LockInv
  BY Zenon DEF Init, LockInv
<1>8. \A x \in CountFields : status.counts[x] = 0
  BY DEF Init, NoStatus
<1>9. Owing("total_bytes_read") = 0 /\ Owing("total_bytes_written") = 0
  BY DEF Init, Owing, Nothing
<1>10. BytesInv
  BY <1>8, <1>9, Fields, Sizes DEF BytesInv, Bytes
<1>11. QED
  BY Zenon, <1>5, <1>6, <1>7, <1>10 DEF DevicesInv

(* The steps that only move files.                                         *)
LEMMA FileKeeps ==
  ASSUME DevicesInv, NEW f \in Files,
         CharOpen(f) \/ CharRelease(f) \/ \E o \in Offsets : CharLseek(f, o)
  PROVE  DevicesInv'
<1>1. UNCHANGED <<call, mutex, status, owed, bio, data, wraps, calls>>
  BY Zenon DEF CharOpen, CharRelease, CharLseek
<1>2. TypeOK
  BY Zenon DEF DevicesInv
<1>3. fpos' \in [Files -> Nat]
  <2>1. fpos' = fpos \/ \E o \in Offsets \cup {0} : fpos' = [fpos EXCEPT ![f] = o]
    BY Zenon DEF CharOpen, CharRelease, CharLseek
  <2>2. Offsets \cup {0} \subseteq Nat
    <3>1. Offsets \subseteq Nat /\ 0 \in Nat
      BY Sizes
    <3>2. QED
      BY Zenon, <3>1
  <2>3. QED
    BY Zenon, <1>2, <2>1, <2>2 DEF TypeOK
<1>4. open' \subseteq Files /\ fresh' \subseteq open'
  BY Zenon, <1>2 DEF TypeOK, CharOpen, CharRelease, CharLseek
<1>5. TypeOK'
  BY Zenon, <1>1, <1>2, <1>3, <1>4 DEF TypeOK
<1>6. HandlerInv' /\ ReadStaysInMessage' /\ LockInv'
  BY Zenon, <1>1 DEF DevicesInv, HandlerInv, ReadStaysInMessage, LockInv
<1>7. BytesInv'
  BY Zenon, <1>1, BytesStay DEF DevicesInv
<1>8. QED
  BY Zenon, <1>5, <1>6, <1>7 DEF DevicesInv

LEMMA EnterKeeps ==
  ASSUME DevicesInv, NEW t \in Threads, NEW f \in Files, NEW kind \in {"read", "write"},
         NEW n \in Counts, NEW own \in BOOLEAN, NEW pos \in Nat, Enter(t, f, kind, n, own, pos)
  PROVE  DevicesInv'
<1> DEFINE new == [pc |-> "handler", kind |-> kind, file |-> f, count |-> n, own |-> own,
                   pos |-> pos, ret |-> 0, err |-> FALSE, first |-> ~own /\ f \in fresh]
<1>1. /\ call' = [call EXCEPT ![t] = new]
      /\ UNCHANGED <<open, fpos, fresh, mutex, status, owed, bio, data, wraps>>
  BY Zenon DEF Enter
<1>2. calls' \in 0 .. MaxCalls
  BY Sizes DEF Enter, Counted, TypeOK, DevicesInv
<1>3. new \in Calls
  <2>1. (~own /\ f \in fresh) \in BOOLEAN
    OBVIOUS
  <2>2. QED
    BY Zenon, <2>1, 0 \in Nat DEF Calls
<1>4. CallOK(new)
  BY DEF CallOK
<1> HIDE DEF new
<1>5. call' \in [Threads -> Calls] /\ HandlerInv' /\ ReadStaysInMessage'
  BY Zenon, <1>1, <1>3, <1>4, CallStep DEF DevicesInv
<1>6. TypeOK' /\ LockInv'
  BY Zenon, <1>1, <1>2, <1>5 DEF DevicesInv, TypeOK, LockInv
<1>7. BytesInv'
  BY Zenon, <1>1, BytesStay DEF DevicesInv
<1>8. QED
  BY Zenon, <1>5, <1>6, <1>7 DEF DevicesInv

LEMMA LeaveKeeps == ASSUME DevicesInv, NEW t \in Threads, Leave(t) PROVE DevicesInv'
<1>1. Idle \in Calls /\ CallOK(Idle)
  <2>1. (CHOOSE f \in Files : TRUE) \in Files
    BY Zenon, WalAssumption
  <2>2. QED
    BY <2>1 DEF Idle, Calls, CallOK
<1>2. /\ call' = [call EXCEPT ![t] = Idle]
      /\ UNCHANGED <<open, mutex, status, owed, bio, data, wraps, calls>>
  BY Zenon DEF Leave
<1>3. call' \in [Threads -> Calls] /\ HandlerInv' /\ ReadStaysInMessage'
  BY Zenon, <1>1, <1>2, CallStep DEF DevicesInv
<1>4. call[t].file \in Files /\ call[t].pos \in Nat
  BY DEF DevicesInv, TypeOK, Calls
<1>5. fpos' \in [Files -> Nat] /\ fresh' \subseteq fresh
  BY Zenon, <1>4 DEF Leave, DevicesInv, TypeOK
<1>6. TypeOK' /\ LockInv'
  BY Zenon, <1>2, <1>3, <1>5 DEF DevicesInv, TypeOK, LockInv
<1>7. BytesInv'
  BY Zenon, <1>2, BytesStay DEF DevicesInv
<1>8. QED
  BY Zenon, <1>3, <1>6, <1>7 DEF DevicesInv

(* A call that ends without having transferred anything.                   *)
LEMMA NothingKeeps ==
  ASSUME DevicesInv, NEW t \in Threads, call[t].pc = "handler", NEW e \in BOOLEAN,
         call' = [call EXCEPT ![t] = [call[t] EXCEPT !.pc = "return", !.err = e]],
         UNCHANGED <<open, fpos, fresh, mutex, status, owed, bio, data, wraps, calls>>
  PROVE  DevicesInv'
<1> DEFINE new == [call[t] EXCEPT !.pc = "return", !.err = e]
<1>1. call[t] \in Calls /\ call[t].ret = 0
  BY Zenon DEF DevicesInv, TypeOK, HandlerInv
<1>2. new \in Calls /\ new.ret = 0 /\ new.pc = "return"
  BY <1>1 DEF Calls
<1>3. CallOK(new)
  BY <1>2 DEF CallOK
<1> HIDE DEF new
<1>4. call' \in [Threads -> Calls] /\ HandlerInv' /\ ReadStaysInMessage'
  BY Zenon, <1>2, <1>3, CallStep DEF DevicesInv, new
<1>5. TypeOK' /\ LockInv'
  BY Zenon, <1>4 DEF DevicesInv, TypeOK, LockInv
<1>6. BytesInv'
  BY Zenon, BytesStay DEF DevicesInv
<1>7. QED
  BY Zenon, <1>4, <1>5, <1>6 DEF DevicesInv

(* A call that transfers n bytes.                                          *)
LEMMA TransferKeeps ==
  ASSUME DevicesInv, NEW t \in Threads, NEW n \in Nat, Unlocked,
         UNCHANGED <<open, fpos, fresh, bio, data, calls>>,
         \/ /\ call[t].kind = "read" /\ n =< MsgLen /\ call[t].pos + n =< MsgLen
            /\ Transfer(t, n, "char_read_count", "total_bytes_read")
         \/ /\ call[t].kind = "write" /\ n =< PageSize
            /\ Transfer(t, n, "char_write_count", "total_bytes_written")
  PROVE  DevicesInv'
<1> DEFINE new == [call[t] EXCEPT !.pc = "counted", !.ret = n, !.pos = call[t].pos + n]
<1>1. call[t] \in Calls /\ call[t].pos \in Nat /\ call[t].pos + n \in Nat
  <2>1. call[t] \in Calls
    BY Zenon DEF DevicesInv, TypeOK
  <2>2. call[t].pos \in Nat
    BY Zenon, <2>1, CallFields
  <2>3. QED
    BY <2>1, <2>2
<1>2. /\ new \in Calls /\ new.pc = "counted" /\ new.pos = call[t].pos + n
      /\ new.kind = call[t].kind
  BY <1>1 DEF Calls
<1>3. call' = [call EXCEPT ![t] = new] /\ mutex' = t
  BY <1>1 DEF Transfer, Calls
<1>4. CallOK(new)
  BY <1>2 DEF CallOK
<1> HIDE DEF new
<1>5. call' \in [Threads -> Calls] /\ HandlerInv' /\ ReadStaysInMessage'
  BY Zenon, <1>2, <1>3, <1>4, CallStep DEF DevicesInv
<1>6. owed = Nothing
  BY Zenon DEF DevicesInv, LockInv, Unlocked
<1>7. /\ BytesInv' /\ wraps' \subseteq CountFields
      /\ status' \in [counts : [CountFields -> 0 .. (U32 - 1)], mode : Modes]
      /\ owed' \in [total : Totals, bytes : Nat]
  BY Zenon, <1>6, CountKeeps DEF DevicesInv, Transfer
<1>8. TypeOK'
  BY Zenon, <1>3, <1>5, <1>7 DEF DevicesInv, TypeOK
<1>9. LockInv'
  BY Zenon, <1>3, WalAssumption DEF LockInv
<1>10. QED
  BY Zenon, <1>5, <1>7, <1>8, <1>9 DEF DevicesInv

LEMMA CharKeeps ==
  ASSUME DevicesInv, NEW t \in Threads, CharRead(t) \/ CharWrite(t) \/ CharFault(t)
  PROVE  DevicesInv'
<1>1. /\ call[t] \in Calls /\ call[t].pc = "handler" /\ Unlocked
      /\ UNCHANGED <<open, fpos, fresh, bio, data, calls>>
  BY Zenon DEF DevicesInv, TypeOK, CharRead, CharWrite, CharFault
<1>2. call[t].pos \in Nat /\ call[t].count \in Nat
  BY Zenon, <1>1, CallFields
<1>3. CASE CharFault(t)
  <2>1. /\ call' = [call EXCEPT ![t] = [call[t] EXCEPT !.pc = "return", !.err = TRUE]]
        /\ UNCHANGED <<mutex, status, owed, wraps>>
    BY <1>3 DEF CharFault
  <2>2. QED
    BY Zenon, <1>1, <2>1, NothingKeeps
<1>4. CASE CharRead(t) /\ call[t].pos >= MsgLen
  <2>1. /\ call' = [call EXCEPT ![t] = [call[t] EXCEPT !.pc = "return"]]
        /\ UNCHANGED <<mutex, status, owed, wraps>>
    BY <1>4 DEF CharRead
  <2>2. [call[t] EXCEPT !.pc = "return"] = [call[t] EXCEPT !.pc = "return", !.err = call[t].err]
        /\ call[t].err \in BOOLEAN
    BY <1>1 DEF Calls
  <2>3. QED
    BY Zenon, <1>1, <2>1, <2>2, NothingKeeps
<1>5. CASE CharRead(t) /\ ~(call[t].pos >= MsgLen)
  <2> DEFINE n == Min({call[t].count, MsgLen - call[t].pos})
  <2>1. Transfer(t, n, "char_read_count", "total_bytes_read") /\ call[t].kind = "read"
    BY Zenon, <1>5 DEF CharRead
  <2>2. MsgLen - call[t].pos \in Nat
    BY <1>2, <1>5, Sizes
  <2>3. n \in Nat /\ n =< MsgLen - call[t].pos
    BY Zenon, <1>2, <2>2, MinOf
  <2> HIDE DEF n
  <2>4. n =< MsgLen /\ call[t].pos + n =< MsgLen
    BY <1>2, <2>3, Sizes
  <2>5. QED
    BY Zenon, <1>1, <2>1, <2>3, <2>4, TransferKeeps
<1>6. CASE CharWrite(t)
  <2> DEFINE n == Min({call[t].count, PageSize})
  <2>1. Transfer(t, n, "char_write_count", "total_bytes_written") /\ call[t].kind = "write"
    BY Zenon, <1>6 DEF CharWrite
  <2>2. n \in Nat /\ n =< PageSize
    BY Zenon, <1>2, MinOf, Sizes
  <2> HIDE DEF n
  <2>3. QED
    BY Zenon, <1>1, <2>1, <2>2, TransferKeeps
<1>7. QED
  BY Zenon, <1>3, <1>4, <1>5, <1>6

LEMMA CharBytesKeeps == ASSUME DevicesInv, NEW t \in Threads, CharBytes(t) PROVE DevicesInv'
<1> DEFINE new == [call[t] EXCEPT !.pc = "return"]
<1>1. call[t] \in Calls /\ CallOK(call[t])
  BY Zenon, CallsOK DEF DevicesInv, TypeOK
<1>2. /\ new \in Calls /\ new.pc = "return" /\ new.kind = call[t].kind
      /\ new.ret = call[t].ret /\ new.pos = call[t].pos
      /\ call[t].pc \in {"idle", "handler", "counted", "return"}
  BY <1>1 DEF Calls
<1>3. CallOK(new)
  <2>1. CASE call[t].pc \in {"idle", "handler"}
    BY <1>1, <1>2, <2>1 DEF CallOK
  <2>2. CASE call[t].pc \in {"counted", "return"}
    BY Zenon, <1>1, <1>2, <2>2 DEF CallOK
  <2>3. QED
    BY Zenon, <1>2, <2>1, <2>2
<1>4. /\ call' = [call EXCEPT ![t] = new] /\ mutex' = "free" /\ CountBytes
      /\ UNCHANGED <<open, fpos, fresh, bio, data, calls>>
  BY DEF CharBytes
<1> HIDE DEF new
<1>5. call' \in [Threads -> Calls] /\ HandlerInv' /\ ReadStaysInMessage'
  BY Zenon, <1>2, <1>3, <1>4, CallStep DEF DevicesInv
<1>6. /\ BytesInv' /\ wraps' \subseteq CountFields /\ owed' = Nothing
      /\ status' \in [counts : [CountFields -> 0 .. (U32 - 1)], mode : Modes]
  BY Zenon, <1>4, BytesKeep DEF DevicesInv
<1>7. TypeOK' /\ LockInv'
  BY Zenon, <1>4, <1>5, <1>6 DEF DevicesInv, TypeOK, LockInv
<1>8. QED
  BY Zenon, <1>5, <1>6, <1>7 DEF DevicesInv

LEMMA ControlKeeps ==
  ASSUME DevicesInv,
         \/ Reset
         \/ \E m \in Modes \cup {"other"} : SetMode(m)
         \/ \E dir \in {"read", "write"}, s \in 0 .. (Sectors - 1), segs \in Shapes :
              SubmitBio(dir, s, segs)
  PROVE  DevicesInv'
<1>1. UNCHANGED <<open, fpos, fresh, call, owed, data>> /\ Counted /\ Unlocked
  BY Zenon DEF Reset, SetMode, SubmitBio, charVars
<1>2. calls' \in 0 .. MaxCalls
  BY <1>1, Sizes DEF Counted, TypeOK, DevicesInv
<1>3. owed = Nothing
  BY Zenon, <1>1 DEF DevicesInv, LockInv, Unlocked
<1>4. HandlerInv' /\ ReadStaysInMessage' /\ LockInv'
  BY Zenon, <1>1, <1>3 DEF DevicesInv, HandlerInv, ReadStaysInMessage, LockInv
<1>5. CASE Reset
  <2>1. /\ status' = [counts |-> NoStatus, mode |-> "NORMAL"] /\ wraps' = {}
        /\ UNCHANGED <<mutex, bio>>
    BY Zenon, <1>5 DEF Reset
  <2>2. status' \in [counts : [CountFields -> 0 .. (U32 - 1)], mode : Modes]
    BY <2>1, Sizes DEF NoStatus, Modes
  <2>3. \A x \in CountFields : status'.counts[x] = 0
    BY <2>1 DEF NoStatus
  <2>4. Owing("total_bytes_read")' = 0 /\ Owing("total_bytes_written")' = 0
    BY <1>1, <1>3 DEF Owing, Nothing
  <2>5. BytesInv'
    BY <2>3, <2>4, Fields, Sizes DEF BytesInv, Bytes
  <2>6. QED
    BY Zenon, <1>1, <1>2, <1>4, <2>1, <2>2, <2>5 DEF DevicesInv, TypeOK
<1>6. ASSUME NEW m \in Modes \cup {"other"}, SetMode(m) PROVE DevicesInv'
  <2>1. UNCHANGED <<mutex, bio, wraps>>
    BY Zenon, <1>6 DEF SetMode
  <2>2. status' = status \/ (m \in Modes /\ status' = [status EXCEPT !.mode = m])
    BY Zenon, <1>6 DEF SetMode
  <2>3. status \in [counts : [CountFields -> 0 .. (U32 - 1)], mode : Modes]
    BY Zenon DEF TypeOK, DevicesInv
  <2>4. /\ status' \in [counts : [CountFields -> 0 .. (U32 - 1)], mode : Modes]
        /\ status'.counts = status.counts
    BY <2>2, <2>3
  <2>5. BytesInv'
    BY Zenon, <1>1, <2>1, <2>4, BytesStay DEF DevicesInv
  <2>6. QED
    BY Zenon, <1>1, <1>2, <1>4, <2>1, <2>4, <2>5 DEF DevicesInv, TypeOK
<1>7. ASSUME NEW dir \in {"read", "write"}, NEW s \in 0 .. (Sectors - 1), NEW segs \in Shapes,
             SubmitBio(dir, s, segs)
      PROVE  DevicesInv'
  <2>1. /\ bio' = [dir |-> dir, at |-> s, left |-> segs] /\ mutex' = "bio"
        /\ UNCHANGED <<status, wraps>>
    BY Zenon, <1>7 DEF SubmitBio
  <2>2. segs \in Seq(Segments) /\ s \in Nat
    BY WalAssumption
  <2>3. bio' \in [dir : {"read", "write"}, at : Nat, left : Seq(Segments)]
    BY Zenon, <2>1, <2>2
  <2>4. BytesInv'
    BY Zenon, <1>1, <2>1, BytesStay DEF DevicesInv
  <2>5. QED
    BY Zenon, <1>1, <1>2, <1>4, <2>1, <2>3, <2>4 DEF DevicesInv, TypeOK
<1>8. QED
  BY Zenon, <1>5, <1>6, <1>7

(* Each segment of a bio is counted by itself, and then its bytes are.     *)
LEMMA SegmentKeeps == ASSUME DevicesInv, BioSegment PROVE DevicesInv'
<1> DEFINE len == Head(bio.left)
           n == len * SectorSize
<1>1. UNCHANGED <<open, fpos, fresh, call, mutex, bio, calls>>
  BY Zenon DEF BioSegment, charVars
<1>2. HandlerInv' /\ ReadStaysInMessage'
  BY Zenon, <1>1 DEF DevicesInv, HandlerInv, ReadStaysInMessage
<1>3. /\ bio \in [dir : {"read", "write"}, at : Nat, left : Seq(Segments)]
      /\ mutex = "bio" /\ bio.left # <<>> /\ owed = Nothing
  BY Zenon DEF DevicesInv, TypeOK, BioSegment
<1>4. bio.left \in Seq(Segments)
  BY <1>3
<1>5. len \in Segments
  BY Zenon, <1>3, <1>4, HeadTailProperties
<1>6. n \in Nat /\ SectorSize =< n /\ n =< PageSize
  <2> HIDE DEF len
  <2>1. len \in Nat /\ 1 =< len /\ len * SectorSize =< PageSize
    BY <1>5, Sizes DEF Segments
  <2>2. QED
    BY <2>1, Sizes
<1>7. data' \in [0 .. (Sectors - 1) -> {"zero", "message", "written"}]
  <2>1. data \in [0 .. (Sectors - 1) -> {"zero", "message", "written"}]
    BY Zenon DEF DevicesInv, TypeOK
  <2>2. \/ data' = data
        \/ data' = [x \in DOMAIN data |->
                      IF bio.at =< x /\ x < bio.at + len
                      THEN IF bio.dir = "read" THEN "message" ELSE "written"
                      ELSE data[x]]
    BY Zenon DEF BioSegment
  <2> HIDE DEF len
  <2>3. QED
    BY Zenon, <2>1, <2>2
<1>8. \/ Count("block_read_count", "total_bytes_read", n)
      \/ Count("block_write_count", "total_bytes_written", n)
  BY Zenon DEF BioSegment
<1> HIDE DEF n
<1>9. /\ BytesInv' /\ wraps' \subseteq CountFields
      /\ status' \in [counts : [CountFields -> 0 .. (U32 - 1)], mode : Modes]
      /\ owed' \in [total : Totals, bytes : Nat]
  BY Zenon, <1>3, <1>6, <1>8, CountKeeps DEF DevicesInv
<1>10. TypeOK'
  BY Zenon, <1>1, <1>7, <1>9 DEF DevicesInv, TypeOK
<1>11. LockInv'
  BY Zenon, <1>1, <1>3 DEF LockInv
<1>12. QED
  BY Zenon, <1>2, <1>9, <1>10, <1>11 DEF DevicesInv

LEMMA BioKeeps == ASSUME DevicesInv, BioBytes \/ BioEnd PROVE DevicesInv'
<1>1. UNCHANGED <<open, fpos, fresh, call, data, calls>> /\ mutex = "bio"
  BY Zenon DEF BioBytes, BioEnd, charVars
<1>2. HandlerInv' /\ ReadStaysInMessage'
  BY Zenon, <1>1 DEF DevicesInv, HandlerInv, ReadStaysInMessage
<1>3. bio \in [dir : {"read", "write"}, at : Nat, left : Seq(Segments)]
  BY Zenon DEF DevicesInv, TypeOK
<1>4. CASE BioBytes
  <2>1. /\ CountBytes /\ mutex' = mutex
        /\ bio' = [bio EXCEPT !.at = bio.at + Head(bio.left), !.left = Tail(bio.left)]
    BY <1>3, <1>4 DEF BioBytes
  <2>2. bio.left # <<>>
    BY Zenon, <1>1, <2>1 DEF DevicesInv, LockInv, CountBytes
  <2>3. bio.left \in Seq(Segments) /\ bio.at \in Nat
    BY <1>3
  <2>4. Head(bio.left) \in Segments /\ Tail(bio.left) \in Seq(Segments)
    BY Zenon, <2>2, <2>3, HeadTailProperties
  <2>5. bio.at + Head(bio.left) \in Nat
    <3>1. \A x \in Segments : x \in Nat
      BY Sizes DEF Segments
    <3>2. Head(bio.left) \in Nat
      BY Zenon, <2>4, <3>1
    <3>3. QED
      BY <2>3, <3>2
  <2>6. bio' \in [dir : {"read", "write"}, at : Nat, left : Seq(Segments)]
    BY <1>3, <2>1, <2>4, <2>5
  <2>7. /\ BytesInv' /\ wraps' \subseteq CountFields /\ owed' = Nothing
        /\ status' \in [counts : [CountFields -> 0 .. (U32 - 1)], mode : Modes]
    BY Zenon, <2>1, BytesKeep DEF DevicesInv
  <2>8. TypeOK' /\ LockInv'
    BY Zenon, <1>1, <2>1, <2>6, <2>7 DEF DevicesInv, TypeOK, LockInv
  <2>9. QED
    BY Zenon, <1>2, <2>7, <2>8 DEF DevicesInv
<1>5. CASE BioEnd
  <2>1. mutex' = "free" /\ bio.left = <<>> /\ UNCHANGED <<status, owed, bio, wraps>>
    BY Zenon, <1>5 DEF BioEnd
  <2>2. owed = Nothing
    BY Zenon, <1>1, <2>1 DEF DevicesInv, LockInv
  <2>3. BytesInv'
    BY Zenon, <2>1, BytesStay DEF DevicesInv
  <2>4. TypeOK' /\ LockInv'
    BY Zenon, <1>1, <2>1, <2>2 DEF DevicesInv, TypeOK, LockInv
  <2>5. QED
    BY Zenon, <1>2, <2>3, <2>4 DEF DevicesInv
<1>6. QED
  BY Zenon, <1>4, <1>5

LEMMA DevicesNext == DevicesInv /\ [Next]_vars => DevicesInv'
<1> SUFFICES ASSUME DevicesInv, [Next]_vars PROVE DevicesInv'
  BY Zenon
<1>1. ASSUME NEW t \in Threads, NEW f \in Files, NEW kind \in {"read", "write"}, NEW n \in Counts,
             \/ Enter(t, f, kind, n, FALSE, fpos[f])
             \/ \E o \in Offsets : Enter(t, f, kind, n, TRUE, o)
      PROVE  DevicesInv'
  <2>1. fpos[f] \in Nat /\ \A o \in Offsets : o \in Nat
    BY Zenon, Sizes DEF DevicesInv, TypeOK
  <2>2. QED
    BY Zenon, <1>1, <2>1, EnterKeeps
<1>2. CASE UNCHANGED vars
  <2>1. UNCHANGED <<open, fpos, fresh, call, mutex, status, owed, bio, data, wraps, calls>>
    BY Zenon, <1>2 DEF vars, charVars
  <2>2. TypeOK' /\ HandlerInv' /\ ReadStaysInMessage' /\ LockInv'
    BY Zenon, <2>1 DEF DevicesInv, TypeOK, HandlerInv, ReadStaysInMessage, LockInv
  <2>3. BytesInv'
    BY Zenon, <2>1, BytesStay DEF DevicesInv
  <2>4. QED
    BY Zenon, <2>2, <2>3 DEF DevicesInv
<1>3. QED
  BY Zenon, <1>1, <1>2, FileKeeps, LeaveKeeps, CharKeeps, CharBytesKeeps, ControlKeeps,
     SegmentKeeps, BioKeeps DEF Next

LEMMA DevicesInvariant == Spec => []DevicesInv
BY DevicesInit, DevicesNext, PTL DEF Spec

(* For any callers, files, lengths and bios and any width of the counters, *)
(* the variables of the two devices keep their types.                      *)
THEOREM TypeCorrect == Spec => []TypeOK
<1>1. DevicesInv => TypeOK
  BY Zenon DEF DevicesInv
<1>2. QED
  BY <1>1, DevicesInvariant, PTL

(* Whoever takes status_mutex finds every call and every segment counted   *)
(* together with its bytes, and reset together with them, at any width of  *)
(* the counters: a total undercounts only if it has wrapped, and           *)
(* overcounts only if a count has.                                         *)
THEOREM BytesCounted == Spec => []BytesBelongToCalls
<1>1. DevicesInv => BytesBelongToCalls
  <2>1. ASSUME DevicesInv, Unlocked
        PROVE  Owing("total_bytes_read") = 0 /\ Owing("total_bytes_written") = 0
    <3>1. owed = Nothing
      BY Zenon, <2>1 DEF DevicesInv, LockInv, Unlocked
    <3>2. QED
      BY <3>1 DEF Owing, Nothing
  <2>2. QED
    BY Zenon, <2>1 DEF DevicesInv, BytesInv, Bytes, BytesBelongToCalls, BytesOf
<1>2. QED
  BY <1>1, DevicesInvariant, PTL

(* wal_char_read never returns a byte past the message, wherever writes,   *)
(* seeks and the callers of pread have put the position.                   *)
THEOREM ReadsInMessage == Spec => []ReadStaysInMessage
<1>1. DevicesInv => ReadStaysInMessage
  BY Zenon DEF DevicesInv
<1>2. QED
  BY <1>1, DevicesInvariant, PTL
=============================================================================
