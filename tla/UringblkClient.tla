--------------------------- MODULE UringblkClient ---------------------------
(***************************************************************************)
(* The library a program reaches uringblk disks with: UringBlkDevice and   *)
(* UringBlkManager (include/kvm_uringblk.h, src/kvm_uringblk.cc).  A       *)
(* device object owns a file descriptor.  Each transfer, flush or command  *)
(* sets up an io_uring ring of its own, submits one request, waits for it  *)
(* and takes the ring down.  One thread calls the library; io_uring serves *)
(* requests on threads of its own.  Which nodes there are is the driver's  *)
(* doing: any may be found, and any open may fail.  Descriptors and rings  *)
(* are the kernel's; what becomes of a request is the disk's, which is     *)
(* uringblk_main.c (module UringblkQueue).  A transfer here is the one of  *)
(* main, a page at offset 0: a single segment, of which the driver's "ok"  *)
(* means that all of it was transferred.  Nobody else writes to the disks. *)
(***************************************************************************)
EXTENDS Naturals

CONSTANTS
  Objs,       \* the program's UringBlkDevice objects
  Local,      \* the one test_device declares
  Paths,      \* numbers of the nodes /dev/uringblk0, /dev/uringblk1, ...
  Fds,        \* descriptors the process may have open
  Reqs,       \* requests io_uring can have at a time
  Vals,       \* what the program writes to a block
  Ring,       \* what a descriptor of io_uring_queue_init is open on
  NULL

VARIABLES
  files,      \* the descriptor table: a node, Ring or NULL
  dev,        \* m_device_fd and m_device_path of the objects
  call,       \* the transfer, flush or command in progress
  test,       \* where test_all_devices is
  reqs,       \* what io_uring has been given and has not finished
  disk,       \* contents of the block that calls are about; NULL is what was there before
  last,       \* the call that has just returned: operation, node, result, data read
  known,      \* history: what the last write that succeeded wrote; NULL before the first
  gaveup      \* history: what the writes that failed under way were to write

libVars == <<dev, call, test>>
histVars == <<known, gaveup>>
vars == <<files, libVars, reqs, disk, last, histVars>>

AllObjs == Objs \cup {Local}
Kinds == {"cmd", "read", "write", "fsync"}
Closed == [fd |-> NULL, path |-> NULL]
NoTest == [todo |-> {}, cmd |-> 0]
NoLast == [op |-> NULL, path |-> NULL, res |-> NULL, data |-> NULL]
(* test_device sends IDENTIFY, GET_LIMITS, GET_GEOMETRY, GET_FEATURES and  *)
(* GET_STATS.                                                              *)
Commands == 5

Results == {"ok", "error", "opnotsupp"}
Calls ==
  [obj : AllObjs, op : Kinds, val : Vals \cup {NULL}, step : {"setup", "fallback", "submit", "wait"},
   poll : BOOLEAN, ring : Fds \cup {NULL}, req : Reqs \cup {NULL}]
Requests ==
  [op : Kinds, path : Paths, val : Vals \cup {NULL}, poll : BOOLEAN, orphan : BOOLEAN,
   res : Results \cup {NULL}, data : Vals \cup {NULL}]

ASSUME NumbersAssumption == Paths \cup Fds \cup Reqs \subseteq Nat
ASSUME ObjsAssumption == Local \notin Objs
ASSUME NullAssumption ==
  /\ NULL \notin AllObjs /\ NULL \notin Paths /\ NULL \notin Fds /\ NULL \notin Reqs
  /\ NULL \notin Vals /\ NULL \notin Kinds /\ NULL \notin Results
  /\ NULL \notin Calls /\ NULL \notin Requests
  /\ Ring \notin Paths /\ Ring # NULL

TypeOK ==
  /\ files \in [Fds -> Paths \cup {Ring, NULL}]
  /\ dev \in [AllObjs -> [fd : Fds \cup {NULL}, path : Paths \cup {NULL}]]
  /\ call \in Calls \cup {NULL}
  /\ test \in [todo : SUBSET Paths, cmd : 0 .. Commands]
  /\ reqs \in [Reqs -> Requests \cup {NULL}]
  /\ disk \in [Paths -> Vals \cup {NULL}] /\ known \in [Paths -> Vals \cup {NULL}]
  /\ gaveup \in [Paths -> SUBSET (Vals \cup {NULL})]
  /\ last \in [op : Kinds \cup {NULL}, path : Paths \cup {NULL}, res : Results \cup {NULL},
             data : Vals \cup {NULL}]

Init ==
  /\ files = [f \in Fds |-> NULL]
  /\ dev = [o \in AllObjs |-> Closed]
  /\ call = NULL /\ test = NoTest
  /\ reqs = [q \in Reqs |-> NULL]
  /\ disk = [p \in Paths |-> NULL] /\ known = [p \in Paths |-> NULL]
  /\ gaveup = [p \in Paths |-> {}]
  /\ last = NoLast
-----------------------------------------------------------------------------
Lowest(S) == {x \in S : \A y \in S : x =< y}

(* The descriptor the kernel hands out next, from a descriptor table.      *)
NextFd(table) == Lowest({f \in Fds : table[f] = NULL})

(* Whether the program, or test_all_devices between two devices, runs.     *)
ProgramRuns == call = NULL /\ test = NoTest

(* The descriptor table after close_device of o.                           *)
FilesClosing(o) ==
  IF dev[o].fd = NULL THEN files ELSE [files EXCEPT ![dev[o].fd] = NULL]

(* open_device, after its close_device: open takes a free descriptor.      *)
OpenAs(o, p) ==
  \E f \in NextFd(FilesClosing(o)) :
    /\ files' = [FilesClosing(o) EXCEPT ![f] = p]
    /\ dev' = [dev EXCEPT ![o] = [fd |-> f, path |-> p]]

OpenDevice(o, p) ==
  /\ ProgramRuns
  /\ OpenAs(o, p)
  /\ last' = NoLast
  /\ UNCHANGED <<call, test, reqs, disk, histVars>>

(* open fails: there is no node, no descriptor, or the driver refuses.     *)
(* close_device without open is the same, and so is the destructor.        *)
CloseDevice(o) ==
  /\ ProgramRuns
  /\ files' = FilesClosing(o)
  /\ dev' = [dev EXCEPT ![o] = Closed]
  /\ last' = NoLast
  /\ UNCHANGED <<call, test, reqs, disk, histVars>>

(* Mutant: Moved with the descriptor copied and not exchanged.             *)
MovedCopy(to, from) == [dev EXCEPT ![to] = dev[from]]

(* The descriptor and the path change hands.                               *)
Moved(to, from) == [dev EXCEPT ![to] = dev[from], ![from] = Closed]

(* operator=(UringBlkDevice&&).  With nothing open in the target it is the *)
(* move constructor.                                                       *)
MoveAssign(to, from) ==
  /\ ProgramRuns /\ to # from
  /\ files' = FilesClosing(to)
  /\ dev' = Moved(to, from)
  /\ last' = NoLast
  /\ UNCHANGED <<call, test, reqs, disk, histVars>>
-----------------------------------------------------------------------------
(* read_async, write_async and flush_async of o, and the commands: without *)
(* a device they return EBADF at once.                                     *)
NewCall(o, op, v) ==
  [obj |-> o, op |-> op, val |-> v, step |-> "setup", poll |-> FALSE,
   ring |-> NULL, req |-> NULL]

Begin(o, op, v) ==
  /\ ProgramRuns /\ dev[o].fd # NULL /\ (v = NULL <=> op # "write")
  /\ call' = NewCall(o, op, v)
  /\ last' = NoLast
  /\ UNCHANGED <<files, dev, test, reqs, disk, histVars>>

(* Mutant: AfterCommand that sends a failed command again.                 *)
AfterCommandRetries(r) ==
  IF r # "ok" THEN test
  ELSE IF test.cmd = Commands THEN [todo |-> test.todo, cmd |-> 0]
  ELSE [test EXCEPT !.cmd = @ + 1]

(* The call returns r.  What test_device does with the result of a         *)
(* command: it gives up if IDENTIFY failed and sends the next otherwise;   *)
(* its object is destroyed when it returns, and test_all_devices goes on   *)
(* to the next device.                                                     *)
AfterCommand(r) ==
  IF (test.cmd = 1 /\ r # "ok") \/ test.cmd = Commands
  THEN [todo |-> test.todo, cmd |-> 0]
  ELSE [test EXCEPT !.cmd = @ + 1]

Return(r, table) ==
  IF call.obj = Local
  THEN /\ test' = AfterCommand(r)
       /\ IF test'.cmd = 0
          THEN /\ call' = NULL
               /\ files' = [table EXCEPT ![dev[Local].fd] = NULL]
               /\ dev' = [dev EXCEPT ![Local] = Closed]
          ELSE call' = NewCall(Local, "cmd", NULL) /\ files' = table /\ UNCHANGED dev
       /\ UNCHANGED <<last, histVars>>
  ELSE /\ call' = NULL
       /\ files' = table
       /\ last' = [op |-> call.op, path |-> dev[call.obj].path, res |-> r,
                   data |-> IF call.req = NULL THEN NULL ELSE reqs[call.req].data]
       /\ known' = IF call.op = "write" /\ r = "ok"
                   THEN [known EXCEPT ![dev[call.obj].path] = call.val] ELSE known
       /\ gaveup' = IF call.op = "write" /\ call.step = "wait" /\ r = "error"
                    THEN [gaveup EXCEPT ![dev[call.obj].path] = @ \cup {call.val}] ELSE gaveup
       /\ UNCHANGED <<dev, test>>

(* io_uring_queue_init.  A transfer asks for a polled ring first.          *)
Setup ==
  /\ call # NULL /\ call.step \in {"setup", "fallback"}
  /\ \E f \in NextFd(files) :
       /\ files' = [files EXCEPT ![f] = Ring]
       /\ call' = [call EXCEPT !.step = "submit", !.ring = f,
                     !.poll = call.step = "setup" /\ call.op \in {"read", "write"}]
  /\ UNCHANGED <<dev, test, reqs, disk, last, histVars>>

(* It fails, with no descriptor left or for another reason: a transfer     *)
(* tries again without polling, everything else returns the error.         *)
SetupFail ==
  /\ call # NULL /\ call.step \in {"setup", "fallback"}
  /\ IF call.step = "setup" /\ call.op \in {"read", "write"}
     THEN /\ call' = [call EXCEPT !.step = "fallback"]
          /\ UNCHANGED <<files, dev, test, last, histVars>>
     ELSE Return("error", files)
  /\ UNCHANGED <<reqs, disk>>

(* The descriptor table after io_uring_queue_exit.                         *)
RingDown == [files EXCEPT ![call.ring] = NULL]

Submit ==
  /\ call # NULL /\ call.step = "submit"
  /\ \E q \in Lowest({x \in Reqs : reqs[x] = NULL}) :
       /\ reqs' = [reqs EXCEPT ![q] =
                     [op |-> call.op, path |-> dev[call.obj].path, val |-> call.val,
                      poll |-> call.poll, orphan |-> FALSE, res |-> NULL, data |-> NULL]]
       /\ call' = [call EXCEPT !.step = "wait", !.req = q]
  /\ UNCHANGED <<files, dev, test, disk, last, histVars>>

(* io_uring_submit fails.  (A new ring of one entry has an entry to give,  *)
(* so io_uring_get_sqe does not.)                                          *)
SubmitFail ==
  /\ call # NULL /\ call.step = "submit"
  /\ Return("error", RingDown)
  /\ UNCHANGED <<reqs, disk>>

(* io_uring_wait_cqe returns the completion.                               *)
WaitDone ==
  /\ call # NULL /\ call.step = "wait" /\ reqs[call.req].res # NULL
  /\ reqs' = [reqs EXCEPT ![call.req] = NULL]
  /\ Return(reqs[call.req].res, RingDown)
  /\ UNCHANGED <<disk>>

(* What becomes of the request of a call that stops waiting for it.        *)
Abandoned ==
  [reqs EXCEPT ![call.req] = IF @.res # NULL THEN NULL ELSE [@ EXCEPT !.orphan = TRUE]]

(* Mutant: WaitFail with the error of io_uring_wait_cqe ignored.           *)
WaitFailIgnored ==
  /\ call # NULL /\ call.step = "wait"
  /\ reqs' = Abandoned
  /\ Return("ok", RingDown)
  /\ UNCHANGED <<disk>>

(* It fails, for one by a signal: the ring is taken down and the error     *)
(* returned, whatever has become of the request.                           *)
WaitFail ==
  /\ call # NULL /\ call.step = "wait"
  /\ reqs' = Abandoned
  /\ Return("error", RingDown)
  /\ UNCHANGED <<disk>>
-----------------------------------------------------------------------------
(* test_all_devices: enumerate_devices finds the nodes in S, each of which *)
(* test_device is called for.                                              *)
TestAll(S) ==
  /\ ProgramRuns
  /\ test' = [todo |-> S, cmd |-> 0]
  /\ last' = NoLast
  /\ UNCHANGED <<files, dev, call, reqs, disk, histVars>>

(* test_device opens the device and sends the first command ...            *)
TestOpen(p) ==
  /\ call = NULL
  /\ OpenAs(Local, p)
  /\ call' = NewCall(Local, "cmd", NULL)
  /\ test' = [todo |-> test.todo \ {p}, cmd |-> 1]
  /\ UNCHANGED <<reqs, disk, last, histVars>>

(* ... or cannot open it; the others are tested all the same.              *)
TestOpenFail(p) ==
  /\ call = NULL
  /\ test' = [test EXCEPT !.todo = @ \ {p}]
  /\ UNCHANGED <<files, dev, call, reqs, disk, last, histVars>>
-----------------------------------------------------------------------------
(* What the block of r may hold once the disk has answered res: a write    *)
(* that the driver ends with an error may have reached the medium.         *)
BlockAfter(r, res) ==
  CASE r.op = "write" /\ res = "ok"    -> {r.val}
    [] r.op = "write" /\ res = "error" -> {r.val, disk[r.path]}
    [] OTHER                           -> {disk[r.path]}

(* The disk answers request q with success or failure, and a polled ring   *)
(* refuses a file that was not opened for direct I/O, which open_device    *)
(* does not ask for.                                                       *)
Serve(q) ==
  /\ reqs[q] # NULL /\ reqs[q].res = NULL
  /\ LET r == reqs[q] IN
     \E res \in {"ok", "error"} \cup (IF r.poll THEN {"opnotsupp"} ELSE {}) :
       /\ \E d \in BlockAfter(r, res) : disk' = [disk EXCEPT ![r.path] = d]
       /\ reqs' = [reqs EXCEPT ![q] = IF r.orphan THEN NULL ELSE [r EXCEPT !.res = res,
                                            !.data = IF r.op = "read" /\ res = "ok"
                                                     THEN disk[r.path] ELSE NULL]]
  /\ UNCHANGED <<files, libVars, last, histVars>>

(* A request whose ring is gone may be cancelled.                          *)
Cancel(q) ==
  /\ reqs[q] # NULL /\ reqs[q].orphan
  /\ reqs' = [reqs EXCEPT ![q] = NULL]
  /\ UNCHANGED <<files, libVars, disk, last, histVars>>

Program ==
  \/ \E o \in Objs : \/ \E p \in Paths : OpenDevice(o, p)
                     \/ CloseDevice(o)
                     \/ \E from \in Objs : MoveAssign(o, from)
                     \/ \E op \in Kinds, v \in Vals \cup {NULL} : Begin(o, op, v)
  \/ \E S \in SUBSET Paths : TestAll(S)

Library ==
  \/ Setup \/ SetupFail \/ Submit \/ WaitDone
  \/ \E p \in Lowest(test.todo) : TestOpen(p) \/ TestOpenFail(p)

Failures == SubmitFail \/ WaitFail

Kernel == \E q \in Reqs : Serve(q) \/ Cancel(q)

Next == Program \/ Library \/ Failures \/ Kernel

Spec == Init /\ [][Next]_vars

(* The thread runs on while it is in the library.  The driver answers the  *)
(* transfers and the commands it was given; it need not answer a flush,    *)
(* which its device backend loses (EveryRequestEnds of UringblkQueue).     *)
FairSpec ==
  Spec /\ WF_vars(Library \/ SubmitFail)
       /\ \A q \in Reqs : WF_vars(Serve(q) /\ reqs[q].op # "fsync")
-----------------------------------------------------------------------------
(* Through moves, reopening, failing calls and tests, every open           *)
(* descriptor has one owner that will close it: a disk's the object whose  *)
(* path names it, a ring's the call in progress.  No object closes a       *)
(* descriptor that another has or that was reused, and no path leaks one.  *)
OneOwner ==
  /\ \A f \in Fds : files[f] \in Paths =>
       \E o \in AllObjs : /\ dev[o] = [fd |-> f, path |-> files[f]]
                          /\ \A x \in AllObjs : dev[x].fd = f => x = o
  /\ \A o \in AllObjs : dev[o].fd # NULL => files[dev[o].fd] = dev[o].path
  /\ \A f \in Fds : files[f] = Ring => call # NULL /\ call.ring = f
  /\ call # NULL /\ call.ring # NULL => files[call.ring] = Ring
  /\ call = NULL => dev[Local].fd = NULL

(* What main calls the data integrity check: a read that succeeds finds    *)
(* what the last write that succeeded wrote, or what a write that failed   *)
(* under way was to write: one that the library stopped waiting for may    *)
(* land at any later time, also over the data of a write that succeeded    *)
(* after it.  Nothing else ever turns up.                                  *)
ReadsBackWrites ==
  last.op = "read" /\ last.res = "ok"
    => last.data \in {known[last.path]} \cup gaveup[last.path]

(* The library waits for the disk to answer a flush.                       *)
FlushUnanswered ==
  call # NULL /\ call.op = "fsync" /\ call.step = "wait" /\ reqs[call.req].res = NULL

(* Every call returns, and test_all_devices ends, unless the program is in *)
(* a flush_async whose fsync the disk never answers: no other call hangs.  *)
CallsReturn == <>[]~ProgramRuns => <>[]FlushUnanswered

(* "Fallback to regular ring if polling not supported": no transfer fails  *)
(* because the disk cannot be polled.                                      *)
PollFallback == last.res # "opnotsupp"

(* No read is in flight into the buffer of a call that has returned.       *)
NoLateRead == \A q \in Reqs : reqs[q] # NULL /\ reqs[q].op = "read" => ~reqs[q].orphan
=============================================================================
