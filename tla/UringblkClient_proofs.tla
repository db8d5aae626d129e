----------------------- MODULE UringblkClient_proofs ------------------------
(***************************************************************************)
(* Proofs about the uringblk library, for any number of device objects,    *)
(* nodes, descriptors and requests.                                        *)
(***************************************************************************)
EXTENDS UringblkClient, TLAPS

(* The call in progress has an open device; it has a ring and a request    *)
(* from the steps on that make them, and the request is about the call.    *)
(* Every request that is not given up belongs to the call in progress.     *)
CallInv ==
  /\ call # NULL =>
       /\ dev[call.obj].fd # NULL
       /\ call.step \in {"setup", "fallback"} => call.ring = NULL /\ call.req = NULL
       /\ call.step \in {"submit", "wait"} => call.ring # NULL
       /\ call.step = "submit" => call.req = NULL
       /\ call.step = "wait" =>
            /\ call.req # NULL /\ reqs[call.req] # NULL
            /\ ~reqs[call.req].orphan /\ reqs[call.req].op = call.op
            /\ reqs[call.req].path = dev[call.obj].path /\ reqs[call.req].val = call.val
  /\ \A q \in Reqs : reqs[q] # NULL /\ ~reqs[q].orphan =>
       call # NULL /\ call.step = "wait" /\ call.req = q

(* OneOwner, object by object, and test_device's object is open only       *)
(* while one of its commands is in progress.                               *)
FdInv ==
  /\ \A o \in AllObjs : dev[o].fd # NULL =>
       dev[o].path \in Paths /\ files[dev[o].fd] = dev[o].path
  /\ \A o, x \in AllObjs : dev[o].fd # NULL /\ dev[o].fd = dev[x].fd => o = x
  /\ \A f \in Fds : files[f] \in Paths => \E o \in AllObjs : dev[o].fd = f
  /\ \A f \in Fds : files[f] = Ring => call # NULL /\ call.ring = f
  /\ call # NULL /\ call.ring # NULL => files[call.ring] = Ring
  /\ dev[Local].fd # NULL => call # NULL /\ call.obj = Local
-----------------------------------------------------------------------------
(* Types.                                                                  *)

(* A library that has not been called has nothing open.                    *)
LEMMA TypeInit == Init => TypeOK
BY DEF Init, TypeOK, Closed, NoTest, NoLast, Commands

LEMMA LowestIn == ASSUME NEW S PROVE Lowest(S) \subseteq S
BY Zenon DEF Lowest

(* Closing a device leaves a descriptor table.                             *)
LEMMA ClosingType ==
  ASSUME TypeOK, NEW o \in AllObjs
  PROVE  FilesClosing(o) \in [Fds -> Paths \cup {Ring, NULL}]
BY Zenon DEF TypeOK, FilesClosing

(* A new call is a call.                                                   *)
LEMMA NewCallType ==
  ASSUME NEW o \in AllObjs, NEW op \in Kinds, NEW v \in Vals \cup {NULL}
  PROVE  NewCall(o, op, v) \in Calls
BY Zenon DEF NewCall, Calls

(* Opening a device.                                                       *)
LEMMA OpenAsType ==
  ASSUME TypeOK, NEW o \in AllObjs, NEW p \in Paths, OpenAs(o, p)
  PROVE  /\ files' \in [Fds -> Paths \cup {Ring, NULL}]
         /\ dev' \in [AllObjs -> [fd : Fds \cup {NULL}, path : Paths \cup {NULL}]]
<1>1. PICK f \in NextFd(FilesClosing(o)) :
             /\ files' = [FilesClosing(o) EXCEPT ![f] = p]
             /\ dev' = [dev EXCEPT ![o] = [fd |-> f, path |-> p]]
  BY Zenon DEF OpenAs
<1>2. f \in Fds
  BY Zenon, <1>1, LowestIn DEF NextFd
<1>3. QED
  BY Zenon, <1>1, <1>2, ClosingType DEF TypeOK

(* The return of a call.                                                   *)
LEMMA ReturnType ==
  ASSUME TypeOK, call # NULL, NEW r \in Results,
         NEW table \in [Fds -> Paths \cup {Ring, NULL}], Return(r, table),
         call.req # NULL => reqs[call.req] # NULL, dev[call.obj].fd # NULL
  PROVE  /\ files' \in [Fds -> Paths \cup {Ring, NULL}]
         /\ dev' \in [AllObjs -> [fd : Fds \cup {NULL}, path : Paths \cup {NULL}]]
         /\ call' \in Calls \cup {NULL}
         /\ test' \in [todo : SUBSET Paths, cmd : 0 .. Commands]
         /\ known' \in [Paths -> Vals \cup {NULL}] /\ gaveup' \in [Paths -> SUBSET (Vals \cup {NULL})]
         /\ last' \in [op : Kinds \cup {NULL}, path : Paths \cup {NULL},
                       res : Results \cup {NULL}, data : Vals \cup {NULL}]
<1>1. call \in Calls
  BY Zenon DEF TypeOK
<1>2. CASE call.obj = Local
  <2>1. test' = AfterCommand(r) /\ UNCHANGED <<last, known, gaveup>>
    BY Zenon, <1>2 DEF Return, histVars
  <2>2. test' \in [todo : SUBSET Paths, cmd : 0 .. Commands]
    BY <2>1 DEF AfterCommand, TypeOK, Commands
  <2>3. files' \in [Fds -> Paths \cup {Ring, NULL}] /\ call' \in Calls \cup {NULL}
    <3>1. NewCall(Local, "cmd", NULL) \in Calls
      BY Zenon, NewCallType DEF AllObjs, Kinds
    <3>2. QED
      BY Zenon, <1>2, <3>1 DEF Return, TypeOK
  <2>4. dev' \in [AllObjs -> [fd : Fds \cup {NULL}, path : Paths \cup {NULL}]]
    BY <1>2 DEF Return, TypeOK, Closed
  <2>5. QED
    BY Zenon, <2>1, <2>2, <2>3, <2>4 DEF TypeOK
<1>3. CASE call.obj # Local
  <2>1. /\ call' = NULL /\ files' = table /\ UNCHANGED <<dev, test>>
        /\ last' = [op |-> call.op, path |-> dev[call.obj].path, res |-> r,
                    data |-> IF call.req = NULL THEN NULL ELSE reqs[call.req].data]
        /\ known' = IF call.op = "write" /\ r = "ok"
                    THEN [known EXCEPT ![dev[call.obj].path] = call.val] ELSE known
        /\ gaveup' = IF call.op = "write" /\ call.step = "wait" /\ r = "error"
                     THEN [gaveup EXCEPT ![dev[call.obj].path] = @ \cup {call.val}] ELSE gaveup
    BY Zenon, <1>3 DEF Return
  <2>2. /\ dev[call.obj].path \in Paths \cup {NULL}
        /\ call.op \in Kinds /\ call.req \in Reqs \cup {NULL} /\ call.val \in Vals \cup {NULL}
    BY Zenon, <1>1 DEF TypeOK, Calls
  <2>3. call.req # NULL => reqs[call.req].data \in Vals \cup {NULL}
    BY Zenon, <2>2 DEF TypeOK, Requests
  <2>4. last' \in [op : Kinds \cup {NULL}, path : Paths \cup {NULL},
                   res : Results \cup {NULL}, data : Vals \cup {NULL}]
    BY Zenon, <2>1, <2>2, <2>3
  <2>5. known' \in [Paths -> Vals \cup {NULL}]
    BY Zenon, <2>1, <2>2 DEF TypeOK
  <2>6. gaveup' \in [Paths -> SUBSET (Vals \cup {NULL})]
    BY <2>1, <2>2 DEF TypeOK
  <2>7. QED
    BY Zenon, <2>1, <2>4, <2>5, <2>6 DEF TypeOK
<1>4. QED
  BY Zenon, <1>2, <1>3

(* Every step of the program keeps the types.                              *)
LEMMA ProgramTypes == ASSUME TypeOK, Program PROVE TypeOK'
<1>a. NoLast \in [op : Kinds \cup {NULL}, path : Paths \cup {NULL},
                  res : Results \cup {NULL}, data : Vals \cup {NULL}]
  BY Zenon DEF NoLast
<1>b. Objs \subseteq AllObjs
  BY Zenon DEF AllObjs
<1>1. ASSUME NEW o \in Objs, NEW p \in Paths, OpenDevice(o, p) PROVE TypeOK'
  BY Zenon, <1>a, <1>b, <1>1, OpenAsType DEF OpenDevice, TypeOK, histVars
<1>2. ASSUME NEW o \in Objs, CloseDevice(o) PROVE TypeOK'
  BY Zenon, <1>a, <1>b, <1>2, ClosingType DEF CloseDevice, TypeOK, Closed, histVars
<1>3. ASSUME NEW o \in Objs, NEW from \in Objs, MoveAssign(o, from) PROVE TypeOK'
  BY <1>a, <1>b, <1>3, ClosingType, Zenon DEF MoveAssign, Moved, TypeOK, Closed, histVars
<1>4. ASSUME NEW o \in Objs, NEW op \in Kinds, NEW v \in Vals \cup {NULL}, Begin(o, op, v)
      PROVE  TypeOK'
  <2>1. NewCall(o, op, v) \in Calls
    BY Zenon, <1>b, <1>4, NewCallType
  <2>2. QED
    BY Zenon, <1>a, <1>4, <2>1 DEF Begin, TypeOK, histVars
<1>5. ASSUME NEW S \in SUBSET Paths, TestAll(S) PROVE TypeOK'
  BY <1>a, <1>5 DEF TestAll, TypeOK, Commands, histVars
<1>6. QED
  BY Zenon, <1>1, <1>2, <1>3, <1>4, <1>5 DEF Program

(* Taking the ring down leaves a descriptor table.                         *)
LEMMA RingDownType ==
  ASSUME TypeOK PROVE RingDown \in [Fds -> Paths \cup {Ring, NULL}]
BY Zenon DEF RingDown, TypeOK

(* Giving a request up leaves requests.                                    *)
LEMMA AbandonedType ==
  ASSUME TypeOK, CallInv, call # NULL, call.step = "wait"
  PROVE  Abandoned \in [Reqs -> Requests \cup {NULL}]
<1>1. call.req \in Reqs /\ reqs[call.req] \in Requests
  BY Zenon DEF TypeOK, CallInv, Calls
<1>2. [reqs[call.req] EXCEPT !.orphan = TRUE] \in Requests
  BY <1>1, Zenon DEF Requests
<1>3. QED
  BY Zenon, <1>1, <1>2 DEF Abandoned, TypeOK

(* Every step of the library and of its failures keeps the types.          *)
LEMMA LibraryTypes == ASSUME TypeOK, CallInv, FdInv, Library \/ Failures PROVE TypeOK'
<1>a. call # NULL => /\ call \in Calls /\ dev[call.obj].fd # NULL
                     /\ call.req # NULL => reqs[call.req] # NULL
  BY Zenon DEF TypeOK, CallInv, Calls
<1>1. CASE Setup
  <2>1. PICK f \in NextFd(files) :
               /\ files' = [files EXCEPT ![f] = Ring]
               /\ call' = [call EXCEPT !.step = "submit", !.ring = f,
                             !.poll = call.step = "setup" /\ call.op \in {"read", "write"}]
    BY <1>1, Zenon DEF Setup
  <2>2. f \in Fds
    BY Zenon, <2>1, LowestIn DEF NextFd
  <2>3. call' \in Calls
    BY <1>a, <1>1, <2>1, <2>2, Zenon DEF Setup, Calls
  <2>4. QED
    BY <1>1, <2>1, <2>2, <2>3, Zenon DEF Setup, TypeOK, histVars
<1>2. CASE SetupFail
  <2>1. CASE call.step = "setup" /\ call.op \in {"read", "write"}
    <3>1. [call EXCEPT !.step = "fallback"] \in Calls
      BY Zenon, <1>a, <1>2 DEF SetupFail, Calls
    <3>2. QED
      BY Zenon, <1>2, <2>1, <3>1 DEF SetupFail, TypeOK, histVars
  <2>2. CASE ~(call.step = "setup" /\ call.op \in {"read", "write"})
    <3>1. Return("error", files) /\ call # NULL /\ UNCHANGED <<reqs, disk>>
      BY Zenon, <1>2, <2>2 DEF SetupFail
    <3>2. files \in [Fds -> Paths \cup {Ring, NULL}] /\ "error" \in Results
      BY Zenon DEF TypeOK, Results
    <3>3. QED
      BY Zenon, <1>a, <3>1, <3>2, ReturnType DEF TypeOK
  <2>3. QED
    BY Zenon, <2>1, <2>2
<1>3. CASE Submit
  <2>1. PICK q \in Lowest({x \in Reqs : reqs[x] = NULL}) :
               /\ reqs' = [reqs EXCEPT ![q] =
                     [op |-> call.op, path |-> dev[call.obj].path, val |-> call.val,
                      poll |-> call.poll, orphan |-> FALSE, res |-> NULL, data |-> NULL]]
               /\ call' = [call EXCEPT !.step = "wait", !.req = q]
    BY <1>3, Zenon DEF Submit
  <2>2. q \in Reqs
    BY Zenon, <2>1, LowestIn
  <2>3. dev[call.obj].path \in Paths
    BY Zenon, <1>a, <1>3 DEF Submit, FdInv, Calls
  <2>4. QED
    BY <1>a, <1>3, <2>1, <2>2, <2>3, Zenon DEF Submit, TypeOK, Calls, Requests, histVars
<1>4. CASE WaitDone
  <2>1. reqs[call.req].res \in Results
    BY Zenon, <1>a, <1>4 DEF WaitDone, TypeOK, Calls, Requests, CallInv
  <2>2. QED
    BY <1>a, <1>4, <2>1, RingDownType, ReturnType, Zenon DEF WaitDone, TypeOK
<1>5. ASSUME NEW p \in Lowest(test.todo), TestOpen(p) PROVE TypeOK'
  <2>1. p \in Paths /\ Local \in AllObjs
    BY Zenon, <1>5, LowestIn DEF TypeOK, AllObjs
  <2>2. NewCall(Local, "cmd", NULL) \in Calls
    BY Zenon, <2>1, NewCallType DEF Kinds
  <2>3. QED
    BY <1>5, <2>1, <2>2, OpenAsType DEF TestOpen, TypeOK, Commands, histVars
<1>6. ASSUME NEW p \in Lowest(test.todo), TestOpenFail(p) PROVE TypeOK'
  BY Zenon, <1>6 DEF TestOpenFail, TypeOK, histVars
<1>7. CASE SubmitFail
  <2>1. "error" \in Results
    BY Zenon DEF Results
  <2>2. QED
    BY Zenon, <1>a, <1>7, <2>1, RingDownType, ReturnType DEF SubmitFail, TypeOK
<1>8. CASE WaitFail
  <2>1. "error" \in Results
    BY Zenon DEF Results
  <2>2. QED
    BY Zenon, <1>a, <1>8, <2>1, RingDownType, ReturnType, AbandonedType DEF WaitFail, TypeOK
<1>9. QED
  BY Zenon, <1>1, <1>2, <1>3, <1>4, <1>5, <1>6, <1>7, <1>8 DEF Library, Failures

(* io_uring keeps the types.                                               *)
LEMMA KernelTypes == ASSUME TypeOK, Kernel PROVE TypeOK'
<1>1. ASSUME NEW q \in Reqs, Serve(q) PROVE TypeOK'
  <2> DEFINE r == reqs[q]
  <2>1. r \in Requests
    BY Zenon, <1>1 DEF Serve, TypeOK
  <2>2. PICK res \in {"ok", "error"} \cup (IF r.poll THEN {"opnotsupp"} ELSE {}) :
       /\ \E d \in BlockAfter(r, res) : disk' = [disk EXCEPT ![r.path] = d]
       /\ reqs' = [reqs EXCEPT ![q] = IF r.orphan THEN NULL ELSE [r EXCEPT !.res = res,
                                            !.data = IF r.op = "read" /\ res = "ok"
                                                     THEN disk[r.path] ELSE NULL]]
    BY <1>1, Zenon DEF Serve
  <2>3. res \in Results /\ r.path \in Paths /\ r.val \in Vals \cup {NULL}
    BY Zenon, <2>1, <2>2 DEF Results, Requests
  <2>4. disk' \in [Paths -> Vals \cup {NULL}]
    <3>1. BlockAfter(r, res) \subseteq Vals \cup {NULL}
      BY <2>3 DEF BlockAfter, TypeOK
    <3>2. QED
      BY Zenon, <2>2, <2>3, <3>1 DEF TypeOK
  <2>5. [r EXCEPT !.res = res, !.data = IF r.op = "read" /\ res = "ok"
                                        THEN disk[r.path] ELSE NULL] \in Requests
    BY <2>1, <2>3, Zenon DEF Requests, TypeOK
  <2>6. reqs' \in [Reqs -> Requests \cup {NULL}]
    BY Zenon, <2>2, <2>5 DEF TypeOK
  <2>7. QED
    BY Zenon, <1>1, <2>4, <2>6 DEF Serve, TypeOK, libVars, histVars
<1>2. ASSUME NEW q \in Reqs, Cancel(q) PROVE TypeOK'
  BY Zenon, <1>2 DEF Cancel, TypeOK, libVars, histVars
<1>3. QED
  BY Zenon, <1>1, <1>2 DEF Kernel
-----------------------------------------------------------------------------
(* The call in progress.                                                   *)

LEMMA CallInit == Init => CallInv
BY Zenon DEF Init, CallInv

(* A call that returns leaves the request it waited for, if it did, gone   *)
(* or given up.                                                            *)
LEMMA ReturnKeepsCalls ==
  ASSUME TypeOK, TypeOK', CallInv, call # NULL, NEW r, NEW table, Return(r, table),
         \A q \in Reqs : reqs'[q] # NULL /\ ~reqs'[q].orphan =>
                           reqs[q] # NULL /\ ~reqs[q].orphan /\ q # call.req
  PROVE  CallInv'
<1>1. \A q \in Reqs : ~(reqs'[q] # NULL /\ ~reqs'[q].orphan)
  BY Zenon DEF CallInv
<1>2. CASE call' = NULL
  BY Zenon, <1>1, <1>2 DEF CallInv
<1>3. CASE call' # NULL
  <2>1. call.obj = Local /\ call' = NewCall(Local, "cmd", NULL) /\ dev' = dev
    BY Zenon, <1>3 DEF Return
  <2>2. dev[Local].fd # NULL
    BY Zenon, <2>1 DEF CallInv
  <2>3. QED
    BY Zenon, <1>1, <2>1, <2>2 DEF CallInv, NewCall
<1>4. QED
  BY Zenon, <1>2, <1>3

LEMMA ProgramCalls == ASSUME TypeOK, CallInv, Program PROVE CallInv'
<1>a. Objs \subseteq AllObjs
  BY Zenon DEF AllObjs
<1>1. ASSUME call = NULL, call' = NULL, reqs' = reqs PROVE CallInv'
  BY Zenon, <1>1 DEF CallInv
<1>2. ASSUME NEW o \in Objs, NEW op \in Kinds, NEW v \in Vals \cup {NULL}, Begin(o, op, v)
      PROVE  CallInv'
  BY Zenon, <1>2 DEF Begin, ProgramRuns, CallInv, NewCall
<1>3. QED
  BY Zenon, <1>1, <1>2 DEF Program, OpenDevice, CloseDevice, MoveAssign, TestAll, ProgramRuns

LEMMA LibraryCalls ==
  ASSUME TypeOK, TypeOK', CallInv, FdInv, Library \/ Failures PROVE CallInv'
<1>a. call # NULL => call \in Calls
  BY Zenon DEF TypeOK
<1>1. CASE Setup
  <2>1. PICK f \in NextFd(files) :
               call' = [call EXCEPT !.step = "submit", !.ring = f,
                          !.poll = call.step = "setup" /\ call.op \in {"read", "write"}]
    BY <1>1, Zenon DEF Setup
  <2>2. f \in Fds /\ f # NULL
    BY Zenon, <2>1, LowestIn, NullAssumption DEF NextFd
  <2>3. call'.step = "submit" /\ call'.ring = f /\ call'.obj = call.obj /\ call'.req = call.req
    BY <1>a, <1>1, <2>1, Zenon DEF Setup, Calls
  <2>4. call.req = NULL /\ dev' = dev /\ reqs' = reqs /\ dev[call.obj].fd # NULL
        /\ call # NULL /\ call.step # "wait"
    BY Zenon, <1>1 DEF Setup, CallInv
  <2>5. QED
    BY Zenon, <2>2, <2>3, <2>4 DEF CallInv
<1>2. CASE SetupFail
  <2>1. CASE call.step = "setup" /\ call.op \in {"read", "write"}
    <3>1. /\ call' = [call EXCEPT !.step = "fallback"] /\ call # NULL
          /\ dev' = dev /\ reqs' = reqs
      BY Zenon, <1>2, <2>1 DEF SetupFail
    <3>2. /\ call'.step = "fallback" /\ call'.ring = call.ring /\ call'.obj = call.obj
          /\ call'.req = call.req
      BY Zenon, <1>a, <3>1 DEF Calls
    <3>3. QED
      BY Zenon, <2>1, <3>1, <3>2 DEF CallInv
  <2>2. CASE ~(call.step = "setup" /\ call.op \in {"read", "write"})
    <3>1. /\ Return("error", files) /\ call # NULL /\ reqs' = reqs
          /\ call.step \in {"setup", "fallback"}
      BY Zenon, <1>2, <2>2 DEF SetupFail
    <3>2. \A q \in Reqs : reqs'[q] # NULL /\ ~reqs'[q].orphan =>
                             reqs[q] # NULL /\ ~reqs[q].orphan /\ q # call.req
      BY Zenon, <3>1 DEF CallInv
    <3>3. QED
      BY Zenon, <3>1, <3>2, ReturnKeepsCalls
  <2>3. QED
    BY Zenon, <2>1, <2>2
<1>3. CASE Submit
  <2>1. PICK q \in Lowest({x \in Reqs : reqs[x] = NULL}) :
               /\ reqs' = [reqs EXCEPT ![q] =
                     [op |-> call.op, path |-> dev[call.obj].path, val |-> call.val,
                      poll |-> call.poll, orphan |-> FALSE, res |-> NULL, data |-> NULL]]
               /\ call' = [call EXCEPT !.step = "wait", !.req = q]
    BY <1>3, Zenon DEF Submit
  <2>2. q \in Reqs /\ q # NULL
    BY Zenon, <2>1, LowestIn, NullAssumption
  <2>3. /\ call'.step = "wait" /\ call'.ring = call.ring /\ call'.obj = call.obj
        /\ call'.req = q /\ call'.op = call.op /\ call'.val = call.val
    BY <1>a, <1>3, <2>1, Zenon DEF Submit, Calls
  <2>4. /\ reqs'[q] = [op |-> call.op, path |-> dev[call.obj].path, val |-> call.val,
                       poll |-> call.poll, orphan |-> FALSE, res |-> NULL, data |-> NULL]
        /\ \A x \in Reqs : x # q => reqs'[x] = reqs[x]
    BY Zenon, <2>1, <2>2 DEF TypeOK
  <2>5. reqs'[q] # NULL
    <3>1. dev[call.obj].path \in Paths
      BY Zenon, <1>a, <1>3 DEF Submit, FdInv, CallInv, Calls
    <3>2. call.op \in Kinds /\ call.val \in Vals \cup {NULL} /\ call.poll \in BOOLEAN
      BY Zenon, <1>a, <1>3 DEF Submit, Calls
    <3>3. [op |-> call.op, path |-> dev[call.obj].path, val |-> call.val, poll |-> call.poll,
           orphan |-> FALSE, res |-> NULL, data |-> NULL] \in Requests
      BY Zenon, <3>1, <3>2 DEF Requests
    <3>4. QED
      BY <2>4, <3>3, NullAssumption, Zenon
  <2>6. /\ call # NULL /\ dev' = dev /\ dev[call.obj].fd # NULL /\ call.ring # NULL
        /\ call.step # "wait"
    BY Zenon, <1>3 DEF Submit, CallInv
  <2>7. \A x \in Reqs : reqs'[x] # NULL /\ ~reqs'[x].orphan => x = q
    BY Zenon, <2>4, <2>6 DEF CallInv
  <2>8. call' # NULL
    <3>1. call' \in Calls
      BY <1>a, <2>1, <2>2, <2>6, Zenon DEF Calls
    <3>2. QED
      BY Zenon, <3>1, NullAssumption
  <2>9. QED
    BY <2>2, <2>3, <2>4, <2>5, <2>6, <2>7, <2>8 DEF CallInv
<1>4. CASE WaitDone
  <2>1. /\ call # NULL /\ Return(reqs[call.req].res, RingDown)
        /\ reqs' = [reqs EXCEPT ![call.req] = NULL] /\ call.req \in Reqs
    BY Zenon, <1>a, <1>4 DEF WaitDone, CallInv, Calls
  <2>2. \A q \in Reqs : reqs'[q] # NULL /\ ~reqs'[q].orphan =>
                           reqs[q] # NULL /\ ~reqs[q].orphan /\ q # call.req
    BY Zenon, <2>1 DEF TypeOK
  <2>3. QED
    BY Zenon, <2>1, <2>2, ReturnKeepsCalls
<1>5. ASSUME NEW p \in Lowest(test.todo), TestOpen(p) PROVE CallInv'
  <2>1. /\ call = NULL /\ call' = NewCall(Local, "cmd", NULL) /\ reqs' = reqs
        /\ OpenAs(Local, p)
    BY Zenon, <1>5 DEF TestOpen
  <2>2. PICK f \in NextFd(FilesClosing(Local)) :
               dev' = [dev EXCEPT ![Local] = [fd |-> f, path |-> p]]
    BY <2>1, Zenon DEF OpenAs
  <2>3. dev'[Local].fd # NULL
    BY <2>2, LowestIn, NullAssumption DEF NextFd, TypeOK, AllObjs
  <2>4. QED
    BY Zenon, <2>1, <2>3 DEF CallInv, NewCall
<1>6. ASSUME NEW p \in Lowest(test.todo), TestOpenFail(p) PROVE CallInv'
  BY Zenon, <1>6 DEF TestOpenFail, CallInv
<1>7. CASE SubmitFail
  <2>1. call # NULL /\ Return("error", RingDown) /\ reqs' = reqs /\ call.step = "submit"
    BY Zenon, <1>7 DEF SubmitFail
  <2>2. \A q \in Reqs : reqs'[q] # NULL /\ ~reqs'[q].orphan =>
                           reqs[q] # NULL /\ ~reqs[q].orphan /\ q # call.req
    BY Zenon, <2>1 DEF CallInv
  <2>3. QED
    BY Zenon, <2>1, <2>2, ReturnKeepsCalls
<1>8. CASE WaitFail
  <2>1. /\ call # NULL /\ Return("error", RingDown) /\ reqs' = Abandoned
        /\ call.req \in Reqs /\ reqs[call.req] \in Requests
    BY Zenon, <1>a, <1>8 DEF WaitFail, CallInv, Calls, TypeOK
  <2>2. /\ \A q \in Reqs : q # call.req => reqs'[q] = reqs[q]
        /\ reqs'[call.req] = NULL \/ reqs'[call.req].orphan
    BY Zenon, <2>1 DEF Abandoned, TypeOK, Requests
  <2>3. \A q \in Reqs : reqs'[q] # NULL /\ ~reqs'[q].orphan =>
                           reqs[q] # NULL /\ ~reqs[q].orphan /\ q # call.req
    BY Zenon, <2>2
  <2>4. QED
    BY Zenon, <2>1, <2>3, ReturnKeepsCalls
<1>9. QED
  BY Zenon, <1>1, <1>2, <1>3, <1>4, <1>5, <1>6, <1>7, <1>8 DEF Library, Failures

(* What Serve makes of a request that is not given up.                     *)
LEMMA Served ==
  ASSUME TypeOK, NEW q \in Reqs, Serve(q)
  PROVE  /\ \A x \in Reqs : x # q => reqs'[x] = reqs[x]
         /\ reqs[q].orphan => reqs'[q] = NULL
         /\ ~reqs[q].orphan =>
              /\ reqs'[q] \in Requests /\ ~reqs'[q].orphan /\ reqs'[q].op = reqs[q].op
              /\ reqs'[q].path = reqs[q].path /\ reqs'[q].val = reqs[q].val
<1> DEFINE r == reqs[q]
<1>1. r \in Requests
  BY Zenon DEF Serve, TypeOK
<1>2. PICK res \in {"ok", "error"} \cup (IF r.poll THEN {"opnotsupp"} ELSE {}) :
         reqs' = [reqs EXCEPT ![q] = IF r.orphan THEN NULL ELSE [r EXCEPT !.res = res,
                                          !.data = IF r.op = "read" /\ res = "ok"
                                                   THEN disk[r.path] ELSE NULL]]
  BY Zenon DEF Serve
<1>3. /\ \A x \in Reqs : x # q => reqs'[x] = reqs[x]
      /\ reqs'[q] = IF r.orphan THEN NULL ELSE [r EXCEPT !.res = res,
                                          !.data = IF r.op = "read" /\ res = "ok"
                                                   THEN disk[r.path] ELSE NULL]
  BY Zenon, <1>2 DEF TypeOK
<1>4. res \in Results /\ disk[r.path] \in Vals \cup {NULL}
  BY Zenon, <1>1, <1>2 DEF Results, Requests, TypeOK
<1>5. CASE r.orphan
  BY Zenon, <1>3, <1>5
<1>6. CASE ~r.orphan
  <2>1. reqs'[q] = [r EXCEPT !.res = res, !.data = IF r.op = "read" /\ res = "ok"
                                                   THEN disk[r.path] ELSE NULL]
    BY Zenon, <1>3, <1>6
  <2>2. /\ reqs'[q] \in Requests /\ reqs'[q].orphan = r.orphan /\ reqs'[q].op = r.op
        /\ reqs'[q].path = r.path /\ reqs'[q].val = r.val
    BY <1>1, <1>4, <2>1, Zenon DEF Requests
  <2>3. QED
    BY Zenon, <1>3, <1>6, <2>2
<1>7. QED
  BY Zenon, <1>5, <1>6

LEMMA KernelCalls == ASSUME TypeOK, CallInv, Kernel PROVE CallInv'
<1>1. ASSUME NEW q \in Reqs, Serve(q) PROVE CallInv'
  <2>1. reqs[q] # NULL /\ call' = call /\ dev' = dev
    BY Zenon, <1>1 DEF Serve, libVars
  <2>2. call # NULL => call.req \in Reqs \cup {NULL}
    BY Zenon DEF TypeOK, Calls
  <2>3. CASE reqs[q].orphan
    BY <1>1, <2>1, <2>2, <2>3, Served DEF CallInv
  <2>4. CASE ~reqs[q].orphan
    <3>1. reqs'[q] # NULL
      BY Zenon, <1>1, <2>4, Served, NullAssumption
    <3>2. QED
      BY Zenon, <1>1, <2>1, <2>2, <2>4, <3>1, Served DEF CallInv
  <2>5. QED
    BY Zenon, <2>3, <2>4
<1>2. ASSUME NEW q \in Reqs, Cancel(q) PROVE CallInv'
  <2>1. /\ reqs[q].orphan /\ call' = call /\ dev' = dev
        /\ reqs' = [reqs EXCEPT ![q] = NULL]
    BY Zenon, <1>2 DEF Cancel, libVars
  <2>2. call # NULL => call.req \in Reqs \cup {NULL}
    BY Zenon DEF TypeOK, Calls
  <2>3. reqs'[q] = NULL /\ \A x \in Reqs : x # q => reqs'[x] = reqs[x]
    BY Zenon, <2>1 DEF TypeOK
  <2>4. QED
    BY Zenon, <2>1, <2>2, <2>3 DEF CallInv
<1>3. QED
  BY Zenon, <1>1, <1>2 DEF Kernel
-----------------------------------------------------------------------------
(* Descriptors.                                                            *)

LEMMA FdInit == Init => FdInv
BY NullAssumption DEF Init, FdInv, Closed, AllObjs

(* close_device of an object frees its descriptor and no other.            *)
LEMMA Closing ==
  ASSUME TypeOK, FdInv, NEW o \in AllObjs
  PROVE  \A f \in Fds : FilesClosing(o)[f] = IF f = dev[o].fd THEN NULL ELSE files[f]
BY NullAssumption DEF FilesClosing, TypeOK

(* open_device gives the object a descriptor nobody has.                   *)
LEMMA OpenAsFds ==
  ASSUME TypeOK, FdInv, NEW o \in AllObjs, NEW p \in Paths, OpenAs(o, p), call = NULL,
         o = Local => call' # NULL /\ call'.obj = Local /\ call'.ring = NULL,
         o # Local => call' = NULL
  PROVE  FdInv'
<1>1. PICK f \in NextFd(FilesClosing(o)) :
             /\ files' = [FilesClosing(o) EXCEPT ![f] = p]
             /\ dev' = [dev EXCEPT ![o] = [fd |-> f, path |-> p]]
  BY Zenon DEF OpenAs
<1>2. f \in Fds /\ FilesClosing(o)[f] = NULL /\ f # NULL
  BY Zenon, <1>1, LowestIn, NullAssumption DEF NextFd
<1>3. /\ dev'[o] = [fd |-> f, path |-> p]
      /\ \A x \in AllObjs : x # o => dev'[x] = dev[x]
  BY Zenon, <1>1 DEF TypeOK
<1>4. \A g \in Fds : files'[g] = IF g = f THEN p ELSE IF g = dev[o].fd THEN NULL ELSE files[g]
  BY Zenon, <1>1, Closing, ClosingType
<1>5. ASSUME NEW x \in AllObjs, x # o, dev[x].fd # NULL
      PROVE  dev[x].fd \in Fds /\ dev[x].fd # f /\ dev[x].fd # dev[o].fd
  <2>1. dev[x].fd \in Fds /\ dev[x].fd # dev[o].fd
    BY Zenon, <1>5 DEF FdInv, TypeOK
  <2>2. files[dev[x].fd] \in Paths
    BY Zenon, <1>5 DEF FdInv
  <2>3. FilesClosing(o)[dev[x].fd] = files[dev[x].fd]
    BY Zenon, <2>1, Closing
  <2>4. QED
    BY Zenon, <1>2, <2>1, <2>2, <2>3, NullAssumption
<1>6. \A g \in Fds : files[g] # Ring
  BY Zenon DEF FdInv
<1>7. \A x \in AllObjs : dev'[x].fd # NULL =>
        dev'[x].path \in Paths /\ files'[dev'[x].fd] = dev'[x].path
  BY <1>2, <1>3, <1>4, <1>5 DEF FdInv
<1>8. \A x, y \in AllObjs : dev'[x].fd # NULL /\ dev'[x].fd = dev'[y].fd => x = y
  BY <1>2, <1>3, <1>5 DEF FdInv
<1>9. \A g \in Fds : files'[g] \in Paths => \E x \in AllObjs : dev'[x].fd = g
  BY <1>2, <1>3, <1>4, NullAssumption DEF FdInv
<1>10. \A g \in Fds : files'[g] # Ring
  BY Zenon, <1>4, <1>6, NullAssumption
<1>11. dev'[Local].fd # NULL => call' # NULL /\ call'.obj = Local
  BY Zenon, <1>3 DEF FdInv, AllObjs
<1>12. call' # NULL => call'.ring = NULL
  BY Zenon
<1>13. QED
  BY Zenon, <1>7, <1>8, <1>9, <1>10, <1>11, <1>12 DEF FdInv

LEMMA ProgramFds == ASSUME TypeOK, FdInv, Program PROVE FdInv'
<1>a. Objs \subseteq AllObjs /\ Local \notin Objs /\ Local \in AllObjs
  BY Zenon, ObjsAssumption DEF AllObjs
<1>1. ASSUME NEW o \in Objs, NEW p \in Paths, OpenDevice(o, p) PROVE FdInv'
  BY Zenon, <1>a, <1>1, OpenAsFds DEF OpenDevice, ProgramRuns
<1>2. ASSUME NEW o \in Objs, CloseDevice(o) PROVE FdInv'
  <2>1. /\ dev'[o] = Closed /\ \A x \in AllObjs : x # o => dev'[x] = dev[x]
        /\ call = NULL /\ call' = NULL
    BY Zenon, <1>a, <1>2 DEF CloseDevice, ProgramRuns, TypeOK
  <2>2. \A f \in Fds : files'[f] = IF f = dev[o].fd THEN NULL ELSE files[f]
    BY Zenon, <1>a, <1>2, Closing DEF CloseDevice
  <2>3. \A x \in AllObjs : dev[x].fd \in Fds \cup {NULL}
    BY Zenon DEF TypeOK
  <2>4. \A f \in Fds : files'[f] # Ring
    BY Zenon, <2>1, <2>2, NullAssumption DEF FdInv
  <2>5. \A x \in AllObjs : dev'[x].fd # NULL =>
          dev'[x].path \in Paths /\ files'[dev'[x].fd] = dev'[x].path
    BY <1>a, <2>1, <2>2, <2>3 DEF FdInv, Closed
  <2>6. \A x, y \in AllObjs : dev'[x].fd # NULL /\ dev'[x].fd = dev'[y].fd => x = y
    BY <2>1 DEF FdInv, Closed
  <2>7. \A f \in Fds : files'[f] \in Paths => \E x \in AllObjs : dev'[x].fd = f
    BY <2>1, <2>2, NullAssumption DEF FdInv
  <2>8. QED
    BY Zenon, <1>a, <2>1, <2>4, <2>5, <2>6, <2>7 DEF FdInv
<1>3. ASSUME NEW o \in Objs, NEW from \in Objs, MoveAssign(o, from) PROVE FdInv'
  <2>1. /\ dev'[o] = dev[from] /\ dev'[from] = Closed
        /\ \A x \in AllObjs : x # o /\ x # from => dev'[x] = dev[x]
        /\ call = NULL /\ call' = NULL /\ o # from
    BY Zenon, <1>a, <1>3 DEF MoveAssign, Moved, ProgramRuns, TypeOK
  <2>2. \A f \in Fds : files'[f] = IF f = dev[o].fd THEN NULL ELSE files[f]
    BY Zenon, <1>a, <1>3, Closing DEF MoveAssign
  <2>3. \A x \in AllObjs : dev[x].fd \in Fds \cup {NULL}
    BY Zenon DEF TypeOK
  <2>4. \A f \in Fds : files'[f] # Ring
    BY Zenon, <2>1, <2>2, NullAssumption DEF FdInv
  <2>5. ASSUME NEW x \in AllObjs, x # o, dev[x].fd # NULL
        PROVE  /\ dev[x].fd # dev[o].fd /\ dev[x].path \in Paths
               /\ files'[dev[x].fd] = dev[x].path
    BY <1>a, <2>2, <2>3, <2>5 DEF FdInv
  <2>6. \A x \in AllObjs : dev'[x].fd # NULL =>
          dev'[x].path \in Paths /\ files'[dev'[x].fd] = dev'[x].path
    BY <1>a, <2>1, <2>5 DEF Closed
  <2>7. \A x, y \in AllObjs : dev'[x].fd # NULL /\ dev'[x].fd = dev'[y].fd => x = y
    BY <1>a, <2>1 DEF FdInv, Closed
  <2>8. \A f \in Fds : files'[f] \in Paths => \E x \in AllObjs : dev'[x].fd = f
    <3> SUFFICES ASSUME NEW f \in Fds, files'[f] \in Paths
                 PROVE  \E x \in AllObjs : dev'[x].fd = f
      BY Zenon
    <3>1. files[f] \in Paths /\ f # dev[o].fd
      BY Zenon, <2>2, NullAssumption
    <3>2. PICK x \in AllObjs : dev[x].fd = f
      BY Zenon, <3>1 DEF FdInv
    <3>3. QED
      BY Zenon, <1>a, <2>1, <3>1, <3>2
  <2>9. QED
    BY Zenon, <1>a, <2>1, <2>4, <2>6, <2>7, <2>8 DEF FdInv
<1>4. ASSUME NEW o \in Objs, NEW op \in Kinds, NEW v \in Vals \cup {NULL}, Begin(o, op, v)
      PROVE  FdInv'
  BY Zenon, <1>4 DEF Begin, ProgramRuns, FdInv, NewCall
<1>5. ASSUME NEW S \in SUBSET Paths, TestAll(S) PROVE FdInv'
  BY Zenon, <1>5 DEF TestAll, FdInv
<1>6. QED
  BY Zenon, <1>1, <1>2, <1>3, <1>4, <1>5 DEF Program

(* A call that returns leaves a descriptor table without rings.            *)
LEMMA ReturnFds ==
  ASSUME TypeOK, CallInv, FdInv, call # NULL, NEW r \in Results,
         NEW table \in [Fds -> Paths \cup {Ring, NULL}], Return(r, table),
         \A f \in Fds : table[f] = IF files[f] = Ring THEN NULL ELSE files[f]
  PROVE  FdInv'
<1>a. call.obj \in AllObjs /\ Local \in AllObjs /\ dev[call.obj].fd # NULL
  BY Zenon DEF TypeOK, Calls, CallInv, AllObjs
<1>b. \A x \in AllObjs : dev[x].fd \in Fds \cup {NULL}
  BY Zenon DEF TypeOK
<1>c. \A f \in Fds : table[f] # Ring
  BY Zenon, NullAssumption
<1>d. \A x \in AllObjs : dev[x].fd # NULL =>
        dev[x].path \in Paths /\ table[dev[x].fd] = dev[x].path
  BY <1>b, NullAssumption DEF FdInv
<1>e. \A f \in Fds : table[f] \in Paths => \E x \in AllObjs : dev[x].fd = f
  BY Zenon, NullAssumption DEF FdInv
<1>1. CASE call.obj = Local /\ test'.cmd = 0
  <2>1. /\ call' = NULL
        /\ dev'[Local] = Closed /\ \A x \in AllObjs : x # Local => dev'[x] = dev[x]
    BY Zenon, <1>1, <1>a DEF Return, TypeOK
  <2>2. \A f \in Fds : files'[f] = IF f = dev[Local].fd THEN NULL ELSE table[f]
    BY Zenon, <1>1 DEF Return
  <2>3. \A x \in AllObjs : dev'[x].fd # NULL =>
          dev'[x].path \in Paths /\ files'[dev'[x].fd] = dev'[x].path
    <3> SUFFICES ASSUME NEW x \in AllObjs, dev'[x].fd # NULL
                 PROVE  dev'[x].path \in Paths /\ files'[dev'[x].fd] = dev'[x].path
      BY Zenon
    <3>1. x # Local /\ dev'[x] = dev[x]
      BY <2>1 DEF Closed
    <3>2. dev[x].fd \in Fds /\ dev[x].fd # dev[Local].fd
      BY Zenon, <1>a, <1>b, <3>1 DEF FdInv
    <3>3. QED
      BY <1>d, <2>2, <3>1, <3>2
  <2>4. \A x, y \in AllObjs : dev'[x].fd # NULL /\ dev'[x].fd = dev'[y].fd => x = y
    <3>1. dev'[Local].fd = NULL
      BY <2>1 DEF Closed
    <3>2. QED
      BY <2>1, <3>1 DEF FdInv
  <2>5. \A f \in Fds : files'[f] \in Paths => \E x \in AllObjs : dev'[x].fd = f
    BY Zenon, <1>e, <2>1, <2>2, NullAssumption
  <2>6. \A f \in Fds : files'[f] # Ring
    BY Zenon, <1>c, <2>2, NullAssumption
  <2>7. QED
    <3>1. dev'[Local].fd = NULL
      BY <2>1 DEF Closed
    <3>2. QED
      BY Zenon, <2>1, <2>3, <2>4, <2>5, <2>6, <3>1 DEF FdInv
<1>2. CASE call.obj = Local /\ test'.cmd # 0
  <2>1. call' = NewCall(Local, "cmd", NULL) /\ files' = table /\ dev' = dev
    BY Zenon, <1>2 DEF Return
  <2>2. call' # NULL /\ call'.obj = Local /\ call'.ring = NULL
    <3>1. call' \in Calls
      BY Zenon, <1>a, <2>1, NewCallType DEF Kinds
    <3>2. QED
      BY <2>1, <3>1, NullAssumption, ZenonT(30) DEF NewCall
  <2>3. QED
    BY Zenon, <1>c, <1>d, <1>e, <2>1, <2>2 DEF FdInv
<1>3. CASE call.obj # Local
  <2>1. call' = NULL /\ files' = table /\ dev' = dev
    BY Zenon, <1>3 DEF Return
  <2>2. QED
    BY Zenon, <1>3, <1>c, <1>d, <1>e, <2>1 DEF FdInv
<1>4. QED
  BY Zenon, <1>1, <1>2, <1>3

LEMMA LibraryFds ==
  ASSUME TypeOK, TypeOK', CallInv, FdInv, Library \/ Failures PROVE FdInv'
<1>a. call # NULL => call \in Calls
  BY Zenon DEF TypeOK
<1>b. ASSUME call # NULL, call.ring # NULL
      PROVE  /\ RingDown \in [Fds -> Paths \cup {Ring, NULL}]
             /\ \A f \in Fds : RingDown[f] = IF files[f] = Ring THEN NULL ELSE files[f]
  BY Zenon, <1>a, <1>b, RingDownType DEF RingDown, FdInv, TypeOK, Calls
<1>c. ASSUME call # NULL, call.ring = NULL
      PROVE  /\ files \in [Fds -> Paths \cup {Ring, NULL}]
             /\ \A f \in Fds : files[f] = IF files[f] = Ring THEN NULL ELSE files[f]
  <2>1. \A f \in Fds : files[f] # Ring
    BY Zenon, <1>c, NullAssumption DEF FdInv
  <2>2. QED
    BY Zenon, <2>1 DEF TypeOK
<1>1. CASE Setup
  <2>1. PICK f \in NextFd(files) :
             /\ files' = [files EXCEPT ![f] = Ring]
             /\ call' = [call EXCEPT !.step = "submit", !.ring = f,
                           !.poll = call.step = "setup" /\ call.op \in {"read", "write"}]
    BY <1>1, Zenon DEF Setup
  <2>2. f \in Fds /\ files[f] = NULL /\ f # NULL
    BY Zenon, <2>1, LowestIn, NullAssumption DEF NextFd
  <2>3. /\ call # NULL /\ call \in Calls /\ call.ring = NULL /\ dev' = dev
    BY Zenon, <1>a, <1>1 DEF Setup, CallInv
  <2>4. call'.ring = f /\ call'.obj = call.obj /\ call' # NULL
    <3>1. call'.ring = f /\ call'.obj = call.obj
      BY Zenon, <2>1, <2>3 DEF Calls
    <3>2. call' \in Calls
      BY <2>1, <2>2, <2>3, Zenon DEF Calls
    <3>3. QED
      BY Zenon, <3>1, <3>2, NullAssumption
  <2>5. files'[f] = Ring /\ \A g \in Fds : g # f => files'[g] = files[g]
    BY Zenon, <2>1, <2>2 DEF TypeOK
  <2>6. \A g \in Fds : files[g] # Ring
    BY Zenon, <2>3, NullAssumption DEF FdInv
  <2>7. \A x \in AllObjs : dev[x].fd # NULL => dev[x].fd \in Fds /\ dev[x].fd # f
    BY <2>2, NullAssumption DEF FdInv, TypeOK
  <2>8. QED
    BY <2>2, <2>3, <2>4, <2>5, <2>6, <2>7, NullAssumption DEF FdInv
<1>2. CASE SetupFail
  <2>1. CASE call.step = "setup" /\ call.op \in {"read", "write"}
    <3>1. /\ call # NULL /\ call' = [call EXCEPT !.step = "fallback"]
          /\ files' = files /\ dev' = dev /\ call.ring = NULL
      BY Zenon, <1>2, <2>1 DEF SetupFail, CallInv
    <3>2. call'.obj = call.obj /\ call'.ring = NULL /\ call' \in Calls
      BY Zenon, <1>a, <3>1 DEF Calls
    <3>3. call' # NULL
      BY Zenon, <3>2, NullAssumption
    <3>4. QED
      BY Zenon, <3>1, <3>2, <3>3, NullAssumption DEF FdInv
  <2>2. CASE ~(call.step = "setup" /\ call.op \in {"read", "write"})
    <3>1. Return("error", files) /\ call # NULL /\ call.ring = NULL
      BY Zenon, <1>2, <2>2 DEF SetupFail, CallInv
    <3>2. "error" \in Results
      BY Zenon DEF Results
    <3>3. QED
      BY Zenon, <1>c, <3>1, <3>2, ReturnFds
  <2>3. QED
    BY Zenon, <2>1, <2>2
<1>3. CASE Submit
  <2>1. PICK q \in Lowest({x \in Reqs : reqs[x] = NULL}) :
             call' = [call EXCEPT !.step = "wait", !.req = q]
    BY <1>3, Zenon DEF Submit
  <2>2. q \in Reqs
    BY Zenon, <2>1, LowestIn
  <2>3. call # NULL /\ call \in Calls /\ files' = files /\ dev' = dev
    BY Zenon, <1>a, <1>3 DEF Submit
  <2>4. call'.obj = call.obj /\ call'.ring = call.ring /\ call' \in Calls
    BY <2>1, <2>2, <2>3, Zenon DEF Calls
  <2>5. call' # NULL
    BY Zenon, <2>4, NullAssumption
  <2>6. QED
    BY Zenon, <2>3, <2>4, <2>5 DEF FdInv
<1>4. CASE WaitDone
  <2>1. /\ call # NULL /\ call.ring # NULL /\ reqs[call.req].res \in Results
        /\ Return(reqs[call.req].res, RingDown)
    BY Zenon, <1>a, <1>4 DEF WaitDone, CallInv, TypeOK, Calls, Requests
  <2>2. QED
    BY Zenon, <1>b, <2>1, ReturnFds
<1>5. ASSUME NEW p \in Lowest(test.todo), TestOpen(p) PROVE FdInv'
  <2>1. p \in Paths /\ Local \in AllObjs
    BY Zenon, LowestIn DEF TypeOK, AllObjs
  <2>2. call' \in Calls /\ call'.obj = Local /\ call'.ring = NULL
    BY Zenon, <1>5, <2>1, NewCallType DEF TestOpen, NewCall, Kinds
  <2>3. call' # NULL
    BY Zenon, <2>2, NullAssumption
  <2>4. QED
    BY Zenon, <1>5, <2>1, <2>2, <2>3, OpenAsFds DEF TestOpen
<1>6. ASSUME NEW p \in Lowest(test.todo), TestOpenFail(p) PROVE FdInv'
  BY Zenon, <1>6 DEF TestOpenFail, FdInv
<1>7. CASE SubmitFail
  <2>1. call # NULL /\ call.ring # NULL /\ Return("error", RingDown)
    BY Zenon, <1>7 DEF SubmitFail, CallInv
  <2>2. "error" \in Results
    BY Zenon DEF Results
  <2>3. QED
    BY Zenon, <1>b, <2>1, <2>2, ReturnFds
<1>8. CASE WaitFail
  <2>1. call # NULL /\ call.ring # NULL /\ Return("error", RingDown)
    BY Zenon, <1>8 DEF WaitFail, CallInv
  <2>2. "error" \in Results
    BY Zenon DEF Results
  <2>3. QED
    BY Zenon, <1>b, <2>1, <2>2, ReturnFds
<1>9. QED
  BY Zenon, <1>1, <1>2, <1>3, <1>4, <1>5, <1>6, <1>7, <1>8 DEF Library, Failures
-----------------------------------------------------------------------------
IInv == TypeOK /\ CallInv /\ FdInv

(* The invariant is inductive.                                             *)
THEOREM Inductive == Spec => []IInv
<1>1. Init => IInv
  BY Zenon, TypeInit, CallInit, FdInit DEF IInv
<1>2. IInv /\ [Next]_vars => IInv'
  <2> SUFFICES ASSUME IInv, [Next]_vars PROVE IInv'
    BY Zenon
  <2> USE DEF IInv
  <2>1. CASE Program
    BY Zenon, <2>1, ProgramTypes, ProgramCalls, ProgramFds
  <2>2. CASE Library \/ Failures
    BY Zenon, <2>2, LibraryTypes, LibraryCalls, LibraryFds
  <2>3. CASE Kernel
    <3>1. TypeOK' /\ CallInv'
      BY Zenon, <2>3, KernelTypes, KernelCalls
    <3>2. files' = files /\ dev' = dev /\ call' = call
      BY <2>3, ZenonT(30) DEF Kernel, Serve, Cancel, libVars
    <3>3. QED
      BY Zenon, <3>1, <3>2 DEF FdInv
  <2>4. CASE UNCHANGED vars
    BY <2>4, ZenonT(30) DEF vars, libVars, histVars, TypeOK, CallInv, FdInv
  <2>5. QED
    BY Zenon, <2>1, <2>2, <2>3, <2>4 DEF Next
<1>3. QED
  BY <1>1, <1>2, PTL DEF Spec

(* Every variable keeps its type.                                          *)
THEOREM TypeCorrect == Spec => []TypeOK
<1>1. IInv => TypeOK
  BY Zenon DEF IInv
<1>2. QED
  BY <1>1, Inductive, PTL

(* Every descriptor that is open has exactly one owner that will close it, *)
(* whatever is moved, reopened, tested, interrupted or fails.              *)
THEOREM Owned == Spec => []OneOwner
<1>1. IInv => OneOwner
  <2> SUFFICES ASSUME IInv PROVE OneOwner
    BY Zenon
  <2>1. \A f \in Fds : files[f] \in Paths =>
          \E o \in AllObjs : /\ dev[o] = [fd |-> f, path |-> files[f]]
                             /\ \A x \in AllObjs : dev[x].fd = f => x = o
    <3> SUFFICES ASSUME NEW f \in Fds, files[f] \in Paths
                 PROVE  \E o \in AllObjs : /\ dev[o] = [fd |-> f, path |-> files[f]]
                                           /\ \A x \in AllObjs : dev[x].fd = f => x = o
      BY Zenon
    <3>1. PICK o \in AllObjs : dev[o].fd = f
      BY Zenon DEF IInv, FdInv
    <3>2. dev[o].path = files[f] /\ f # NULL
      BY Zenon, <3>1, NullAssumption DEF IInv, FdInv
    <3>3. dev[o] = [fd |-> f, path |-> files[f]]
      BY Zenon, <3>1, <3>2 DEF IInv, TypeOK
    <3>4. \A x \in AllObjs : dev[x].fd = f => x = o
      BY Zenon, <3>1, <3>2 DEF IInv, FdInv
    <3>5. QED
      BY Zenon, <3>3, <3>4
  <2>2. QED
    BY <2>1, Zenon DEF IInv, FdInv, OneOwner
<1>2. QED
  BY <1>1, Inductive, PTL
-----------------------------------------------------------------------------
(* What the program wrote and reads back.                                  *)

(* The call in progress waits for a request that has succeeded, or that    *)
(* the disk has worked on.                                                 *)
Succeeded == call.step = "wait" /\ reqs[call.req].res = "ok"
Landed == call.step = "wait" /\ reqs[call.req].res \in {"ok", "error"}

(* What the block of p may hold when no write is in progress.              *)
May(p) == {known[p]} \cup gaveup[p]

(* What a write that was given up may still put on the disk.               *)
LateInv ==
  \A q \in Reqs : reqs[q] # NULL /\ reqs[q].orphan /\ reqs[q].op = "write" =>
    reqs[q].val \in gaveup[reqs[q].path]

(* A block holds what the last write that succeeded wrote, what a write    *)
(* that was given up was to write, or what the write in progress has       *)
(* written; a write that succeeds leaves its own data or that of one that  *)
(* was given up; a read that has succeeded has found one of these.         *)
DataInv ==
  /\ call # NULL =>
       /\ call.obj = Local => call.op = "cmd"
       /\ call.op = "write" /\ Succeeded =>
            disk[dev[call.obj].path] \in {call.val} \cup gaveup[dev[call.obj].path]
       /\ call.op = "read" /\ Succeeded => reqs[call.req].data \in May(dev[call.obj].path)
  /\ \A p \in Paths : disk[p] \notin May(p) =>
       /\ call # NULL /\ call.op = "write" /\ dev[call.obj].path = p /\ Landed
       /\ disk[p] = call.val
  /\ last.op = "read" => last.path \in Paths
  /\ ReadsBackWrites

LEMMA DataInit == Init => DataInv /\ LateInv
<1> SUFFICES ASSUME Init PROVE DataInv /\ LateInv
  BY Zenon
<1>1. last.op # "read"
  BY Zenon, NullAssumption DEF Init, NoLast, Kinds
<1>2. \A p \in Paths : disk[p] \in May(p)
  BY Zenon DEF Init, May
<1>3. call = NULL /\ \A q \in Reqs : reqs[q] = NULL
  BY Zenon DEF Init
<1>4. QED
  BY Zenon, <1>1, <1>2, <1>3 DEF DataInv, LateInv, ReadsBackWrites

LEMMA ProgramData == ASSUME IInv, DataInv, LateInv, Program PROVE DataInv' /\ LateInv'
<1>a. /\ call = NULL /\ disk' = disk /\ last' = NoLast /\ reqs' = reqs
      /\ known' = known /\ gaveup' = gaveup
  BY Zenon DEF Program, OpenDevice, CloseDevice, MoveAssign, Begin, TestAll, ProgramRuns, histVars
<1>b. \A p \in Paths : disk[p] \in May(p) /\ May(p)' = May(p)
  BY Zenon, <1>a DEF DataInv, May
<1>c. last'.op # "read"
  BY Zenon, <1>a, NullAssumption DEF NoLast, Kinds
<1>d. LateInv'
  BY Zenon, <1>a DEF LateInv
<1>1. ASSUME NEW o \in Objs, NEW op \in Kinds, NEW v \in Vals \cup {NULL}, Begin(o, op, v)
      PROVE  DataInv'
  <2>1. o # Local /\ call'.obj = o /\ call'.step = "setup"
    BY Zenon, <1>1, ObjsAssumption DEF Begin, NewCall
  <2>2. QED
    BY Zenon, <1>a, <1>b, <1>c, <2>1 DEF DataInv, Succeeded, ReadsBackWrites
<1>2. ASSUME call' = NULL PROVE DataInv'
  BY Zenon, <1>2, <1>a, <1>b, <1>c DEF DataInv, ReadsBackWrites
<1>3. QED
  BY Zenon, <1>a, <1>d, <1>1, <1>2 DEF Program, OpenDevice, CloseDevice, MoveAssign, TestAll

(* A call returns "ok" only when its request has succeeded, and "error"    *)
(* when it has failed or the library stopped waiting for it.               *)
LEMMA ReturnData ==
  ASSUME IInv, DataInv, call # NULL, NEW r, NEW table, Return(r, table), disk' = disk,
         r = "ok" => Succeeded, Landed => r \in {"ok", "error"}
  PROVE  DataInv'
<1>a. /\ call \in Calls /\ dev[call.obj].path \in Paths
  BY Zenon DEF IInv, TypeOK, CallInv, FdInv, Calls
<1>1. CASE call.obj = Local
  <2>1. /\ last' = last /\ known' = known /\ gaveup' = gaveup
        /\ call' = NULL \/ (call' = NewCall(Local, "cmd", NULL) /\ dev' = dev)
    BY Zenon, <1>1 DEF Return, histVars
  <2>2. \A p \in Paths : disk[p] \in May(p) /\ May(p)' = May(p)
    BY <1>1, <2>1, Zenon DEF DataInv, May
  <2>3. call' # NULL => call'.obj = Local /\ call'.op = "cmd"
    BY <2>1 DEF NewCall
  <2>4. QED
    BY <2>1, <2>2, <2>3, Zenon DEF DataInv, ReadsBackWrites
<1>2. CASE call.obj # Local
  <2> DEFINE b == dev[call.obj].path
  <2>1. /\ call' = NULL
        /\ last'.op = call.op /\ last'.path = b /\ last'.res = r
        /\ last'.data = IF call.req = NULL THEN NULL ELSE reqs[call.req].data
    BY <1>2 DEF Return
  <2>2. CASE call.op = "write" /\ r = "ok"
    <3>1. /\ known'[b] = call.val /\ gaveup' = gaveup
          /\ \A p \in Paths : p # b => known'[p] = known[p]
      BY Zenon, <1>a, <1>2, <2>2 DEF Return, IInv, TypeOK
    <3>2. \A p \in Paths : disk[p] \in May(p)'
      <4>1. disk[b] \in {call.val} \cup gaveup[b]
        BY Zenon, <2>2 DEF DataInv
      <4>2. \A p \in Paths : p # b => disk[p] \in May(p)
        BY Zenon DEF DataInv
      <4>3. QED
        BY Zenon, <3>1, <4>1, <4>2 DEF May
    <3>3. QED
      BY Zenon, <1>a, <2>1, <2>2, <3>2 DEF DataInv, ReadsBackWrites
  <2>3. CASE call.op = "write" /\ call.step = "wait" /\ r = "error"
    <3>1. /\ known' = known /\ gaveup'[b] = gaveup[b] \cup {call.val}
          /\ \A p \in Paths : p # b => gaveup'[p] = gaveup[p]
      BY Zenon, <1>a, <1>2, <2>3 DEF Return, IInv, TypeOK
    <3>2. \A p \in Paths : disk[p] \in May(p)'
      BY Zenon, <3>1 DEF DataInv, May
    <3>3. QED
      BY Zenon, <1>a, <2>1, <2>3, <3>2 DEF DataInv, ReadsBackWrites
  <2>4. CASE /\ ~(call.op = "write" /\ r = "ok")
             /\ ~(call.op = "write" /\ call.step = "wait" /\ r = "error")
    <3>1. known' = known /\ gaveup' = gaveup
      BY Zenon, <1>2, <2>4 DEF Return
    <3>2. \A p \in Paths : disk[p] \in May(p) /\ May(p)' = May(p)
      BY Zenon, <2>4, <3>1 DEF DataInv, May, Landed
    <3>3. ReadsBackWrites'
      <4> SUFFICES ASSUME call.op = "read", r = "ok"
                   PROVE  last'.data \in May(b)
        BY Zenon, <2>1, <3>1 DEF ReadsBackWrites, May
      <4>1. Succeeded /\ call.req # NULL
        BY Zenon DEF Succeeded, IInv, CallInv
      <4>2. QED
        BY Zenon, <2>1, <4>1 DEF DataInv
    <3>4. QED
      BY Zenon, <1>a, <2>1, <3>2, <3>3 DEF DataInv
  <2>5. QED
    BY Zenon, <2>2, <2>3, <2>4
<1>3. QED
  BY Zenon, <1>1, <1>2

LEMMA LibraryData == ASSUME IInv, DataInv, Library \/ Failures PROVE DataInv'
<1>a. call # NULL => call \in Calls
  BY Zenon DEF IInv, TypeOK
<1>b. ASSUME call # NULL, UNCHANGED <<dev, disk, last, known, gaveup>>,
             call'.obj = call.obj, call'.op = call.op, ~Landed, ~Succeeded'
      PROVE  DataInv'
  BY Zenon, <1>b DEF DataInv, ReadsBackWrites, May
<1>1. CASE Setup
  <2>1. PICK f \in NextFd(files) :
             call' = [call EXCEPT !.step = "submit", !.ring = f,
                        !.poll = call.step = "setup" /\ call.op \in {"read", "write"}]
    BY <1>1, Zenon DEF Setup
  <2>2. f \in Fds
    BY Zenon, <2>1, LowestIn DEF NextFd
  <2>3. /\ call' \in Calls /\ call'.obj = call.obj /\ call'.op = call.op
        /\ call'.step = "submit"
    BY <1>a, <1>1, <2>1, <2>2, Zenon DEF Setup, Calls
  <2>4. QED
    BY Zenon, <1>b, <1>1, <2>3 DEF Setup, Succeeded, Landed, histVars
<1>2. CASE SetupFail
  <2>1. CASE call.step = "setup" /\ call.op \in {"read", "write"}
    <3>1. /\ call' = [call EXCEPT !.step = "fallback"] /\ call # NULL
          /\ UNCHANGED <<dev, disk, last, known, gaveup>>
      BY Zenon, <1>2, <2>1 DEF SetupFail, histVars
    <3>2. /\ call' \in Calls /\ call'.obj = call.obj /\ call'.op = call.op
          /\ call'.step = "fallback"
      BY Zenon, <1>a, <3>1 DEF Calls
    <3>3. QED
      BY Zenon, <1>b, <2>1, <3>1, <3>2 DEF Succeeded, Landed
  <2>2. CASE ~(call.step = "setup" /\ call.op \in {"read", "write"})
    BY Zenon, <1>2, <2>2, ReturnData DEF SetupFail, Landed
  <2>3. QED
    BY Zenon, <2>1, <2>2
<1>3. CASE Submit
  <2>1. PICK q \in Lowest({x \in Reqs : reqs[x] = NULL}) :
             /\ reqs' = [reqs EXCEPT ![q] =
                   [op |-> call.op, path |-> dev[call.obj].path, val |-> call.val,
                    poll |-> call.poll, orphan |-> FALSE, res |-> NULL, data |-> NULL]]
             /\ call' = [call EXCEPT !.step = "wait", !.req = q]
    BY <1>3, Zenon DEF Submit
  <2>2. q \in Reqs
    BY Zenon, <2>1, LowestIn
  <2>3. /\ call' \in Calls /\ call'.obj = call.obj /\ call'.op = call.op
        /\ call'.req = q
    BY <1>a, <1>3, <2>1, <2>2, Zenon DEF Submit, Calls
  <2>4. reqs'[q].res = NULL
    BY Zenon, <2>1, <2>2 DEF IInv, TypeOK
  <2>5. ~Landed /\ ~Succeeded'
    BY Zenon, <1>3, <2>3, <2>4, NullAssumption DEF Submit, Succeeded, Landed, Results
  <2>6. QED
    BY Zenon, <1>b, <1>3, <2>3, <2>5 DEF Submit, histVars
<1>4. CASE WaitDone
  BY Zenon, <1>4, ReturnData DEF WaitDone, Succeeded, Landed
<1>5. ASSUME NEW p \in Lowest(test.todo), TestOpen(p) PROVE DataInv'
  <2>1. /\ call = NULL /\ UNCHANGED <<disk, last, known, gaveup>>
        /\ call'.obj = Local /\ call'.op = "cmd"
    BY Zenon, <1>5 DEF TestOpen, NewCall, histVars
  <2>2. QED
    BY Zenon, <2>1 DEF DataInv, ReadsBackWrites, May
<1>6. ASSUME NEW p \in Lowest(test.todo), TestOpenFail(p) PROVE DataInv'
  <2>1. call = NULL /\ call' = call /\ UNCHANGED <<disk, last, known, gaveup>>
    BY Zenon, <1>6 DEF TestOpenFail, histVars
  <2>2. QED
    BY Zenon, <2>1 DEF DataInv, ReadsBackWrites, May
<1>7. CASE SubmitFail
  BY Zenon, <1>7, ReturnData DEF SubmitFail, Landed
<1>8. CASE WaitFail
  BY Zenon, <1>8, ReturnData DEF WaitFail
<1>9. QED
  BY Zenon, <1>1, <1>2, <1>3, <1>4, <1>5, <1>6, <1>7, <1>8 DEF Library, Failures

(* A request that a call gives up carries what is then in gaveup.          *)
LEMMA LibraryLate == ASSUME IInv, DataInv, LateInv, Library \/ Failures PROVE LateInv'
<1>a. /\ reqs \in [Reqs -> Requests \cup {NULL}] /\ gaveup \in [Paths -> SUBSET (Vals \cup {NULL})]
      /\ call # NULL => call \in Calls /\ dev[call.obj].path \in Paths
      /\ call # NULL => call.req \in Reqs \cup {NULL}
  BY Zenon DEF IInv, TypeOK, CallInv, FdInv, Calls
<1>b. ASSUME gaveup' = gaveup,
             \A q \in Reqs : reqs'[q] # NULL /\ reqs'[q].orphan => reqs'[q] = reqs[q]
      PROVE  LateInv'
  BY Zenon, <1>b DEF LateInv
<1>c. ASSUME NEW r, NEW table, Return(r, table), call # NULL
      PROVE  \A p \in Paths : gaveup[p] \subseteq gaveup'[p]
  <2>1. \/ gaveup' = gaveup
        \/ gaveup' = [gaveup EXCEPT ![dev[call.obj].path] = @ \cup {call.val}]
    BY Zenon, <1>c DEF Return, histVars
  <2>2. QED
    BY <1>a, <2>1
<1>d. ASSUME \A p \in Paths : gaveup[p] \subseteq gaveup'[p],
             \A q \in Reqs : reqs'[q] # NULL /\ reqs'[q].orphan => reqs'[q] = reqs[q]
      PROVE  LateInv'
  <2> SUFFICES ASSUME NEW q \in Reqs, reqs'[q] # NULL, reqs'[q].orphan, reqs'[q].op = "write"
               PROVE  reqs'[q].val \in gaveup'[reqs'[q].path]
    BY Zenon DEF LateInv
  <2>1. reqs'[q] = reqs[q] /\ reqs[q].path \in Paths
    BY Zenon, <1>a, <1>d DEF Requests
  <2>2. reqs[q].val \in gaveup[reqs[q].path]
    BY Zenon, <2>1 DEF LateInv
  <2>3. QED
    BY Zenon, <1>d, <2>1, <2>2
<1>1. CASE Setup \/ \E p \in Lowest(test.todo) : TestOpen(p) \/ TestOpenFail(p)
  <2>1. UNCHANGED <<reqs, gaveup>>
    BY Zenon, <1>1 DEF Setup, TestOpen, TestOpenFail, histVars
  <2>2. QED
    BY Zenon, <1>b, <2>1
<1>2. CASE SetupFail \/ SubmitFail
  <2>1. reqs' = reqs /\ \A p \in Paths : gaveup[p] \subseteq gaveup'[p]
    BY Zenon, <1>c, <1>2 DEF SetupFail, SubmitFail, histVars
  <2>2. QED
    BY Zenon, <1>d, <2>1
<1>3. CASE Submit
  <2>1. PICK q \in Lowest({x \in Reqs : reqs[x] = NULL}) :
             reqs' = [reqs EXCEPT ![q] =
                   [op |-> call.op, path |-> dev[call.obj].path, val |-> call.val,
                    poll |-> call.poll, orphan |-> FALSE, res |-> NULL, data |-> NULL]]
    BY <1>3, Zenon DEF Submit
  <2>2. q \in Reqs
    BY Zenon, <2>1, LowestIn
  <2>3. ~reqs'[q].orphan /\ \A x \in Reqs : x # q => reqs'[x] = reqs[x]
    BY Zenon, <1>a, <2>1, <2>2
  <2>4. QED
    BY Zenon, <1>b, <1>3, <2>3 DEF Submit, histVars
<1>4. CASE WaitDone
  <2>1. /\ call # NULL /\ call.req \in Reqs /\ reqs' = [reqs EXCEPT ![call.req] = NULL]
        /\ Return(reqs[call.req].res, RingDown)
    BY Zenon, <1>a, <1>4 DEF WaitDone, IInv, CallInv
  <2>2. reqs'[call.req] = NULL /\ \A x \in Reqs : x # call.req => reqs'[x] = reqs[x]
    BY Zenon, <1>a, <2>1
  <2>3. QED
    BY Zenon, <1>c, <1>d, <2>1, <2>2
<1>5. CASE WaitFail
  <2> DEFINE b == dev[call.obj].path
             c == call.req
  <2>1. /\ call # NULL /\ call.step = "wait" /\ c \in Reqs /\ reqs' = Abandoned
        /\ reqs[c] \in Requests /\ Return("error", RingDown)
        /\ reqs[c].op = call.op /\ reqs[c].path = b /\ reqs[c].val = call.val
    BY Zenon, <1>a, <1>5 DEF WaitFail, IInv, CallInv
  <2>2. /\ \A x \in Reqs : x # c => reqs'[x] = reqs[x]
        /\ reqs'[c] = NULL \/ reqs'[c] = [reqs[c] EXCEPT !.orphan = TRUE]
    BY Zenon, <1>a, <2>1 DEF Abandoned
  <2>3. reqs'[c] # NULL =>
          reqs'[c].op = call.op /\ reqs'[c].path = b /\ reqs'[c].val = call.val
    BY <2>1, <2>2 DEF Requests
  <2>4. \A p \in Paths : gaveup[p] \subseteq gaveup'[p]
    BY Zenon, <1>c, <2>1
  <2>5. call.op = "write" => call.val \in gaveup'[b]
    <3>1. ASSUME call.op = "write" PROVE call.obj # Local
      BY Zenon, <2>1, <3>1 DEF DataInv
    <3>2. ASSUME call.op = "write"
          PROVE  gaveup' = [gaveup EXCEPT ![b] = @ \cup {call.val}]
      BY Zenon, <2>1, <3>1, <3>2 DEF Return
    <3>3. QED
      BY Zenon, <1>a, <2>1, <3>2
  <2>6. ASSUME NEW q \in Reqs, reqs'[q] # NULL, reqs'[q].orphan, reqs'[q].op = "write"
        PROVE  reqs'[q].val \in gaveup'[reqs'[q].path]
    <3>1. CASE q = c
      BY Zenon, <2>3, <2>5, <2>6, <3>1
    <3>2. CASE q # c
      <4>1. reqs'[q] = reqs[q] /\ reqs[q].path \in Paths
        BY Zenon, <1>a, <2>2, <2>6, <3>2 DEF Requests
      <4>2. reqs[q].val \in gaveup[reqs[q].path]
        BY Zenon, <2>6, <4>1 DEF LateInv
      <4>3. QED
        BY Zenon, <2>4, <4>1, <4>2
    <3>3. QED
      BY Zenon, <3>1, <3>2
  <2>7. QED
    BY Zenon, <2>6 DEF LateInv
<1>6. QED
  BY Zenon, <1>1, <1>2, <1>3, <1>4, <1>5 DEF Library, Failures

LEMMA KernelData == ASSUME IInv, DataInv, LateInv, Kernel PROVE DataInv' /\ LateInv'
<1>a. /\ reqs \in [Reqs -> Requests \cup {NULL}] /\ disk \in [Paths -> Vals \cup {NULL}]
      /\ call # NULL => call.req \in Reqs \cup {NULL} /\ dev[call.obj].path \in Paths
  BY Zenon DEF IInv, TypeOK, Calls, CallInv, FdInv
<1>b. call' = call /\ dev' = dev /\ last' = last /\ known' = known /\ gaveup' = gaveup
  BY ZenonT(30) DEF Kernel, Serve, Cancel, libVars, histVars
<1>c. /\ \A p : May(p)' = May(p)
      /\ ReadsBackWrites'
      /\ last'.op = "read" => last'.path \in Paths
  BY Zenon, <1>b DEF May, DataInv, ReadsBackWrites
<1>d. ASSUME call # NULL =>
               /\ call.obj = Local => call.op = "cmd"
               /\ call.op = "write" /\ Succeeded' =>
                    disk'[dev[call.obj].path] \in {call.val} \cup gaveup[dev[call.obj].path]
               /\ call.op = "read" /\ Succeeded' =>
                    reqs'[call.req].data \in May(dev[call.obj].path),
             \A p \in Paths : disk'[p] \notin May(p) =>
               /\ call # NULL /\ call.op = "write" /\ dev[call.obj].path = p /\ Landed'
               /\ disk'[p] = call.val
      PROVE  DataInv'
  <2>1. May(dev[call.obj].path)' = May(dev[call.obj].path)
    BY Zenon, <1>b DEF May
  <2>2. QED
    BY Zenon, <1>b, <1>c, <1>d, <2>1 DEF DataInv
<1>1. ASSUME NEW q \in Reqs, Cancel(q) PROVE DataInv' /\ LateInv'
  <2>1. /\ reqs[q] # NULL /\ reqs[q].orphan /\ disk' = disk /\ reqs'[q] = NULL
        /\ \A x \in Reqs : x # q => reqs'[x] = reqs[x]
    BY Zenon, <1>a, <1>1 DEF Cancel
  <2>2. call # NULL /\ call.step = "wait" => call.req # q /\ call.req \in Reqs
    BY Zenon, <1>a, <2>1 DEF IInv, CallInv
  <2>3. call # NULL /\ call.step = "wait" => reqs'[call.req] = reqs[call.req]
    BY Zenon, <2>1, <2>2
  <2>4. call # NULL => (Succeeded' <=> Succeeded) /\ (Landed' <=> Landed)
    BY Zenon, <1>b, <2>3 DEF Succeeded, Landed
  <2>5. DataInv'
    <3>1. call # NULL =>
            /\ call.obj = Local => call.op = "cmd"
            /\ call.op = "write" /\ Succeeded' =>
                 disk'[dev[call.obj].path] \in {call.val} \cup gaveup[dev[call.obj].path]
            /\ call.op = "read" /\ Succeeded' =>
                 reqs'[call.req].data \in May(dev[call.obj].path)
      BY Zenon, <2>1, <2>3, <2>4 DEF DataInv, Succeeded
    <3>2. \A p \in Paths : disk'[p] \notin May(p) =>
            /\ call # NULL /\ call.op = "write" /\ dev[call.obj].path = p /\ Landed'
            /\ disk'[p] = call.val
      BY Zenon, <2>1, <2>4 DEF DataInv
    <3>3. QED
      BY Zenon, <1>d, <3>1, <3>2
  <2>6. LateInv'
    BY Zenon, <1>b, <2>1 DEF LateInv
  <2>7. QED
    BY <2>5, <2>6
<1>2. ASSUME NEW q \in Reqs, Serve(q) PROVE DataInv' /\ LateInv'
  <2> DEFINE r == reqs[q]
  <2>1. r \in Requests /\ r # NULL /\ r.res = NULL /\ r.path \in Paths
    BY Zenon, <1>a, <1>2 DEF Serve, Requests
  <2>2. PICK res \in {"ok", "error"} \cup (IF r.poll THEN {"opnotsupp"} ELSE {}) :
       /\ \E d \in BlockAfter(r, res) : disk' = [disk EXCEPT ![r.path] = d]
       /\ reqs' = [reqs EXCEPT ![q] = IF r.orphan THEN NULL ELSE [r EXCEPT !.res = res,
                                            !.data = IF r.op = "read" /\ res = "ok"
                                                     THEN disk[r.path] ELSE NULL]]
    BY <1>2, Zenon DEF Serve
  <2>3. /\ \A x \in Reqs : x # q => reqs'[x] = reqs[x]
        /\ r.orphan => reqs'[q] = NULL
        /\ ~r.orphan => /\ reqs'[q].res = res /\ ~reqs'[q].orphan
                        /\ r.op = "read" /\ res = "ok" => reqs'[q].data = disk[r.path]
    BY Zenon, <1>a, <2>1, <2>2 DEF Requests
  <2>4. /\ \A p \in Paths : p # r.path => disk'[p] = disk[p]
        /\ r.op = "write" /\ res = "ok" => disk'[r.path] = r.val
        /\ \/ disk'[r.path] = disk[r.path]
           \/ r.op = "write" /\ res \in {"ok", "error"} /\ disk'[r.path] = r.val
    <3>1. PICK d \in BlockAfter(r, res) : disk' = [disk EXCEPT ![r.path] = d]
      BY Zenon, <2>2
    <3>2. /\ disk'[r.path] = d /\ \A p \in Paths : p # r.path => disk'[p] = disk[p]
      BY Zenon, <1>a, <2>1, <3>1
    <3>3. /\ r.op = "write" /\ res = "ok" => d = r.val
          /\ \/ d = disk[r.path]
             \/ r.op = "write" /\ res \in {"ok", "error"} /\ d = r.val
      BY <3>1 DEF BlockAfter
    <3>4. QED
      BY Zenon, <3>2, <3>3
  <2> HIDE DEF r
  <2>5. LateInv'
    BY Zenon, <1>b, <2>3 DEF LateInv, r
  <2>6. CASE r.orphan
    <3>1. call # NULL /\ call.step = "wait" => call.req # q /\ call.req \in Reqs
      BY Zenon, <1>a, <2>6 DEF IInv, CallInv, r
    <3>2. call # NULL /\ call.step = "wait" => reqs'[call.req] = reqs[call.req]
      BY Zenon, <2>3, <3>1
    <3>3. call # NULL => (Succeeded' <=> Succeeded) /\ (Landed' <=> Landed)
      BY Zenon, <1>b, <3>2 DEF Succeeded, Landed
    <3>4. \A p \in Paths : disk'[p] = disk[p] \/ disk'[p] \in gaveup[p]
      BY Zenon, <2>1, <2>4, <2>6 DEF LateInv, r
    <3>5. \A p \in Paths : disk'[p] = disk[p] \/ disk'[p] \in May(p)
      BY Zenon, <3>4 DEF May
    <3>6. call # NULL =>
            /\ call.obj = Local => call.op = "cmd"
            /\ call.op = "write" /\ Succeeded' =>
                 disk'[dev[call.obj].path] \in {call.val} \cup gaveup[dev[call.obj].path]
            /\ call.op = "read" /\ Succeeded' =>
                 reqs'[call.req].data \in May(dev[call.obj].path)
      BY Zenon, <1>a, <3>2, <3>3, <3>4 DEF DataInv, Succeeded
    <3>7. \A p \in Paths : disk'[p] \notin May(p) =>
            /\ call # NULL /\ call.op = "write" /\ dev[call.obj].path = p /\ Landed'
            /\ disk'[p] = call.val
      <4>1. \A p \in Paths : disk[p] \notin May(p) =>
              /\ call # NULL /\ call.op = "write" /\ dev[call.obj].path = p /\ Landed
              /\ disk[p] = call.val
        BY Zenon DEF DataInv
      <4>2. QED
        BY Zenon, <3>3, <3>5, <4>1
    <3>8. QED
      BY Zenon, <1>d, <2>5, <3>6, <3>7
  <2>7. CASE ~r.orphan
    <3>1. /\ call # NULL /\ call.step = "wait" /\ call.req = q
          /\ r.op = call.op /\ r.path = dev[call.obj].path /\ r.val = call.val
      BY Zenon, <2>1, <2>7 DEF IInv, CallInv, r
    <3>2. /\ Succeeded' <=> res = "ok"
          /\ Landed' <=> res \in {"ok", "error"}
          /\ ~Landed
      BY Zenon, <1>b, <2>1, <2>3, <2>7, <3>1, NullAssumption DEF Succeeded, Landed, Results, r
    <3>3. \A p \in Paths : disk[p] \in May(p)
      BY Zenon, <3>2 DEF DataInv
    <3>4. call.op = "read" /\ res = "ok" => reqs'[call.req].data \in May(r.path)
      BY Zenon, <2>1, <2>3, <2>7, <3>1, <3>3
    <3>5. call.op = "write" /\ res = "ok" => disk'[r.path] = call.val
      BY Zenon, <2>4, <3>1
    <3>6. \A p \in Paths : disk'[p] \in May(p) \/
            (call.op = "write" /\ r.path = p /\ Landed' /\ disk'[p] = call.val)
      BY Zenon, <2>4, <3>1, <3>2, <3>3
    <3>7. call.obj = Local => call.op = "cmd"
      BY Zenon, <3>1 DEF DataInv
    <3>8. QED
      BY Zenon, <1>d, <2>5, <3>1, <3>2, <3>4, <3>5, <3>6, <3>7
  <2>8. QED
    BY Zenon, <2>6, <2>7
<1>3. QED
  BY Zenon, <1>1, <1>2 DEF Kernel

(* A read that succeeds finds what the last write that succeeded wrote or  *)
(* what a write that was given up was to write, and nothing else, however  *)
(* late the disk gets to it.                                               *)
THEOREM ReadsBack == Spec => []ReadsBackWrites
<1>1. Init => DataInv /\ LateInv
  BY Zenon, DataInit
<1>2. IInv /\ DataInv /\ LateInv /\ [Next]_vars => DataInv' /\ LateInv'
  <2>1. ASSUME DataInv, LateInv, UNCHANGED vars PROVE DataInv' /\ LateInv'
    BY Zenon, <2>1 DEF vars, libVars, histVars, DataInv, LateInv, Succeeded, Landed, May,
         ReadsBackWrites
  <2>2. QED
    BY Zenon, <2>1, ProgramData, LibraryData, LibraryLate, KernelData DEF Next
<1>3. DataInv => ReadsBackWrites
  BY Zenon DEF DataInv
<1>4. QED
  BY <1>1, <1>2, <1>3, Inductive, PTL DEF Spec
=============================================================================
