--------------------------- MODULE UringblkQueue ---------------------------
(***************************************************************************)
(* The data path of the uringblk driver (driver/uringblk_main.c):          *)
(* uringblk_queue_rq, the virtual backend, which answers a request before  *)
(* the handler returns, and the asynchronous device backend, which hands a *)
(* bio to another block device and answers from the bio's completion       *)
(* callback.  blk-mq runs the handler for several requests at once; the    *)
(* handler takes a lock only around the statistics, and the callback goes  *)
(* on after the answer, when the tag may already serve another request.    *)
(*                                                                         *)
(* Positions and lengths count 512-byte sectors, the unit of blk_rq_pos.   *)
(***************************************************************************)
EXTENDS Integers, Sequences, FiniteSetsExt

CONSTANTS
  Rqs,          \* request tags
  Ctxs,         \* addresses kmalloc may return for a uringblk_io_context
  NULL,
  Backends,     \* backends the driver may be loaded with: "virtual", "device"
  CapS,         \* dev->backend.capacity
  LBS,          \* uringblk_logical_block_size
  PageS,        \* PAGE_SIZE
  Ops,          \* operations the block layer issues
  Shapes,       \* lengths of the segments of a data request
  Vals, Zero,   \* contents of a sector; Zero is one of them
  MaxRequests   \* bound on the requests ever submitted

ASSUME CapAssumption == {CapS, LBS, PageS, MaxRequests} \subseteq Nat \ {0}
ASSUME ShapesAssumption ==
  \A sh \in Shapes : sh \in Seq(Nat \ {0}) /\ sh # <<>>
ASSUME NullAssumption == NULL \notin Rqs \cup Ctxs
ASSUME BackendAssumption == Backends \subseteq {"virtual", "device"} /\ Zero \in Vals

VARIABLES
  backend,      \* dev->backend.type, set when the device is made
  store,        \* the medium: private_data, or the device behind the bios
  pc,           \* where the handling of a request has got to
  rq,           \* the request: operation, first sector, length, segments, data
  pos,          \* pos of uringblk_queue_rq
  moved,        \* sectors of the request transferred so far
  buf,          \* what a read has put in the request's segments
  page,         \* the page of the request's uringblk_io_context
  ctx,          \* ctx of the handler, then bi_private of its bio
  heap,         \* the contexts that are allocated
  pages,        \* the contexts whose page is allocated
  done,         \* contexts of callbacks that have given the answer
  status,       \* the status blk_mq_end_request was called with
  stats,        \* dev->stats
  stats_lock,   \* the request whose handler holds dev->stats_lock, or NULL
  submitted     \* requests submitted so far

dataVars == <<store, moved, buf, page>>
fixed == <<backend, submitted>>
ctxVars == <<ctx, heap, pages, done>>
statVars == <<stats, stats_lock>>
vars == <<dataVars, pc, rq, pos, ctxVars, status, statVars, fixed>>

AllOps == {"read", "write", "flush", "discard", "drv", "zeroes"}
LenOf(segs) == SumFunction(segs)
MaxLen == Max({LenOf(sh) : sh \in Shapes})
Offsets == 0 .. (MaxLen - 1)
Addresses == 0 .. (CapS - 1)
Nothing == [o \in Offsets |-> Zero]

(* What sums of positive lengths are.                                      *)
ASSUME LengthsAssumption ==
  /\ MaxLen \in Nat /\ LenOf(<<>>) = 0
  /\ \A sh \in Shapes : LenOf(sh) \in Head(sh) .. MaxLen
ASSUME OpsAssumption == Ops \subseteq AllOps

(* The capacity given to the block layer: set_capacity takes 512-byte      *)
(* sectors and is passed a number of logical blocks.                       *)
DiskSectors == CapS \div LBS

Counters == {"read_ops", "read_sectors", "write_ops", "write_sectors",
             "flush_ops", "discard_ops"}
NoStats == [c \in Counters |-> 0]
Blank == [op |-> "flush", sector |-> 0, len |-> 0, segs |-> <<>>, data |-> Zero]

(* Where the handler or the callback of a request has a context in hand,   *)
(* and where the context has a page.                                       *)
PagePcs == {"add_page", "bio"}
CtxPcs == {"alloc_page"} \cup PagePcs
Pcs == {"free", "queued", "counting", "counted", "dispatch", "memcpy", "returned", "oops",
        "ended"} \cup CtxPcs

TypeOK ==
  /\ backend \in Backends
  /\ store \in [Addresses -> Vals]
  /\ pc \in [Rqs -> Pcs]
  /\ \A r \in Rqs : /\ rq[r].op \in AllOps /\ rq[r].sector \in Int /\ rq[r].len \in 0 .. MaxLen
                    /\ rq[r].segs \in Shapes \cup {<<>>} /\ rq[r].data \in Vals
  /\ pos \in [Rqs -> Int]
  /\ moved \in [Rqs -> 0 .. MaxLen]
  /\ buf \in [Rqs -> [Offsets -> Vals]] /\ page \in [Rqs -> [Offsets -> Vals]]
  /\ ctx \in [Rqs -> Ctxs \cup {NULL}]
  /\ heap \subseteq Ctxs /\ pages \subseteq heap /\ done \subseteq heap
  /\ status \in [Rqs -> {"ok", "ioerr", "notsupp"}]
  /\ stats \in [Counters -> Nat] /\ stats_lock \in Rqs \cup {NULL}
  /\ submitted \in 0 .. MaxRequests

Init ==
  /\ backend \in Backends
  /\ store = [a \in Addresses |-> Zero]
  /\ pc = [r \in Rqs |-> "free"]
  /\ rq = [r \in Rqs |-> Blank]
  /\ pos = [r \in Rqs |-> 0]
  /\ moved = [r \in Rqs |-> 0]
  /\ buf = [r \in Rqs |-> Nothing] /\ page = [r \in Rqs |-> Nothing]
  /\ ctx = [r \in Rqs |-> NULL] /\ heap = {} /\ pages = {} /\ done = {}
  /\ status = [r \in Rqs |-> "ok"]
  /\ stats = NoStats /\ stats_lock = NULL
  /\ submitted = 0
-----------------------------------------------------------------------------
Len512(r) == rq[r].len
Goto(r, l) == pc' = [pc EXCEPT ![r] = l]

(* blk_mq_end_request.                                                     *)
End(r, s) ==
  /\ Goto(r, "ended")
  /\ status' = [status EXCEPT ![r] = s]

NotEnded == UNCHANGED status

(* The block layer issues a request.  Reads, writes, discards and requests *)
(* to write zeroes are whole logical blocks inside the disk, but only a    *)
(* read or a write has segments: the bio of the others has a length and no *)
(* vector.  A flush or a passthrough command has neither a payload nor a   *)
(* position: blk_rq_pos is -1.                                             *)
Submit(r, op, s, n, segs, d) ==
  /\ pc[r] = "free" /\ submitted < MaxRequests
  /\ IF op \in {"flush", "drv"}
     THEN s = -1 /\ n = 0
     ELSE /\ s >= 0 /\ n > 0
          /\ s % LBS = 0 /\ n % LBS = 0
          /\ s + n =< DiskSectors
  /\ IF op \in {"read", "write"} THEN segs \in Shapes /\ n = LenOf(segs) ELSE segs = <<>>
  /\ op # "write" => d = Zero
  /\ Goto(r, "queued")
  /\ rq' = [rq EXCEPT ![r] = [op |-> op, sector |-> s, len |-> n, segs |-> segs, data |-> d]]
  /\ submitted' = submitted + 1
  /\ UNCHANGED <<backend, dataVars, pos, ctxVars, status, statVars>>

(* uringblk_queue_rq up to the statistics: the byte position and the       *)
(* bounds check, in signed arithmetic.                                     *)
Start(r) ==
  /\ pc[r] = "queued"
  /\ LET p == rq[r].sector * LBS IN
       /\ pos' = [pos EXCEPT ![r] = p]
       /\ IF p >= CapS \/ p + Len512(r) > CapS
          THEN End(r, "ioerr")
          ELSE Goto(r, "counting") /\ NotEnded
  /\ UNCHANGED <<dataVars, rq, ctxVars, statVars, fixed>>

(* Mutant: OpCounted with a decrement for a discard.                       *)
OpCountedDown(r) ==
  [stats EXCEPT !.discard_ops = IF rq[r].op = "discard" THEN @ - 1 ELSE @]

(* The counter of the operation, and then that of its sectors.             *)
OpCounted(r) ==
  CASE rq[r].op = "read" -> [stats EXCEPT !.read_ops = @ + 1]
    [] rq[r].op = "write" -> [stats EXCEPT !.write_ops = @ + 1]
    [] rq[r].op = "flush" -> [stats EXCEPT !.flush_ops = @ + 1]
    [] rq[r].op = "discard" -> [stats EXCEPT !.discard_ops = @ + 1]
    [] OTHER -> stats
SectorsCounted(r) ==
  CASE rq[r].op = "read" -> [stats EXCEPT !.read_sectors = @ + Len512(r)]
    [] rq[r].op = "write" -> [stats EXCEPT !.write_sectors = @ + Len512(r)]
    [] OTHER -> stats

(* The section under stats_lock.                                           *)
Count(r) ==
  /\ pc[r] = "counting" /\ stats_lock = NULL
  /\ stats' = OpCounted(r) /\ stats_lock' = r
  /\ Goto(r, "counted") /\ NotEnded
  /\ UNCHANGED <<dataVars, rq, pos, ctxVars, fixed>>

(* The rest of the section, and the answers it leads to at once.           *)
Unlock(r) ==
  /\ pc[r] = "counted"
  /\ stats' = SectorsCounted(r) /\ stats_lock' = NULL
  /\ CASE rq[r].op = "drv" -> End(r, "ok")
       [] rq[r].op = "zeroes" -> End(r, "notsupp")
       [] OTHER -> /\ Goto(r, IF backend = "device" THEN "dispatch" ELSE "memcpy")
                   /\ NotEnded
  /\ UNCHANGED <<dataVars, rq, pos, ctxVars, fixed>>

(* rq_for_each_segment over a bio that has a length and no vector reads    *)
(* through a null bi_io_vec: the handler does not come back.               *)
NoVector(r) ==
  /\ pc[r] \in {"dispatch", "memcpy"} /\ rq[r].segs = <<>> /\ Len512(r) > 0
  /\ Goto(r, "oops") /\ NotEnded
  /\ UNCHANGED <<dataVars, rq, pos, ctxVars, statVars, fixed>>
-----------------------------------------------------------------------------
(* One sector of a transfer between the medium and the memory mem (the     *)
(* request's segments or the context's page).                              *)
CopyIn(r, mem) == [mem EXCEPT ![r][moved[r]] = store[pos[r] + moved[r]]]
CopyOut(r, v) == [store EXCEPT ![pos[r] + moved[r]] = v]
OneMore(r) == moved' = [moved EXCEPT ![r] = @ + 1]

(* Mutant: Extent with the last sector left out.                           *)
ExtentShort(r) == Min({Len512(r) - 1, CapS - pos[r]})

(* How far the loop over the segments gets: each is cut at dev_size.       *)
Extent(r) == Min({Len512(r), CapS - pos[r]})

(* virtual_backend_read and _write: memcpy holds no lock, so requests      *)
(* interleave sector by sector.                                            *)
VirtualCopy(r) ==
  /\ pc[r] = "memcpy" /\ rq[r].segs # <<>> /\ moved[r] < Extent(r)
  /\ IF rq[r].op = "read"
     THEN buf' = CopyIn(r, buf) /\ UNCHANGED store
     ELSE store' = CopyOut(r, rq[r].data) /\ UNCHANGED buf
  /\ OneMore(r)
  /\ UNCHANGED <<page, pc, rq, pos, ctxVars, status, statVars, fixed>>

(* The loop is done (a flush has no bio to loop over).                     *)
VirtualEnd(r) ==
  /\ pc[r] = "memcpy" /\ moved[r] >= Extent(r)
  /\ End(r, "ok")
  /\ UNCHANGED <<dataVars, rq, pos, ctxVars, statVars, fixed>>
-----------------------------------------------------------------------------
(* Length of the bio: of the first segment only, cut at dev_size and at a  *)
(* page.                                                                   *)
BioLen(r) == Min({Head(rq[r].segs), CapS - pos[r], PageS})

(* device_backend_read_async and _write_async answer an error: the handler *)
(* ends the request.                                                       *)
Refuse(r) ==
  /\ End(r, "ioerr")
  /\ ctx' = [ctx EXCEPT ![r] = NULL]
  /\ UNCHANGED <<dataVars, rq, pos, done, statVars, fixed>>

(* They allocate a context, or cannot.                                     *)
AllocCtx(r) ==
  /\ pc[r] = "dispatch" /\ rq[r].segs # <<>>
  /\ \E c \in Ctxs \ heap :
       ctx' = [ctx EXCEPT ![r] = c] /\ heap' = heap \cup {c}
  /\ Goto(r, "alloc_page") /\ NotEnded
  /\ UNCHANGED <<dataVars, rq, pos, pages, done, statVars, fixed>>

(* Mutant: AllocCtxFail without blk_mq_end_request.                        *)
AllocCtxFailSilent(r) ==
  /\ pc[r] = "dispatch" /\ rq[r].segs # <<>>
  /\ Goto(r, "returned") /\ NotEnded
  /\ UNCHANGED <<dataVars, rq, pos, ctxVars, statVars, fixed>>

AllocCtxFail(r) ==
  /\ pc[r] = "dispatch" /\ rq[r].segs # <<>>
  /\ Refuse(r)
  /\ UNCHANGED <<heap, pages>>

(* They allocate its page, or free the context.                            *)
AllocPage(r) ==
  /\ pc[r] = "alloc_page"
  /\ pages' = pages \cup {ctx[r]}
  /\ Goto(r, "add_page") /\ NotEnded
  /\ UNCHANGED <<dataVars, rq, pos, ctx, heap, done, statVars, fixed>>

(* Mutant: AllocPageFail without kfree.                                    *)
AllocPageFailLeaks(r) ==
  /\ pc[r] = "alloc_page"
  /\ Refuse(r)
  /\ UNCHANGED <<heap, pages>>

AllocPageFail(r) ==
  /\ pc[r] = "alloc_page"
  /\ heap' = heap \ {ctx[r]}
  /\ Refuse(r)
  /\ UNCHANGED pages

(* They put the page, with the data of a write copied to it, in a bio and  *)
(* submit that, or free the page and the context.                          *)
AddPage(r) ==
  /\ pc[r] = "add_page"
  /\ page' = [page EXCEPT ![r] =
                IF rq[r].op = "read" THEN Nothing
                ELSE [o \in Offsets |-> IF o < BioLen(r) THEN rq[r].data ELSE Zero]]
  /\ Goto(r, "bio") /\ NotEnded
  /\ UNCHANGED <<store, moved, buf, rq, pos, ctxVars, statVars, fixed>>

AddPageFail(r) ==
  /\ pc[r] = "add_page"
  /\ pages' = pages \ {ctx[r]} /\ heap' = heap \ {ctx[r]}
  /\ Refuse(r)

(* A flush has no bio: the loop over the segments has no iteration and the *)
(* handler returns BLK_STS_OK.                                             *)
DispatchNoSegment(r) ==
  /\ pc[r] = "dispatch" /\ rq[r].segs = <<>> /\ Len512(r) = 0
  /\ Goto(r, "returned") /\ NotEnded
  /\ UNCHANGED <<dataVars, rq, pos, ctxVars, statVars, fixed>>

(* The device behind the bio transfers a sector.                           *)
BioTransfer(r) ==
  /\ pc[r] = "bio" /\ moved[r] < BioLen(r)
  /\ IF rq[r].op = "read"
     THEN page' = CopyIn(r, page) /\ UNCHANGED store
     ELSE store' = CopyOut(r, page[r][moved[r]]) /\ UNCHANGED page
  /\ OneMore(r)
  /\ UNCHANGED <<buf, pc, rq, pos, ctxVars, status, statVars, fixed>>

(* device_backend_bio_complete frees the page and gives the answer; the    *)
(* context is freed by the step that follows.                              *)
Answer(r, s) ==
  /\ pages' = pages \ {ctx[r]}
  /\ End(r, s)
  /\ done' = done \cup {ctx[r]}
  /\ ctx' = [ctx EXCEPT ![r] = NULL]
  /\ UNCHANGED <<store, moved, page, rq, pos, heap, statVars, fixed>>

(* A read's page is copied to its buffer first.                            *)
BioComplete(r) ==
  /\ pc[r] = "bio" /\ moved[r] = BioLen(r)
  /\ buf' = IF rq[r].op = "read"
            THEN [buf EXCEPT ![r] =
                    [o \in Offsets |-> IF o < BioLen(r) THEN page[r][o] ELSE @[o]]]
            ELSE buf
  /\ Answer(r, "ok")

(* With bi_status set the buffer stays as it was.                          *)
BioFail(r) ==
  /\ pc[r] = "bio"
  /\ Answer(r, "ioerr")
  /\ UNCHANGED buf

(* The callback frees the context and the bio.                             *)
FreeCtx(c) ==
  /\ c \in done
  /\ heap' = heap \ {c} /\ done' = done \ {c}
  /\ UNCHANGED <<dataVars, pc, rq, pos, ctx, pages, status, statVars, fixed>>
-----------------------------------------------------------------------------
(* The block layer takes back the tag of a request that was answered, and  *)
(* with it everything known of the request.                                *)
Reap(r) ==
  /\ pc[r] = "ended"
  /\ Goto(r, "free")
  /\ rq' = [rq EXCEPT ![r] = Blank]
  /\ pos' = [pos EXCEPT ![r] = 0] /\ moved' = [moved EXCEPT ![r] = 0]
  /\ buf' = [buf EXCEPT ![r] = Nothing] /\ page' = [page EXCEPT ![r] = Nothing]
  /\ status' = [status EXCEPT ![r] = "ok"]
  /\ UNCHANGED <<store, ctxVars, statVars, fixed>>

(* Mutant: StatsReset without stats_lock.                                  *)
StatsResetUnlocked ==
  /\ stats # NoStats
  /\ stats' = NoStats
  /\ UNCHANGED <<dataVars, pc, rq, pos, ctxVars, status, stats_lock, fixed>>

(* stats_reset_store: a memset under stats_lock.                           *)
StatsReset ==
  /\ stats # NoStats /\ stats_lock = NULL
  /\ stats' = NoStats
  /\ UNCHANGED <<dataVars, pc, rq, pos, ctxVars, status, stats_lock, fixed>>

Handle(r) ==
  \/ Start(r) \/ Count(r) \/ Unlock(r) \/ NoVector(r)
  \/ VirtualCopy(r) \/ VirtualEnd(r)
  \/ AllocCtx(r) \/ AllocCtxFail(r) \/ AllocPage(r) \/ AllocPageFail(r)
  \/ AddPage(r) \/ AddPageFail(r) \/ DispatchNoSegment(r)
  \/ BioTransfer(r) \/ BioComplete(r) \/ BioFail(r)

Next ==
  \/ StatsReset
  \/ \E c \in Ctxs : FreeCtx(c)
  \/ \E r \in Rqs :
       \/ \E op \in Ops, s \in -1 .. (CapS - 1), n \in 0 .. MaxLen,
             segs \in Shapes \cup {<<>>}, d \in Vals : Submit(r, op, s, n, segs, d)
       \/ Handle(r)
       \/ Reap(r)

Spec == Init /\ [][Next]_vars

(* A handler that was called runs on, also past stats_lock, and the device *)
(* answers every bio.                                                      *)
FairSpec == Spec /\ \A r \in Rqs : WF_vars(Handle(r))
-----------------------------------------------------------------------------
(* No context leaks and none is used after it is freed: on every path of   *)
(* the device backend, the failure of each allocation and the bio's error  *)
(* included, an allocated context is in the hands of one request or of a   *)
(* callback about to free it, also when the tag already serves another     *)
(* request, and a page is allocated just while a request works on it.      *)
ContextsFreed ==
  LET Holders(c) == {r \in Rqs : ctx[r] = c} IN
  /\ \A r \in Rqs : ctx[r] # NULL <=> pc[r] \in CtxPcs
  /\ \A c \in Ctxs : \A q, r \in Holders(c) : q = r
  /\ heap = done \cup {ctx[r] : r \in {q \in Rqs : pc[q] \in CtxPcs}}
  /\ done \cap {ctx[r] : r \in Rqs} = {}
  /\ pages = {ctx[r] : r \in {q \in Rqs : pc[q] \in PagePcs}}

(* Operations and sectors are counted together: whatever resets race with  *)
(* the handlers, whoever takes stats_lock finds between n and n * MaxLen   *)
(* sectors for n reads.                                                    *)
StatsTogether ==
  stats_lock = NULL =>
    /\ stats.read_ops =< stats.read_sectors
    /\ stats.read_sectors =< stats.read_ops * MaxLen
    /\ stats.write_ops =< stats.write_sectors
    /\ stats.write_sectors =< stats.write_ops * MaxLen

(* Every request the driver is given is answered.                          *)
EveryRequestEnds == \A r \in Rqs : pc[r] = "queued" ~> pc[r] = "ended"

(* Every request is answered that has segments, or on the virtual backend  *)
(* no length, also while flushes wait forever and handlers of discards     *)
(* have been lost, and whichever allocations fail.                         *)
EveryServedRequestEnds ==
  \A r \in Rqs :
    /\ pc[r] = "queued"
    /\ rq[r].op \in {"read", "write", "drv", "zeroes"} \/ (rq[r].op = "flush" /\ backend = "virtual")
    ~> pc[r] = "ended"

(* A read or write that is answered without an error was transferred       *)
(* whole.                                                                  *)
OkMeansWhole ==
  \A r \in Rqs : /\ pc[r] = "ended" /\ status[r] = "ok"
                  /\ rq[r].op \in {"read", "write"}
                  => moved[r] = Len512(r)

(* Two requests that name the same sector of the disk reach it at the same *)
(* address of the medium.                                                  *)
OneAddressPerSector ==
  \A q, r \in Rqs, s \in 0 .. (DiskSectors - 1) :
    LET Names(x) == /\ pc[x] \in {"memcpy", "bio"}
                    /\ rq[x].sector =< s /\ s < rq[x].sector + Len512(x)
        Address(x) == pos[x] + (s - rq[x].sector) IN
    Names(q) /\ Names(r) => Address(q) = Address(r)

(* No request of a kind the driver declares to the block layer is answered *)
(* "not supported".                                                        *)
DeclaredOpsServed == \A r \in Rqs : pc[r] = "ended" => status[r] # "notsupp"

(* The disk the requests of the block layer see: it is the medium, a read  *)
(* in flight has found what is in the context's page.                      *)
DiskState ==
  [r \in Rqs |-> CASE pc[r] = "free" -> "free"
                   [] pc[r] = "ended" /\ status[r] = "ok" -> "ok"
                   [] pc[r] = "ended" /\ status[r] # "ok" -> "ioerr"
                   [] OTHER -> "active"]
DiskReq ==
  [r \in Rqs |-> [op |-> rq[r].op, sector |-> rq[r].sector, len |-> Len512(r),
                  data |-> rq[r].data]]
DiskMoved == [r \in Rqs |-> 0 .. (moved[r] - 1)]
DiskGot ==
  [r \in Rqs |-> IF pc[r] = "bio" /\ rq[r].op = "read" THEN page[r] ELSE buf[r]]

Disk == INSTANCE UringblkDisk WITH
  Sectors <- Addresses, disk <- store, state <- DiskState, req <- DiskReq,
  moved <- DiskMoved, got <- DiskGot

(* With logical blocks of one sector, and for the device backend segments  *)
(* of at most a page, uringblk_queue_rq is a disk: a request answered      *)
(* "ok" took effect on every sector it names, at that sector.              *)
ImplementsDisk == Disk!Spec
=============================================================================
