------------------------------ MODULE KdbCache ------------------------------
(***************************************************************************)
(* The KDB page cache of the kernel module kdb: cp_pool.c (canonical       *)
(* pages), lp_state.c (logical pages and their hash table), vma.c (fault   *)
(* and page_mkwrite handlers) and the mmap and layout calls of chrdev.c.   *)
(*                                                                         *)
(* Threads fault concurrently on mapped areas.  A critical section of      *)
(* hash_lock or of kdb_dev.lock is one step: every access to what the lock *)
(* protects is made under it and nothing in it blocks on another thread.   *)
(* The lock of a logical page is a variable, since kdb_fault allocates     *)
(* while it holds it.  A call that is refused changes nothing and is a     *)
(* stuttering step.                                                        *)
(***************************************************************************)
EXTENDS Integers, FiniteSets

CONSTANTS
  Threads,     \* threads that fault
  Vmas,        \* mapped areas (struct vm_area_struct)
  Ctxs,        \* objects of vma_ctx_cache (struct vma_ctx)
  Lps,         \* objects of lp_state_cache (struct lp_state)
  Pages,       \* page frames of the kernel's allocator
  Layouts,     \* layouts passed to KDB_SET_LAYOUT, valid or not
  PgOffs,      \* page offsets of the device file
  PageSize,    \* bytes of a page frame
  U64,         \* number of values of a u64 (2^64 in the code)
  LP_CP_MAX,   \* most canonical pages in a logical page
  NULL

ASSUME LayoutsAssumption ==
  /\ Layouts \subseteq [cp_size : Nat, lp_size : Nat, n_lpn : Nat]
  /\ NULL \notin Layouts

ASSUME SizesAssumption ==
  /\ PgOffs \subseteq Nat
  /\ PageSize \in Nat \ {0}
  /\ U64 \in Nat \ {0}
  /\ LP_CP_MAX \in Nat \ {0}

ASSUME ObjectsAssumption ==
  /\ NULL \notin Threads
  /\ NULL \notin Vmas
  /\ NULL \notin Ctxs
  /\ NULL \notin Lps
  /\ NULL \notin Pages
  /\ IsFiniteSet(Lps)
  /\ IsFiniteSet(PgOffs)

ASSUME FiniteAssumption == IsFiniteSet(Threads) /\ IsFiniteSet(Vmas)

VARIABLES
  layout,         \* kdb_dev.layout; NULL while layout_set is false
  vmaCtx,         \* vm_private_data of an area; NULL when it is not mapped
  vmaOffs,        \* page offsets of the file an area maps
  pte,            \* page installed at an offset of an area, or NULL
  pteWritable,    \* offsets of an area whose page may be written
  ctxLayout,      \* layout of an allocated vma_ctx; NULL when it is free
  hash,           \* lp_hash of a vma_ctx: the logical pages linked in it
  totalCreated,   \* total_lp_created of a vma_ctx
  lpLive,         \* allocated lp_state objects
  lpn,            \* lpn of an lp_state
  cp,             \* canonical pages of an lp_state
  dirty,          \* dirty_bitmap of an lp_state, as the set of its bits
  refcount,       \* refcount of an lp_state
  lock,           \* owner of the lock of an lp_state, or NULL
  pageRef,        \* references to a page frame; 0 when it is free
  cpAllocated,    \* cp_allocated
  cpTotalAllocs,  \* cp_total_allocs
  cpTotalFrees,   \* cp_total_frees
  pc,             \* where a thread is in its fault
  area, off,      \* the area and the page offset it faults on
  kind,           \* read or write of an absent page, write to a read-only one
  lp, pg          \* the local variables lp and pg of kdb_fault

devVars  == <<layout>>
vmaVars  == <<vmaCtx, vmaOffs>>
pteVars  == <<pte, pteWritable>>
ctxVars  == <<ctxLayout, hash, totalCreated>>
lpVars   == <<lpLive, lpn, cp, dirty, refcount, lock>>
poolVars == <<cpAllocated, cpTotalAllocs, cpTotalFrees>>
reqVars  == <<area, off, kind>>
vars == <<devVars, vmaVars, pteVars, ctxVars, lpVars, pageRef, poolVars, pc,
          reqVars, lp, pg>>

CpIdx == 0 .. (LP_CP_MAX - 1)

Kinds == {"read", "write", "wp"}

(* Steps of kdb_fault, of kdb_page_mkwrite, and the kernel's last step.    *)
FaultPcs   == {"find", "alloc", "insert", "count", "lock", "slot", "cpcount",
               "store", "put", "stat"}
MkwritePcs == {"mkfind", "mkmark", "mkput", "mkstat"}
Pcs        == {"idle", "map"} \cup FaultPcs \cup MkwritePcs

TypeOK ==
  /\ layout \in Layouts \cup {NULL}
  /\ vmaCtx \in [Vmas -> Ctxs \cup {NULL}]
  /\ vmaOffs \in [Vmas -> SUBSET PgOffs]
  /\ pte \in [Vmas -> [PgOffs -> Pages \cup {NULL}]]
  /\ pteWritable \in [Vmas -> SUBSET PgOffs]
  /\ ctxLayout \in [Ctxs -> Layouts \cup {NULL}]
  /\ hash \in [Ctxs -> SUBSET Lps]
  /\ totalCreated \in [Ctxs -> Nat]
  /\ lpLive \in SUBSET Lps
  /\ lpn \in [Lps -> Nat]
  /\ cp \in [Lps -> [CpIdx -> Pages \cup {NULL}]]
  /\ dirty \in [Lps -> SUBSET CpIdx]
  /\ refcount \in [Lps -> Int]
  /\ lock \in [Lps -> Threads \cup {NULL}]
  /\ pageRef \in [Pages -> Int]
  /\ cpAllocated \in Int
  /\ cpTotalAllocs \in Int
  /\ cpTotalFrees \in Int
  /\ pc \in [Threads -> Pcs]
  /\ area \in [Threads -> Vmas \cup {NULL}]
  /\ off \in [Threads -> PgOffs \cup {0}]
  /\ kind \in [Threads -> Kinds]
  /\ lp \in [Threads -> Lps \cup {NULL}]
  /\ pg \in [Threads -> Pages \cup {NULL}]

Init ==
  /\ layout = NULL
  /\ vmaCtx = [v \in Vmas |-> NULL]
  /\ vmaOffs = [v \in Vmas |-> {}]
  /\ pte = [v \in Vmas |-> [o \in PgOffs |-> NULL]]
  /\ pteWritable = [v \in Vmas |-> {}]
  /\ ctxLayout = [c \in Ctxs |-> NULL]
  /\ hash = [c \in Ctxs |-> {}]
  /\ totalCreated = [c \in Ctxs |-> 0]
  /\ lpLive = {}
  /\ lpn = [l \in Lps |-> 0]
  /\ cp = [l \in Lps |-> [i \in CpIdx |-> NULL]]
  /\ dirty = [l \in Lps |-> {}]
  /\ refcount = [l \in Lps |-> 0]
  /\ lock = [l \in Lps |-> NULL]
  /\ pageRef = [p \in Pages |-> 0]
  /\ cpAllocated = 0
  /\ cpTotalAllocs = 0
  /\ cpTotalFrees = 0
  /\ pc = [t \in Threads |-> "idle"]
  /\ area = [t \in Threads |-> NULL]
  /\ off = [t \in Threads |-> 0]
  /\ kind = [t \in Threads |-> "read"]
  /\ lp = [t \in Threads |-> NULL]
  /\ pg = [t \in Threads |-> NULL]

-----------------------------------------------------------------------------
(* Addresses.                                                              *)

ValidLayout(L) ==
  /\ L.cp_size # 0 /\ L.lp_size # 0 /\ L.n_lpn # 0
  /\ L.lp_size % L.cp_size = 0
  /\ L.lp_size \div L.cp_size <= LP_CP_MAX

CpPerLp(L) == L.lp_size \div L.cp_size
LpnOf(L, o) == o \div CpPerLp(L)
CpiOf(L, o) == o % CpPerLp(L)

(* The context of the area a thread faults on, its logical page number and *)
(* its index in that logical page.                                         *)
MyCtx(t) == vmaCtx[area[t]]
MyLpn(t) == LpnOf(ctxLayout[MyCtx(t)], off[t])
MyCpi(t) == CpiOf(ctxLayout[MyCtx(t)], off[t])

(* What a walk of the hash chain of n can find.                            *)
Chain(c, n) == {l \in hash[c] : lpn[l] = n}

-----------------------------------------------------------------------------
(* chrdev.c                                                                *)

(* Mutant: SetLayout with the contexts reading the layout of the device.   *)
SetLayoutEverywhere(L) ==
  /\ ValidLayout(L)
  /\ layout' = L
  /\ ctxLayout' = [c \in Ctxs |-> IF ctxLayout[c] = NULL THEN NULL ELSE L]
  /\ UNCHANGED <<vmaVars, pteVars, hash, totalCreated, lpVars, pageRef, poolVars,
                 pc, reqVars, lp, pg>>

(* KDB_SET_LAYOUT, at any time; a mapping made before keeps the layout its *)
(* context was created with.                                               *)
SetLayout(L) ==
  /\ ValidLayout(L)
  /\ layout' = L
  /\ UNCHANGED <<vmaVars, pteVars, ctxVars, lpVars, pageRef, poolVars, pc,
                 reqVars, lp, pg>>

(* The bytes the layout describes; the product is a u64.                   *)
TotalSize(L) == (L.n_lpn * L.lp_size) % U64

(* mmap of the pages first .. last of the file.  The offset of the mapping *)
(* is not examined.                                                        *)
Mmap(v, first, last) ==
  /\ vmaCtx[v] = NULL
  /\ first <= last
  /\ layout # NULL
  /\ (last - first + 1) * PageSize <= TotalSize(layout)
  /\ \E c \in Ctxs :
       /\ ctxLayout[c] = NULL
       /\ ctxLayout' = [ctxLayout EXCEPT ![c] = layout]
       /\ hash' = [hash EXCEPT ![c] = {}]
       /\ totalCreated' = [totalCreated EXCEPT ![c] = 0]
       /\ vmaCtx' = [vmaCtx EXCEPT ![v] = c]
  /\ vmaOffs' = [vmaOffs EXCEPT ![v] = {o \in PgOffs : first <= o /\ o <= last}]
  /\ UNCHANGED <<devVars, pteVars, lpVars, pageRef, poolVars, pc, reqVars,
                 lp, pg>>

(* munmap of a whole area.  The kernel drops the installed pages, then     *)
(* calls kdb_vma_close; it keeps the faults of the area out meanwhile.     *)
(* vma_ctx_destroy adjusts the counters and frees the logical pages and    *)
(* the context; it puts no page.                                           *)
Installed(v, p) == {o \in PgOffs : pte[v][o] = p}
(* Mutant: Filled with the loop over the pages starting at 1.              *)
FilledFromOne(c) == {s \in hash[c] \X (CpIdx \ {0}) : cp[s[1]][s[2]] # NULL}

Filled(c) == {s \in hash[c] \X CpIdx : cp[s[1]][s[2]] # NULL}

Munmap(v) ==
  /\ vmaCtx[v] # NULL
  /\ \A t \in Threads : area[t] # v
  /\ LET c == vmaCtx[v] IN
       /\ cpAllocated' = cpAllocated - Cardinality(Filled(c))
       /\ cpTotalFrees' = cpTotalFrees + Cardinality(Filled(c))
       /\ lpLive' = lpLive \ hash[c]
       /\ ctxLayout' = [ctxLayout EXCEPT ![c] = NULL]
       /\ hash' = [hash EXCEPT ![c] = {}]
  /\ pageRef' = [p \in Pages |-> pageRef[p] - Cardinality(Installed(v, p))]
  /\ pte' = [pte EXCEPT ![v] = [o \in PgOffs |-> NULL]]
  /\ pteWritable' = [pteWritable EXCEPT ![v] = {}]
  /\ vmaCtx' = [vmaCtx EXCEPT ![v] = NULL]
  /\ vmaOffs' = [vmaOffs EXCEPT ![v] = {}]
  /\ UNCHANGED <<devVars, totalCreated, lpn, cp, dirty, refcount, lock,
                 cpTotalAllocs, pc, reqVars, lp, pg>>

-----------------------------------------------------------------------------
(* vma.c: kdb_fault, with lp_get_or_create of lp_state.c and cp_pool_alloc *)
(* of cp_pool.c in line.                                                   *)

Goto(t, label) == pc' = [pc EXCEPT ![t] = label]

(* The fault of t is over: its request and its local variables are gone.   *)
Return(t) ==
  /\ Goto(t, "idle")
  /\ area' = [area EXCEPT ![t] = NULL]
  /\ off' = [off EXCEPT ![t] = 0]
  /\ kind' = [kind EXCEPT ![t] = "read"]
  /\ lp' = [lp EXCEPT ![t] = NULL]
  /\ pg' = [pg EXCEPT ![t] = NULL]

Request(t, v, o, k) ==
  /\ area' = [area EXCEPT ![t] = v]
  /\ off' = [off EXCEPT ![t] = o]
  /\ kind' = [kind EXCEPT ![t] = k]

InRange(L, o) == LpnOf(L, o) < L.n_lpn

(* The kernel calls the fault handler for a page that is not installed.    *)
FaultBegin(t, v, o, k) ==
  /\ pc[t] = "idle"
  /\ o \in vmaOffs[v] /\ pte[v][o] = NULL
  /\ InRange(ctxLayout[vmaCtx[v]], o)
  /\ Request(t, v, o, k)
  /\ Goto(t, "find")
  /\ UNCHANGED <<devVars, vmaVars, pteVars, ctxVars, lpVars, pageRef, poolVars,
                 lp, pg>>

(* A logical page found under hash_lock is returned with a reference.      *)
Hold(t, l, label) ==
  /\ lp' = [lp EXCEPT ![t] = l]
  /\ refcount' = [refcount EXCEPT ![l] = @ + 1]
  /\ Goto(t, label)

LpFind(t) ==
  /\ pc[t] = "find"
  /\ \E l \in Chain(MyCtx(t), MyLpn(t)) : Hold(t, l, "lock")
  /\ UNCHANGED <<devVars, vmaVars, pteVars, ctxVars, lpLive, lpn, cp, dirty,
                 lock, pageRef, poolVars, reqVars, pg>>

LpMiss(t) ==
  /\ pc[t] = "find"
  /\ Chain(MyCtx(t), MyLpn(t)) = {}
  /\ Goto(t, "alloc")
  /\ UNCHANGED <<devVars, vmaVars, pteVars, ctxVars, lpVars, pageRef, poolVars,
                 reqVars, lp, pg>>

(* Mutant: LpAlloc with a bitmap that is not zeroed.                       *)
LpAllocKeepsBits(t) ==
  /\ pc[t] = "alloc"
  /\ \E l \in Lps \ lpLive :
       /\ lpLive' = lpLive \cup {l}
       /\ lpn' = [lpn EXCEPT ![l] = MyLpn(t)]
       /\ cp' = [cp EXCEPT ![l] = [i \in CpIdx |-> NULL]]
       /\ refcount' = [refcount EXCEPT ![l] = 1]
       /\ lock' = [lock EXCEPT ![l] = NULL]
       /\ lp' = [lp EXCEPT ![t] = l]
  /\ Goto(t, "insert")
  /\ UNCHANGED <<devVars, vmaVars, pteVars, ctxVars, dirty, pageRef, poolVars,
                 reqVars, pg>>

(* The three allocations of a new lp_state, made outside hash_lock.        *)
LpAlloc(t) ==
  /\ pc[t] = "alloc"
  /\ \E l \in Lps \ lpLive :
       /\ lpLive' = lpLive \cup {l}
       /\ lpn' = [lpn EXCEPT ![l] = MyLpn(t)]
       /\ cp' = [cp EXCEPT ![l] = [i \in CpIdx |-> NULL]]
       /\ dirty' = [dirty EXCEPT ![l] = {}]
       /\ refcount' = [refcount EXCEPT ![l] = 1]
       /\ lock' = [lock EXCEPT ![l] = NULL]
       /\ lp' = [lp EXCEPT ![t] = l]
  /\ Goto(t, "insert")
  /\ UNCHANGED <<devVars, vmaVars, pteVars, ctxVars, pageRef, poolVars,
                 reqVars, pg>>

(* Mutant: LpAllocFail with the NULL of lp_get_or_create not looked at.    *)
LpAllocFailIgnored(t) ==
  /\ pc[t] = "alloc"
  /\ Goto(t, "stat")
  /\ UNCHANGED <<devVars, vmaVars, pteVars, ctxVars, lpVars, pageRef, poolVars,
                 reqVars, lp, pg>>

(* One of them fails: VM_FAULT_OOM.                                        *)
LpAllocFail(t) ==
  /\ pc[t] = "alloc"
  /\ Return(t)
  /\ UNCHANGED <<devVars, vmaVars, pteVars, ctxVars, lpVars, pageRef, poolVars>>

(* Mutant: LpInsert without the second look.                               *)
LpInsertUnchecked(t) ==
  /\ pc[t] = "insert"
  /\ hash' = [hash EXCEPT ![MyCtx(t)] = @ \cup {lp[t]}]
  /\ Goto(t, "count")
  /\ UNCHANGED <<devVars, vmaVars, pteVars, ctxLayout, totalCreated, lpVars,
                 pageRef, poolVars, reqVars, lp, pg>>

(* The second look under hash_lock.  The winner of the race links its      *)
(* object; a loser frees its own and holds the winner's.                   *)
LpInsert(t) ==
  /\ pc[t] = "insert"
  /\ Chain(MyCtx(t), MyLpn(t)) = {}
  /\ hash' = [hash EXCEPT ![MyCtx(t)] = @ \cup {lp[t]}]
  /\ Goto(t, "count")
  /\ UNCHANGED <<devVars, vmaVars, pteVars, ctxLayout, totalCreated, lpVars,
                 pageRef, poolVars, reqVars, lp, pg>>

(* Mutant: LpInsertLost where the loser goes on with the object it freed.  *)
LpInsertLostUses(t) ==
  /\ pc[t] = "insert"
  /\ Chain(MyCtx(t), MyLpn(t)) # {}
  /\ Goto(t, "lock")
  /\ lpLive' = lpLive \ {lp[t]}
  /\ UNCHANGED <<devVars, vmaVars, pteVars, ctxVars, lpn, cp, dirty, refcount,
                 lock, pageRef, poolVars, reqVars, lp, pg>>

LpInsertLost(t) ==
  /\ pc[t] = "insert"
  /\ \E l \in Chain(MyCtx(t), MyLpn(t)) : Hold(t, l, "lock")
  /\ lpLive' = lpLive \ {lp[t]}
  /\ UNCHANGED <<devVars, vmaVars, pteVars, ctxVars, lpn, cp, dirty, lock,
                 pageRef, poolVars, reqVars, pg>>

(* Mutant: LpCount with a decrement.                                       *)
LpCountDown(t) ==
  /\ pc[t] = "count"
  /\ totalCreated' = [totalCreated EXCEPT ![MyCtx(t)] = @ - 1]
  /\ Goto(t, "lock")
  /\ UNCHANGED <<devVars, vmaVars, pteVars, ctxLayout, hash, lpVars, pageRef,
                 poolVars, reqVars, lp, pg>>

LpCount(t) ==
  /\ pc[t] = "count"
  /\ totalCreated' = [totalCreated EXCEPT ![MyCtx(t)] = @ + 1]
  /\ Goto(t, "lock")
  /\ UNCHANGED <<devVars, vmaVars, pteVars, ctxLayout, hash, lpVars, pageRef,
                 poolVars, reqVars, lp, pg>>

(* Mutant: LpLock without waiting for the lock.                            *)
LpLockNoWait(t) ==
  /\ pc[t] = "lock"
  /\ lock' = [lock EXCEPT ![lp[t]] = t]
  /\ Goto(t, "slot")
  /\ UNCHANGED <<devVars, vmaVars, pteVars, ctxVars, lpLive, lpn, cp, dirty,
                 refcount, pageRef, poolVars, reqVars, lp, pg>>

LpLock(t) ==
  /\ pc[t] = "lock"
  /\ lock[lp[t]] = NULL
  /\ lock' = [lock EXCEPT ![lp[t]] = t]
  /\ Goto(t, "slot")
  /\ UNCHANGED <<devVars, vmaVars, pteVars, ctxVars, lpLive, lpn, cp, dirty,
                 refcount, pageRef, poolVars, reqVars, lp, pg>>

Unlock(t) == lock' = [lock EXCEPT ![lp[t]] = NULL]

(* Mutant: CpHit without get_page.                                         *)
CpHitNoGet(t) ==
  /\ pc[t] = "slot"
  /\ cp[lp[t]][MyCpi(t)] # NULL
  /\ pg' = [pg EXCEPT ![t] = cp[lp[t]][MyCpi(t)]]
  /\ Unlock(t)
  /\ Goto(t, "put")
  /\ UNCHANGED <<devVars, vmaVars, pteVars, ctxVars, lpLive, lpn, cp, dirty,
                 refcount, pageRef, poolVars, reqVars, lp>>

(* The canonical page is there: take a reference for the area.             *)
CpHit(t) ==
  /\ pc[t] = "slot"
  /\ cp[lp[t]][MyCpi(t)] # NULL
  /\ pg' = [pg EXCEPT ![t] = cp[lp[t]][MyCpi(t)]]
  /\ pageRef' = [pageRef EXCEPT ![cp[lp[t]][MyCpi(t)]] = @ + 1]
  /\ Unlock(t)
  /\ Goto(t, "put")
  /\ UNCHANGED <<devVars, vmaVars, pteVars, ctxVars, lpLive, lpn, cp, dirty,
                 refcount, poolVars, reqVars, lp>>

(* It is not: cp_pool_alloc takes a page frame, or fails.                  *)
CpAlloc(t) ==
  /\ pc[t] = "slot"
  /\ cp[lp[t]][MyCpi(t)] = NULL
  /\ \E p \in Pages :
       /\ pageRef[p] = 0
       /\ pageRef' = [pageRef EXCEPT ![p] = 1]
       /\ pg' = [pg EXCEPT ![t] = p]
  /\ Goto(t, "cpcount")
  /\ UNCHANGED <<devVars, vmaVars, pteVars, ctxVars, lpVars, poolVars, reqVars,
                 lp>>

(* Mutant: CpAllocFail without the unlock.                                 *)
CpAllocFailLocked(t) ==
  /\ pc[t] = "slot"
  /\ cp[lp[t]][MyCpi(t)] = NULL
  /\ Goto(t, "put")
  /\ UNCHANGED <<devVars, vmaVars, pteVars, ctxVars, lpVars, pageRef, poolVars,
                 reqVars, lp, pg>>

CpAllocFail(t) ==
  /\ pc[t] = "slot"
  /\ cp[lp[t]][MyCpi(t)] = NULL
  /\ Unlock(t)
  /\ Goto(t, "put")
  /\ UNCHANGED <<devVars, vmaVars, pteVars, ctxVars, lpLive, lpn, cp, dirty,
                 refcount, pageRef, poolVars, reqVars, lp, pg>>

CpCount(t) ==
  /\ pc[t] = "cpcount"
  /\ cpAllocated' = cpAllocated + 1
  /\ cpTotalAllocs' = cpTotalAllocs + 1
  /\ Goto(t, "store")
  /\ UNCHANGED <<devVars, vmaVars, pteVars, ctxVars, lpVars, pageRef,
                 cpTotalFrees, reqVars, lp, pg>>

(* Mutant: CpStore into all slots of the logical page.                     *)
CpStoreEverywhere(t) ==
  /\ pc[t] = "store"
  /\ cp' = [cp EXCEPT ![lp[t]] = [i \in CpIdx |-> pg[t]]]
  /\ pageRef' = [pageRef EXCEPT ![pg[t]] = @ + 1]
  /\ Unlock(t)
  /\ Goto(t, "put")
  /\ UNCHANGED <<devVars, vmaVars, pteVars, ctxVars, lpLive, lpn, dirty,
                 refcount, poolVars, reqVars, lp, pg>>

CpStore(t) ==
  /\ pc[t] = "store"
  /\ cp' = [cp EXCEPT ![lp[t]] = [@ EXCEPT ![MyCpi(t)] = pg[t]]]
  /\ pageRef' = [pageRef EXCEPT ![pg[t]] = @ + 1]
  /\ Unlock(t)
  /\ Goto(t, "put")
  /\ UNCHANGED <<devVars, vmaVars, pteVars, ctxVars, lpLive, lpn, dirty,
                 refcount, poolVars, reqVars, lp, pg>>

(* lp_put; after a failed page allocation the fault returns VM_FAULT_OOM.  *)
LpPut(t) ==
  /\ pc[t] = "put" /\ pg[t] # NULL
  /\ refcount' = [refcount EXCEPT ![lp[t]] = @ - 1]
  /\ lp' = [lp EXCEPT ![t] = NULL]
  /\ Goto(t, "stat")
  /\ UNCHANGED <<devVars, vmaVars, pteVars, ctxVars, lpLive, lpn, cp, dirty,
                 lock, pageRef, poolVars, reqVars, pg>>

(* Mutant: LpPutFail returning without lp_put.                             *)
LpPutFailKeeps(t) ==
  /\ pc[t] = "put" /\ pg[t] = NULL
  /\ Return(t)
  /\ UNCHANGED <<devVars, vmaVars, pteVars, ctxVars, lpVars, pageRef, poolVars>>

LpPutFail(t) ==
  /\ pc[t] = "put" /\ pg[t] = NULL
  /\ refcount' = [refcount EXCEPT ![lp[t]] = @ - 1]
  /\ Return(t)
  /\ UNCHANGED <<devVars, vmaVars, pteVars, ctxVars, lpLive, lpn, cp, dirty,
                 lock, pageRef, poolVars>>

(* total_faults, read by nothing, is counted in the context and the page   *)
(* is returned to the kernel, which calls page_mkwrite for a write.  The   *)
(* handler says VM_FAULT_LOCKED but has not locked the page, so no page    *)
(* lock orders the two handlers here; the kernel's unlock_page of a page   *)
(* nobody locked clears a bit that nothing in this model reads.            *)
FaultEnd(t) ==
  /\ pc[t] = "stat"
  /\ Goto(t, IF kind[t] = "write" THEN "mkfind" ELSE "map")
  /\ UNCHANGED <<devVars, vmaVars, pteVars, ctxVars, lpVars, pageRef, poolVars,
                 reqVars, lp, pg>>

-----------------------------------------------------------------------------
(* vma.c: kdb_page_mkwrite, and the kernel around the two handlers.        *)

(* The kernel also calls page_mkwrite for a write to a page installed      *)
(* read-only; it holds a reference to the page for the call.               *)
WpBegin(t, v, o) ==
  /\ pc[t] = "idle"
  /\ o \in vmaOffs[v] /\ pte[v][o] # NULL /\ o \notin pteWritable[v]
  /\ InRange(ctxLayout[vmaCtx[v]], o)
  /\ Request(t, v, o, "wp")
  /\ pg' = [pg EXCEPT ![t] = pte[v][o]]
  /\ pageRef' = [pageRef EXCEPT ![pte[v][o]] = @ + 1]
  /\ Goto(t, "mkfind")
  /\ UNCHANGED <<devVars, vmaVars, pteVars, ctxVars, lpVars, poolVars, lp>>

(* lp_lookup; without a logical page the handler returns VM_FAULT_SIGBUS   *)
(* and the kernel drops the page.                                          *)
MkFind(t) ==
  /\ pc[t] = "mkfind"
  /\ IF Chain(MyCtx(t), MyLpn(t)) # {}
     THEN /\ \E l \in Chain(MyCtx(t), MyLpn(t)) : Hold(t, l, "mkmark")
          /\ UNCHANGED <<pageRef, reqVars, pg>>
     ELSE /\ pageRef' = [pageRef EXCEPT ![pg[t]] = @ - 1]
          /\ Return(t)
          /\ UNCHANGED refcount
  /\ UNCHANGED <<devVars, vmaVars, pteVars, ctxVars, lpLive, lpn, cp, dirty,
                 lock, poolVars>>

(* Mutant: MkMark without set_bit.                                         *)
MkMarkNothing(t) ==
  /\ pc[t] = "mkmark"
  /\ lock[lp[t]] = NULL
  /\ dirty' = [dirty EXCEPT ![lp[t]] = @]
  /\ Goto(t, "mkput")
  /\ UNCHANGED <<devVars, vmaVars, pteVars, ctxVars, lpLive, lpn, cp, refcount,
                 lock, pageRef, poolVars, reqVars, lp, pg>>

(* Mutant: MkMark with an assignment of the bitmap for set_bit.            *)
MkMarkAssigns(t) ==
  /\ pc[t] = "mkmark"
  /\ lock[lp[t]] = NULL
  /\ dirty' = [dirty EXCEPT ![lp[t]] = {MyCpi(t)}]
  /\ Goto(t, "mkput")
  /\ UNCHANGED <<devVars, vmaVars, pteVars, ctxVars, lpLive, lpn, cp, refcount,
                 lock, pageRef, poolVars, reqVars, lp, pg>>

(* Mutant: MkMark for the whole logical page.                              *)
MkMarkWhole(t) ==
  /\ pc[t] = "mkmark"
  /\ lock[lp[t]] = NULL
  /\ dirty' = [dirty EXCEPT ![lp[t]] = CpIdx]
  /\ Goto(t, "mkput")
  /\ UNCHANGED <<devVars, vmaVars, pteVars, ctxVars, lpLive, lpn, cp, refcount,
                 lock, pageRef, poolVars, reqVars, lp, pg>>

(* set_bit under the lock of the logical page.                             *)
MkMark(t) ==
  /\ pc[t] = "mkmark"
  /\ lock[lp[t]] = NULL
  /\ dirty' = [dirty EXCEPT ![lp[t]] = @ \cup {MyCpi(t)}]
  /\ Goto(t, "mkput")
  /\ UNCHANGED <<devVars, vmaVars, pteVars, ctxVars, lpLive, lpn, cp, refcount,
                 lock, pageRef, poolVars, reqVars, lp, pg>>

MkPut(t) ==
  /\ pc[t] = "mkput"
  /\ refcount' = [refcount EXCEPT ![lp[t]] = @ - 1]
  /\ lp' = [lp EXCEPT ![t] = NULL]
  /\ Goto(t, "mkstat")
  /\ UNCHANGED <<devVars, vmaVars, pteVars, ctxVars, lpLive, lpn, cp, dirty,
                 lock, pageRef, poolVars, reqVars, pg>>

(* total_mkwrite, read by nothing, is counted in the context; again        *)
(* VM_FAULT_LOCKED without the lock.                                       *)
MkEnd(t) ==
  /\ pc[t] = "mkstat"
  /\ Goto(t, "map")
  /\ UNCHANGED <<devVars, vmaVars, pteVars, ctxVars, lpVars, pageRef, poolVars,
                 reqVars, lp, pg>>

(* The kernel installs the page, with its reference, unless one has been   *)
(* installed meanwhile; then it drops the reference.  A write to a page    *)
(* that was read-only makes it writable.                                   *)
MapPage(t) ==
  /\ pc[t] = "map"
  /\ pte[area[t]][off[t]] = NULL
  /\ pte' = [pte EXCEPT ![area[t]] = [@ EXCEPT ![off[t]] = pg[t]]]
  /\ pteWritable' = [pteWritable EXCEPT ![area[t]] =
                       IF kind[t] = "write" THEN @ \cup {off[t]} ELSE @]
  /\ Return(t)
  /\ UNCHANGED <<devVars, vmaVars, ctxVars, lpVars, pageRef, poolVars>>

MapPresent(t) ==
  /\ pc[t] = "map"
  /\ pte[area[t]][off[t]] # NULL
  /\ pageRef' = [pageRef EXCEPT ![pg[t]] = @ - 1]
  /\ pteWritable' = [pteWritable EXCEPT ![area[t]] =
                       IF kind[t] = "wp" THEN @ \cup {off[t]} ELSE @]
  /\ Return(t)
  /\ UNCHANGED <<devVars, vmaVars, pte, ctxVars, lpVars, poolVars>>

-----------------------------------------------------------------------------
(* The specification.                                                      *)

Begin(t) ==
  \E v \in Vmas, o \in PgOffs :
    \/ \E k \in {"read", "write"} : FaultBegin(t, v, o, k)
    \/ WpBegin(t, v, o)

Step(t) ==
  \/ LpFind(t) \/ LpMiss(t) \/ LpAlloc(t) \/ LpAllocFail(t)
  \/ LpInsert(t) \/ LpInsertLost(t) \/ LpCount(t)
  \/ LpLock(t) \/ CpHit(t) \/ CpAlloc(t) \/ CpAllocFail(t) \/ CpCount(t)
  \/ CpStore(t) \/ LpPut(t) \/ LpPutFail(t) \/ FaultEnd(t)
  \/ MkFind(t) \/ MkMark(t) \/ MkPut(t) \/ MkEnd(t)
  \/ MapPage(t) \/ MapPresent(t)

User ==
  \/ \E L \in Layouts : SetLayout(L)
  \/ \E v \in Vmas, first, last \in PgOffs : Mmap(v, first, last)
  \/ \E v \in Vmas : Munmap(v)

Next == User \/ \E t \in Threads : Begin(t) \/ Step(t)

Spec == Init /\ [][Next]_vars

(* A thread that holds the lock of a logical page while cp_pool_alloc is   *)
(* in alloc_page(GFP_KERNEL), which may sleep.                             *)
Allocating(t) == pc[t] = "slot" /\ cp[lp[t]][MyCpi(t)] = NULL

(* A thread in the kernel runs on, and a spinlock is handed over in the    *)
(* order of arrival, so a waiter is not passed over forever.  Nothing is   *)
(* promised of alloc_page: its caller sleeps with the spinlock held, and   *)
(* the waiters spin on the processors it would need to run again.          *)
Fairness ==
  \A t \in Threads :
    /\ WF_vars(Step(t) /\ ~Allocating(t))
    /\ SF_vars(LpLock(t))
    /\ SF_vars(MkMark(t))

-----------------------------------------------------------------------------
(* Properties.                                                             *)

Holding == {"insert", "count", "lock", "slot", "cpcount", "store", "put",
            "mkmark", "mkput"}
WithPage == {"put", "stat", "mkfind", "mkmark", "mkput", "mkstat", "map"}

Mapped == {v \in Vmas : vmaCtx[v] # NULL}
Allocated == {c \in Ctxs : ctxLayout[c] # NULL}

(* What the hash table of c has for page offset o: the canonical pages and *)
(* the dirty bits found through every logical page with that number.       *)
SlotAt(c, o) ==
  {cp[l][CpiOf(ctxLayout[c], o)] : l \in Chain(c, LpnOf(ctxLayout[c], o))}
DirtyAt(c, o) ==
  \A l \in Chain(c, LpnOf(ctxLayout[c], o)) :
    CpiOf(ctxLayout[c], o) \in dirty[l]

(* However the lookups, allocations and insertions of lp_get_or_create     *)
(* interleave, a context never links two logical pages with one number.    *)
OneLpPerLpn ==
  \A c \in Ctxs : \A k, l \in hash[c] : lpn[k] = lpn[l] => k = l

(* No handler touches freed memory: a mapped area has an allocated         *)
(* context, and a logical page that a thread still uses, or that a lookup  *)
(* can return, is allocated.                                               *)
NoUseAfterFree ==
  /\ \A v \in Mapped : vmaCtx[v] \in Allocated
  /\ \A t \in Threads : pc[t] \in Holding => lp[t] \in lpLive
  /\ \A c \in Ctxs : hash[c] \subseteq lpLive

(* Every page that kdb_fault hands out or the kernel has installed for an  *)
(* offset is the one canonical page the cache keeps for that offset, so    *)
(* all threads read and write the same memory.                             *)
OnePagePerOffset ==
  /\ \A v \in Mapped, o \in PgOffs :
       pte[v][o] # NULL => SlotAt(vmaCtx[v], o) = {pte[v][o]}
  /\ \A t \in Threads :
       pc[t] \in WithPage /\ pg[t] # NULL => SlotAt(MyCtx(t), off[t]) = {pg[t]}

(* A page frame backs at most one canonical page of all live mappings: two *)
(* faults never receive one frame for two slots.                           *)
PagesNotAliased ==
  \A c, d \in Ctxs : \A s \in Filled(c), r \in Filled(d) :
    cp[s[1]][s[2]] = cp[r[1]][r[2]] => s = r

(* kdb_page_mkwrite marks a page dirty before it can be written: a page    *)
(* that is installed writable has its dirty bit set.                       *)
WritableIsDirty ==
  \A v \in Mapped : \A o \in pteWritable[v] : DirtyAt(vmaCtx[v], o)

(* The refcount of a logical page is the number of threads that hold it,   *)
(* on every path through the handlers, the failing ones included.          *)
RefcountIsHolders ==
  \A l \in lpLive : refcount[l] = Cardinality({t \in Threads : lp[t] = l})

(* A cached page has the reference of its slot, one for each thread that   *)
(* carries it and one for each area it is installed in, so it is never     *)
(* freed while it is cached.                                               *)
CachedPageRefs ==
  \A c \in Ctxs : \A s \in Filled(c) :
    LET p == cp[s[1]][s[2]] IN
      pageRef[p] = 1 + Cardinality({t \in Threads : pg[t] = p})
                     + Cardinality({e \in Vmas \X PgOffs : pte[e[1]][e[2]] = p})

(* cp_allocated, which KDB_GET_STATS reports, is the number of canonical   *)
(* pages cached in live mappings and of those counted but not yet stored.  *)
AllocatedCountsCached ==
  cpAllocated =
    Cardinality({s \in Lps \X CpIdx :
                   /\ \E c \in Ctxs : s[1] \in hash[c]
                   /\ cp[s[1]][s[2]] # NULL})
    + Cardinality({t \in Threads : pc[t] = "store"})

(* kdb_page_mkwrite is called only for a page that kdb_fault returned, and *)
(* logical pages stay linked while their area is mapped, so its lookup     *)
(* never fails.                                                            *)
MkwriteFindsLp ==
  \A t \in Threads : pc[t] = "mkfind" => Chain(MyCtx(t), MyLpn(t)) # {}

(* The size test of kdb_mmap (in bytes, the product wrapping as a u64) and *)
(* the bound test of kdb_fault (in logical pages) agree: an area mapped    *)
(* from offset 0 never faults out of range if a canonical page is no       *)
(* larger than a page frame.                                               *)
AcceptedMappingInRange ==
  \A v \in Mapped :
    LET L == ctxLayout[vmaCtx[v]] IN
      0 \in vmaOffs[v] /\ L.cp_size <= PageSize
        => \A o \in vmaOffs[v] : InRange(L, o)

(* While a logical page stays linked, a canonical page it has is never     *)
(* replaced and a dirty bit never cleared, whatever the threads do.        *)
SlotsAreStable ==
  [][\A c \in Ctxs : \A l \in hash[c] \cap hash'[c], i \in CpIdx :
       /\ cp[l][i] # NULL => cp'[l][i] = cp[l][i]
       /\ i \in dirty[l] => i \in dirty'[l]]_vars

(* Every fault returns to the kernel and is finished, unless it or the     *)
(* thread it waits for is in alloc_page for ever: an allocation that kdb   *)
(* makes under lp->lock and that never comes back takes with it the faults *)
(* on its own logical page and no others.                                  *)
FaultReturns ==
  \A t \in Threads :
    <>[](pc[t] # "idle") =>
      \E u \in Threads : <>[](Allocating(u) /\ lp[u] = lp[t])

(* The table of KdbPageMap that the hash table of a mapped area stands     *)
(* for, and its dirty offsets.                                             *)
TableOf(v) ==
  [o \in PgOffs |->
     IF v \in Mapped /\ SlotAt(vmaCtx[v], o) # {}
     THEN CHOOSE p \in SlotAt(vmaCtx[v], o) : TRUE
     ELSE NULL]
DirtyOf(v) ==
  {o \in PgOffs : /\ v \in Mapped
                  /\ SlotAt(vmaCtx[v], o) # {}
                  /\ DirtyAt(vmaCtx[v], o)}

PageMap == INSTANCE KdbPageMap WITH
  mapped    <- Mapped,
  table     <- [v \in Vmas |-> TableOf(v)],
  dirtyOffs <- [v \in Vmas |-> DirtyOf(v)],
  view      <- pte,
  writable  <- pteWritable

(* The cache implements the page map: through all interleavings of the     *)
(* handlers, each step fills one offset once, marks one offset, installs   *)
(* the page of the table, maps or unmaps an area, or changes nothing a     *)
(* process can see.                                                        *)
ImplementsPageMap == PageMap!Spec

(* lp_put says of the count of a logical page reaching zero: "Should not   *)
(* happen - cleanup is done in vma_ctx_destroy".                           *)
LinkedLpHasReference ==
  \A c \in Ctxs : \A l \in hash[c] : refcount[l] > 0

(* cp_pool_stats describes its first result as the "Number of currently    *)
(* allocated pages".                                                       *)
AllocatedIsCurrent ==
  (\A t \in Threads : pc[t] = "idle")
    => cpAllocated = Cardinality({p \in Pages : pageRef[p] > 0})
=============================================================================
