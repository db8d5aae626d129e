---------------------------- MODULE KdbCacheInv -----------------------------
(***************************************************************************)
(* The inductive invariant of KdbCache: what else holds in every reachable *)
(* state and makes the safety properties of KdbCache inductive.            *)
(***************************************************************************)
EXTENDS KdbCache

(* The contexts that threads use are allocated and have a valid layout;    *)
(* no two areas share one.                                                 *)
CtxInv ==
  /\ layout # NULL => ValidLayout(layout)
  /\ \A c \in Allocated : ValidLayout(ctxLayout[c])
  /\ \A c \in Ctxs \ Allocated : hash[c] = {}
  /\ \A v \in Mapped : vmaCtx[v] \in Allocated
  /\ \A v, w \in Mapped : vmaCtx[v] = vmaCtx[w] => v = w
  /\ \A v \in Vmas \ Mapped :
       /\ vmaOffs[v] = {}
       /\ \A o \in PgOffs : pte[v][o] = NULL
       /\ pteWritable[v] = {}
  /\ \A t \in Threads :
       /\ pc[t] = "idle" => area[t] = NULL /\ lp[t] = NULL /\ pg[t] = NULL
       /\ pc[t] # "idle" => area[t] \in Mapped /\ off[t] \in PgOffs

(* Where a thread has a logical page, and where it has a page.             *)
LocalOK(t) ==
  /\ pc[t] \in Holding <=> lp[t] # NULL
  /\ pc[t] \in {"cpcount", "store"} \cup (WithPage \ {"put"}) => pg[t] # NULL
  /\ pg[t] # NULL => pc[t] \in {"cpcount", "store"} \cup WithPage
  /\ pc[t] \in MkwritePcs => kind[t] \in {"write", "wp"}
LocalInv == \A t \in Threads : LocalOK(t)

(* A logical page is linked in one context, under one number; a thread     *)
(* about to insert one is the only one to know of it; a thread that has    *)
(* found one works on the linked one of its offset.                        *)
LpOK(t) ==
  /\ pc[t] = "insert" =>
       /\ lp[t] \in lpLive
       /\ lpn[lp[t]] = MyLpn(t)
       /\ \A c \in Ctxs : lp[t] \notin hash[c]
       /\ \A u \in Threads : u # t => lp[u] # lp[t]
  /\ pc[t] \in Holding \ {"insert"} =>
       lp[t] \in hash[MyCtx(t)] /\ lpn[lp[t]] = MyLpn(t)

LpInv ==
  /\ \A c \in Ctxs : hash[c] \subseteq lpLive
  /\ \A c, d \in Ctxs : \A l \in Lps : l \in hash[c] /\ l \in hash[d] => c = d
  /\ OneLpPerLpn
  /\ \A t \in Threads : LpOK(t)

(* A logical page is locked by the one thread that is in its critical      *)
(* section; a slot that is about to be filled is still empty.              *)
Locked == {"slot", "cpcount", "store"}
LockOK(t) ==
  /\ pc[t] \in Locked => lock[lp[t]] = t
  /\ pc[t] \in {"cpcount", "store"} => cp[lp[t]][MyCpi(t)] = NULL
LockInv == \A t \in Threads : LockOK(t)

(* The logical pages of an offset have page p in its slot.                 *)
HasPage(c, o, p) ==
  /\ Chain(c, LpnOf(ctxLayout[c], o)) # {}
  /\ \A l \in Chain(c, LpnOf(ctxLayout[c], o)) : cp[l][CpiOf(ctxLayout[c], o)] = p

PageInv ==
  /\ \A v \in Mapped, o \in PgOffs :
       pte[v][o] # NULL => HasPage(vmaCtx[v], o, pte[v][o])
  /\ \A t \in Threads :
       pc[t] \in WithPage /\ pg[t] # NULL => HasPage(MyCtx(t), off[t], pg[t])

(* A thread about to make a page writable has marked it.                   *)
DirtyInv ==
  /\ WritableIsDirty
  /\ \A v \in Mapped : \A o \in pteWritable[v] : pte[v][o] # NULL
  /\ \A t \in Threads :
       /\ pc[t] \in FaultPcs => kind[t] # "wp"
       /\ pc[t] \in {"mkput", "mkstat"} \/ (pc[t] = "map" /\ kind[t] # "read")
            => DirtyAt(MyCtx(t), off[t])

(* Whatever the threads and the users of the cache do, the contexts, the   *)
(* logical pages, their locks, the pages in flight and the dirty bits stay *)
(* related as above; every step of a handler of vma.c relies on it.        *)
IInv == TypeOK /\ CtxInv /\ LocalInv /\ LpInv /\ LockInv /\ PageInv /\ DirtyInv

(* A logical page that is about to be inserted has no page and no mark.    *)
NewInv ==
  \A t \in Threads : pc[t] = "insert" =>
    /\ dirty[lp[t]] = {}
    /\ \A i \in CpIdx : cp[lp[t]][i] = NULL

(* A page that a linked logical page has in one of its slots.              *)
Cached(p) == \E c \in Ctxs : \E l \in hash[c], i \in CpIdx : cp[l][i] = p

(* A page on its way from cp_pool_alloc to its slot is known to its thread *)
(* only and has the one reference of its allocation.                       *)
FreshInv ==
  \A t \in Threads : pc[t] \in {"cpcount", "store"} =>
    /\ ~Cached(pg[t])
    /\ pageRef[pg[t]] = 1
    /\ \A u \in Threads : pg[u] = pg[t] => u = t

(* With the references of the cached pages, what the frames of all slots   *)
(* being different rests on: the allocator hands out a frame again only    *)
(* when nobody has it.                                                     *)
FullInv == IInv /\ NewInv /\ FreshInv /\ PagesNotAliased /\ CachedPageRefs
=============================================================================
