------------------------ MODULE KdbCacheSteps_proofs ------------------------
(***************************************************************************)
(* What the steps of KdbCache change, their types, and the parts of its    *)
(* invariant that are about contexts, local variables, logical pages and   *)
(* their locks, canonical pages, dirty bits, the owners of allocated       *)
(* objects, the ranges of areas and what page tables map.  Each is kept by *)
(* the steps of a thread, by the start of a fault and by users' calls.     *)
(***************************************************************************)
EXTENDS KdbCacheInv, TLAPS

-----------------------------------------------------------------------------
(* Indices.                                                                *)

(* The index that kdb_fault computes is within the array of canonical      *)
(* pages when the layout is one that KDB_SET_LAYOUT accepts.               *)
LEMMA CpiInArray ==
  ASSUME NEW L \in Layouts, ValidLayout(L), NEW o \in Nat
  PROVE  CpiOf(L, o) \in CpIdx
<1> DEFINE n == CpPerLp(L)
<1>1. /\ L.cp_size \in Nat \ {0}
      /\ L.lp_size \in Nat \ {0}
      /\ L.lp_size % L.cp_size = 0
  BY Zenon, LayoutsAssumption DEF ValidLayout
<1>2. n \in Nat \ {0}
  BY <1>1 DEF CpPerLp
<1>3. n <= LP_CP_MAX
  BY Zenon DEF ValidLayout, CpPerLp
<1>4. o % n \in 0 .. (n - 1)
  BY <1>2
<1>5. QED
  BY <1>2, <1>3, <1>4, SizesAssumption DEF CpiOf, CpIdx

(* The logical page number that kdb_fault computes is a natural number.    *)
LEMMA LpnIsNat ==
  ASSUME NEW L \in Layouts, ValidLayout(L), NEW o \in Nat
  PROVE  LpnOf(L, o) \in Nat
<1>1. /\ L.cp_size \in Nat \ {0}
      /\ L.lp_size \in Nat \ {0}
      /\ L.lp_size % L.cp_size = 0
  BY Zenon, LayoutsAssumption DEF ValidLayout
<1>2. CpPerLp(L) \in Nat \ {0}
  BY <1>1 DEF CpPerLp
<1>3. QED
  BY <1>2 DEF LpnOf

-----------------------------------------------------------------------------
(* What the actions change.                                                *)

(* Which actions change the tables and the logical pages.                  *)
LEMMA StepEffect ==
  ASSUME NEW t \in Threads, Step(t)
  PROVE  /\ hash' = hash \/ LpInsert(t)
         /\ lpn' = lpn \/ LpAlloc(t)
         /\ cp' = cp \/ LpAlloc(t) \/ CpStore(t)
         /\ dirty' = dirty \/ LpAlloc(t) \/ MkMark(t)
         /\ \/ lock' = lock
            \/ LpAlloc(t) \/ LpLock(t) \/ CpHit(t) \/ CpAllocFail(t) \/ CpStore(t)
         /\ pte' = pte \/ MapPage(t)
         /\ pteWritable' = pteWritable \/ MapPage(t) \/ MapPresent(t)
         /\ pg' = pg \/ Return(t) \/ CpHit(t) \/ CpAlloc(t)
BY ZenonT(30) DEF ctxVars, lpVars, pteVars, Step, LpFind, LpMiss, LpAlloc, LpAllocFail,
     LpInsert,
         LpInsertLost, LpCount, LpLock, CpHit, CpAlloc, CpAllocFail, CpCount,
         CpStore, LpPut, LpPutFail, FaultEnd, MkFind, MkMark, MkPut, MkEnd,
         MapPage, MapPresent

(* Where a handler goes from where it is.                                  *)
Flow(t) ==
  \/ pc[t] = "find"    /\ pc'[t] \in {"lock", "alloc"}
  \/ pc[t] = "alloc"   /\ pc'[t] \in {"insert", "idle"}
  \/ pc[t] = "insert"  /\ pc'[t] \in {"count", "lock"}
  \/ pc[t] = "count"   /\ pc'[t] = "lock"
  \/ pc[t] = "lock"    /\ pc'[t] = "slot" /\ LpLock(t)
  \/ pc[t] = "slot"    /\ pc'[t] = "put" /\ (CpHit(t) \/ CpAllocFail(t))
  \/ pc[t] = "slot"    /\ pc'[t] = "cpcount" /\ CpAlloc(t)
  \/ pc[t] = "cpcount" /\ pc'[t] = "store" /\ CpCount(t)
  \/ pc[t] = "store"   /\ pc'[t] = "put" /\ CpStore(t)
  \/ pc[t] = "put"     /\ pc'[t] \in {"stat", "idle"}
  \/ pc[t] = "stat"    /\ pc'[t] = "mkfind" /\ kind[t] = "write"
  \/ pc[t] = "stat"    /\ pc'[t] = "map" /\ kind[t] # "write"
  \/ pc[t] = "mkfind"  /\ pc'[t] \in {"mkmark", "idle"}
  \/ pc[t] = "mkmark"  /\ pc'[t] = "mkput" /\ MkMark(t)
  \/ pc[t] = "mkput"   /\ pc'[t] = "mkstat"
  \/ pc[t] = "mkstat"  /\ pc'[t] = "map"
  \/ pc[t] = "map"     /\ pc'[t] = "idle"

(* The steps of a handler are taken in the order of the code.              *)
LEMMA StepFlow ==
  ASSUME pc \in [Threads -> Pcs], NEW t \in Threads, Step(t)
  PROVE  Flow(t)
<1> USE DEF Flow, Hold, Goto, Return
<1>1. CASE \/ LpFind(t) \/ LpMiss(t) \/ LpAlloc(t) \/ LpAllocFail(t) \/ LpInsert(t)
         \/ LpInsertLost(t) \/ LpCount(t)
  BY Zenon, <1>1 DEF LpFind, LpMiss, LpAlloc, LpAllocFail, LpInsert, LpInsertLost, LpCount
<1>2. CASE \/ LpLock(t) \/ CpHit(t) \/ CpAlloc(t) \/ CpAllocFail(t) \/ CpCount(t)
         \/ CpStore(t)
  <2>1. CASE LpLock(t)
    BY Zenon, <2>1 DEF LpLock
  <2>2. CASE CpHit(t)
    BY Zenon, <2>2 DEF CpHit
  <2>3. CASE CpAlloc(t)
    BY Zenon, <2>3 DEF CpAlloc
  <2>4. CASE CpAllocFail(t)
    BY Zenon, <2>4 DEF CpAllocFail
  <2>5. CASE CpCount(t)
    BY Zenon, <2>5 DEF CpCount
  <2>6. CASE CpStore(t)
    BY Zenon, <2>6 DEF CpStore
  <2>7. QED
    BY Zenon, <1>2, <2>1, <2>2, <2>3, <2>4, <2>5, <2>6
<1>3. CASE LpPut(t) \/ LpPutFail(t) \/ FaultEnd(t) \/ MkFind(t) \/ MkPut(t) \/ MkEnd(t)
  BY ZenonT(30), <1>3 DEF LpPut, LpPutFail, FaultEnd, MkFind, MkPut, MkEnd
<1>4. CASE MkMark(t)
  BY Zenon, <1>4 DEF MkMark
<1>5. CASE MapPage(t) \/ MapPresent(t)
  BY Zenon, <1>5 DEF MapPage, MapPresent
<1>6. QED
  BY Zenon, <1>1, <1>2, <1>3, <1>4, <1>5 DEF Step

(* What a thread in a handler computes from its area and its offset.       *)
LEMMA MyTypes ==
  ASSUME TypeOK, CtxInv, NEW t \in Threads, pc[t] # "idle"
  PROVE  /\ area[t] \in Vmas /\ area[t] \in Mapped
         /\ off[t] \in PgOffs /\ off[t] \in Nat
         /\ MyCtx(t) \in Ctxs /\ MyCtx(t) \in Allocated
         /\ MyLpn(t) \in Nat
         /\ MyCpi(t) \in CpIdx
<1>1. /\ area[t] \in Mapped
      /\ off[t] \in PgOffs
  BY Zenon DEF CtxInv
<1>2. area[t] \in Vmas /\ off[t] \in Nat
  BY Zenon, <1>1, SizesAssumption DEF Mapped
<1>3. MyCtx(t) \in Ctxs /\ MyCtx(t) \in Allocated
  BY Zenon, <1>1 DEF CtxInv, Allocated, MyCtx
<1>4. ctxLayout[MyCtx(t)] \in Layouts /\ ValidLayout(ctxLayout[MyCtx(t)])
  BY ZenonT(30), <1>3 DEF CtxInv, TypeOK, Allocated
<1>5. QED
  BY Zenon, <1>1, <1>2, <1>3, <1>4, LpnIsNat, CpiInArray DEF MyLpn, MyCpi

-----------------------------------------------------------------------------
(* What a step of thread t leaves alone.                                   *)

Quiet(u) ==
  /\ pc'[u] = pc[u] /\ area'[u] = area[u] /\ off'[u] = off[u]
  /\ kind'[u] = kind[u] /\ lp'[u] = lp[u] /\ pg'[u] = pg[u]

(* A step of one thread leaves the local variables of the others alone.    *)
LEMMA StepFrame ==
  ASSUME TypeOK, NEW t \in Threads, Step(t)
  PROVE  /\ UNCHANGED <<layout, vmaCtx, vmaOffs, ctxLayout>>
         /\ pc[t] # "idle"
         /\ \A u \in Threads \ {t} : Quiet(u)
         /\ \/ /\ pc'[t] = "idle" /\ area'[t] = NULL
               /\ lp'[t] = NULL /\ pg'[t] = NULL
            \/ /\ pc'[t] # "idle" /\ area'[t] = area[t] /\ off'[t] = off[t]
               /\ kind'[t] = kind[t]
<1>1. UNCHANGED <<layout, vmaCtx, vmaOffs, ctxLayout>> /\ pc[t] # "idle"
  BY Zenon DEF devVars, vmaVars, ctxVars, Step, LpFind, LpMiss, LpAlloc, LpAllocFail,
       LpInsert, LpInsertLost,
         LpCount, LpLock, CpHit, CpAlloc, CpAllocFail, CpCount,
         CpStore, LpPut, LpPutFail, FaultEnd, MkFind, MkMark,
         MkPut, MkEnd, MapPage, MapPresent
<1>2. \/ Return(t)
      \/ UNCHANGED reqVars /\ \E label \in Pcs \ {"idle"} : Goto(t, label)
  BY Zenon DEF Hold, Pcs, FaultPcs, MkwritePcs, Step, LpFind, LpMiss, LpAlloc, LpAllocFail,
       LpInsert, LpInsertLost,
         LpCount, LpLock, CpHit, CpAlloc, CpAllocFail, CpCount,
         CpStore, LpPut, LpPutFail, FaultEnd, MkFind, MkMark,
         MkPut, MkEnd, MapPage, MapPresent
<1>3. lp' = lp \/ \E x : lp' = [lp EXCEPT ![t] = x]
  BY Zenon DEF Hold, Return, Step, LpFind, LpMiss, LpAlloc, LpAllocFail, LpInsert,
       LpInsertLost,
         LpCount, LpLock, CpHit, CpAlloc, CpAllocFail, CpCount,
         CpStore, LpPut, LpPutFail, FaultEnd, MkFind, MkMark,
         MkPut, MkEnd, MapPage, MapPresent
<1>4. pg' = pg \/ \E x : pg' = [pg EXCEPT ![t] = x]
  BY Zenon, StepEffect DEF Return, CpHit, CpAlloc
<1>5. ASSUME NEW u \in Threads \ {t}
      PROVE  Quiet(u)
  <2>1. lp'[u] = lp[u] /\ pg'[u] = pg[u]
    BY Zenon, <1>3, <1>4 DEF TypeOK
  <2>2. pc'[u] = pc[u] /\ area'[u] = area[u] /\ off'[u] = off[u] /\ kind'[u] = kind[u]
    BY Zenon, <1>2 DEF TypeOK, Return, Goto, reqVars
  <2>3. QED
    BY Zenon, <2>1, <2>2 DEF Quiet
<1>6. \/ /\ pc'[t] = "idle" /\ area'[t] = NULL
         /\ lp'[t] = NULL /\ pg'[t] = NULL
      \/ /\ pc'[t] # "idle" /\ area'[t] = area[t] /\ off'[t] = off[t]
         /\ kind'[t] = kind[t]
  BY Zenon, <1>2 DEF TypeOK, Return, Goto, reqVars
<1>7. QED
  BY Zenon, <1>1, <1>5, <1>6

(* A step changes at most the hash table of its own context and the page   *)
(* table of its own area.                                                  *)
LEMMA StepTables ==
  ASSUME TypeOK, NEW t \in Threads, Step(t)
  PROVE  /\ hash' = hash \/ \E x : hash' = [hash EXCEPT ![MyCtx(t)] = x]
         /\ pte' = pte \/ \E x : pte' = [pte EXCEPT ![area[t]] = x]
         /\ \/ pteWritable' = pteWritable
            \/ \E x : pteWritable' = [pteWritable EXCEPT ![area[t]] = x]
BY Zenon, StepEffect DEF LpInsert, MapPage, MapPresent

(* A step that does not end the fault keeps what its thread computes from  *)
(* its request.                                                            *)
LEMMA StepMine ==
  ASSUME TypeOK, NEW t \in Threads, Step(t), NEW u \in Threads, pc'[u] # "idle"
  PROVE  MyCtx(u)' = MyCtx(u) /\ MyLpn(u)' = MyLpn(u) /\ MyCpi(u)' = MyCpi(u)
<1>1. /\ area'[u] = area[u] /\ off'[u] = off[u]
      /\ vmaCtx' = vmaCtx /\ ctxLayout' = ctxLayout
  BY Zenon, StepFrame DEF Quiet
<1>2. QED
  BY Zenon, <1>1 DEF MyCtx, MyLpn, MyCpi, LpnOf, CpiOf, CpPerLp

-----------------------------------------------------------------------------
(* Type correctness.                                                       *)

(* The type invariant holds when the module has been loaded.               *)
LEMMA TypeInit == Init => TypeOK
BY DEF Init, TypeOK, Pcs, Kinds

(* A fault that begins keeps the types.                                    *)
LEMMA TypeBegin ==
  ASSUME TypeOK, CtxInv, NEW t \in Threads, Begin(t)
  PROVE  TypeOK'
<1> USE DEF TypeOK, Pcs, Kinds, FaultPcs, MkwritePcs, Request, Goto,
            devVars, vmaVars, pteVars, ctxVars, lpVars, poolVars
<1>1. ASSUME NEW v \in Vmas, NEW o \in PgOffs, NEW k \in {"read", "write"},
             FaultBegin(t, v, o, k)
      PROVE  TypeOK'
  BY Zenon, <1>1 DEF FaultBegin
<1>2. ASSUME NEW v \in Vmas, NEW o \in PgOffs, WpBegin(t, v, o)
      PROVE  TypeOK'
  BY <1>2 DEF WpBegin
<1>3. QED
  BY ZenonT(30), <1>1, <1>2 DEF Begin

(* Every step of kdb_fault and kdb_page_mkwrite keeps the types.           *)
LEMMA TypeStep ==
  ASSUME TypeOK, CtxInv, LocalInv, NEW t \in Threads, Step(t)
  PROVE  TypeOK'
<1> USE DEF TypeOK, Pcs, Kinds, FaultPcs, MkwritePcs, Goto, Return, Hold,
            Unlock, devVars, vmaVars, pteVars, ctxVars, lpVars, poolVars,
            reqVars
<1>a. pc[t] # "idle" /\ (pc[t] \in Holding => lp[t] \in Lps)
  BY ZenonT(30), StepFlow DEF LocalInv, LocalOK, Flow, TypeOK
<1>b. /\ area[t] \in Vmas /\ off[t] \in PgOffs /\ MyCtx(t) \in Ctxs
      /\ MyLpn(t) \in Nat /\ MyCpi(t) \in CpIdx
  BY ZenonT(30), <1>a, MyTypes
<1>c. pc[t] \in {"store", "mkfind", "map"} => pg[t] \in Pages
  BY ZenonT(30) DEF LocalInv, LocalOK, TypeOK, WithPage
<1>1. CASE LpFind(t)
  <2>1. PICK l \in Lps : Hold(t, l, "lock")
    BY ZenonT(30), <1>1, <1>b DEF LpFind, Chain
  <2>2. QED
    BY <1>1, <2>1 DEF LpFind
<1>2. CASE LpMiss(t)
  BY <1>2, <1>a, <1>b, ZenonT(30) DEF LpMiss, Holding
<1>3. CASE LpAlloc(t)
  BY <1>3, <1>a, <1>b DEF LpAlloc, Holding
<1>4. CASE LpAllocFail(t)
  BY ZenonT(30), <1>4, <1>a, <1>b DEF LpAllocFail, Holding
<1>5. CASE LpInsert(t)
  BY <1>5, <1>a, <1>b, ZenonT(30) DEF LpInsert, Holding
<1>6. CASE LpInsertLost(t)
  <2>1. PICK l \in Lps : Hold(t, l, "lock")
    BY ZenonT(30), <1>6, <1>b DEF LpInsertLost, Chain
  <2>2. QED
    BY <1>6, <2>1 DEF LpInsertLost
<1>7. CASE LpCount(t)
  BY <1>7, <1>a, <1>b, SMTT(20) DEF LpCount, Holding
<1>8. CASE LpLock(t)
  BY <1>8, <1>a, <1>b, ZenonT(30) DEF LpLock, Holding
<1>9. CASE CpHit(t)
  BY <1>9, <1>a, <1>b, SMTT(20) DEF CpHit, Holding
<1>10. CASE CpAlloc(t)
  BY <1>10, <1>a, <1>b DEF CpAlloc, Holding
<1>11. CASE CpAllocFail(t)
  BY ZenonT(30), <1>11, <1>a, <1>b DEF CpAllocFail, Holding
<1>12. CASE CpCount(t)
  BY <1>12, <1>a, <1>b, SMTT(20) DEF CpCount, Holding
<1>13. CASE CpStore(t)
  BY <1>13, <1>a, <1>b, <1>c, SMTT(20) DEF CpStore, Holding
<1>14. CASE LpPut(t)
  BY <1>14, <1>a, <1>b, SMTT(20) DEF LpPut, Holding
<1>15. CASE LpPutFail(t)
  BY <1>15, <1>a, <1>b, SMTT(20) DEF LpPutFail, Holding
<1>16. CASE FaultEnd(t)
  BY <1>16, <1>a, <1>b, ZenonT(30) DEF FaultEnd, Holding
<1>17. CASE MkFind(t)
  <2>1. CASE Chain(MyCtx(t), MyLpn(t)) # {}
    <3>1. PICK l \in Lps : Hold(t, l, "mkmark")
      BY <1>17, <1>b, <2>1, ZenonT(30) DEF MkFind, Chain
    <3>2. QED
      BY <1>17, <2>1, <3>1, SMTT(20) DEF MkFind
  <2>2. CASE Chain(MyCtx(t), MyLpn(t)) = {}
    <3>1. pc[t] = "mkfind" /\ pg[t] \in Pages
      BY <1>17, <1>c, ZenonT(30) DEF MkFind
    <3>2. /\ pageRef' = [pageRef EXCEPT ![pg[t]] = @ - 1]
          /\ Return(t) /\ UNCHANGED refcount
          /\ UNCHANGED <<devVars, vmaVars, pteVars, ctxVars, lpLive, lpn, cp,
                         dirty, lock, poolVars>>
      BY <1>17, <2>2, ZenonT(30) DEF MkFind
    <3>3. pageRef' \in [Pages -> Int]
      BY <3>1, <3>2, SMTT(20)
    <3>4. QED
      BY <3>2, <3>3, ZenonT(30)
  <2>3. QED
    BY <2>1, <2>2, ZenonT(30)
<1>18. CASE MkMark(t)
  BY ZenonT(30), <1>18, <1>a, <1>b DEF MkMark, Holding
<1>19. CASE MkPut(t)
  BY <1>19, <1>a, <1>b, SMTT(20) DEF MkPut, Holding
<1>20. CASE MkEnd(t)
  BY <1>20, <1>a, <1>b, ZenonT(30) DEF MkEnd, Holding
<1>21. CASE MapPage(t)
  BY <1>21, <1>a, <1>b, ZenonT(30) DEF MapPage, Holding
<1>22. CASE MapPresent(t)
  BY <1>22, <1>b, <1>c, SMTT(20) DEF MapPresent, Holding
<1>30. QED
  BY ZenonT(30), <1>1, <1>2, <1>3, <1>4, <1>5, <1>6, <1>7, <1>8, <1>9, <1>10, <1>11,
     <1>12, <1>13, <1>14, <1>15, <1>16, <1>17, <1>18, <1>19, <1>20, <1>21, <1>22 DEF Step

-----------------------------------------------------------------------------
(* Contexts.                                                               *)

(* No area has a context at first.                                         *)
LEMMA CtxInit == Init => CtxInv
BY DEF Init, CtxInv, Allocated, Mapped

(* The handlers keep mapped areas and allocated contexts in step.          *)
LEMMA CtxStep ==
  ASSUME TypeOK, CtxInv, NEW t \in Threads, Step(t)
  PROVE  CtxInv'
<1>1. /\ UNCHANGED <<layout, vmaCtx, vmaOffs, ctxLayout>>
      /\ Mapped' = Mapped /\ Allocated' = Allocated
  BY Zenon, StepFrame DEF Mapped, Allocated
<1>2. area[t] \in Mapped /\ MyCtx(t) \in Allocated
  BY Zenon, StepFrame, MyTypes
<1>3. ASSUME NEW c \in Ctxs \ Allocated
      PROVE  hash'[c] = {}
  <2>1. c # MyCtx(t)
    BY Zenon, <1>2, <1>3
  <2>2. hash'[c] = hash[c]
    BY ZenonT(30), <2>1, StepTables DEF TypeOK
  <2>3. QED
    BY Zenon, <1>3, <2>2 DEF CtxInv
<1>4. \A v \in Vmas \ Mapped : pte'[v] = pte[v] /\ pteWritable'[v] = pteWritable[v]
  BY ZenonT(30), <1>2, StepTables DEF TypeOK
<1>5. ASSUME NEW u \in Threads
      PROVE  /\ pc'[u] = "idle" => area'[u] = NULL /\ lp'[u] = NULL /\ pg'[u] = NULL
             /\ pc'[u] # "idle" => area'[u] \in Mapped /\ off'[u] \in PgOffs
  <2>1. CASE u = t
    BY Zenon, <2>1, StepFrame DEF CtxInv
  <2>2. CASE u # t
    BY <2>2, StepFrame DEF CtxInv, Quiet
  <2>3. QED
    BY Zenon, <2>1, <2>2
<1>6. /\ layout' # NULL => ValidLayout(layout')
      /\ \A c \in Allocated' : ValidLayout(ctxLayout'[c])
      /\ \A v \in Mapped' : vmaCtx'[v] \in Allocated'
      /\ \A v, w \in Mapped' : vmaCtx'[v] = vmaCtx'[w] => v = w
  BY Zenon, <1>1 DEF CtxInv
<1>7. ASSUME NEW v \in Vmas \ Mapped'
      PROVE  /\ vmaOffs'[v] = {}
             /\ \A o \in PgOffs : pte'[v][o] = NULL
             /\ pteWritable'[v] = {}
  BY <1>1, <1>4, <1>7 DEF CtxInv
<1>8. QED
  BY Zenon, <1>1, <1>3, <1>5, <1>6, <1>7 DEF CtxInv

(* kdb_mmap and vma_ctx_destroy keep mapped areas and allocated contexts   *)
(* in step.                                                                *)
LEMMA CtxUser ==
  ASSUME TypeOK, CtxInv, User
  PROVE  CtxInv'
<1>1. ASSUME NEW L \in Layouts, SetLayout(L)
      PROVE  CtxInv'
  BY <1>1 DEF CtxInv, SetLayout, Mapped, Allocated, vmaVars, pteVars, ctxVars, reqVars
<1>2. ASSUME NEW v \in Vmas, NEW first \in PgOffs, NEW last \in PgOffs,
             Mmap(v, first, last)
      PROVE  CtxInv'
  <2>1. PICK c \in Ctxs :
          /\ ctxLayout[c] = NULL
          /\ ctxLayout' = [ctxLayout EXCEPT ![c] = layout]
          /\ hash' = [hash EXCEPT ![c] = {}]
          /\ vmaCtx' = [vmaCtx EXCEPT ![v] = c]
    BY Zenon, <1>2 DEF Mmap
  <2>2. layout # NULL /\ ValidLayout(layout)
    BY Zenon, <1>2 DEF Mmap, CtxInv
  <2>3. Mapped' = Mapped \cup {v} /\ Allocated' = Allocated \cup {c}
    BY <2>1, <2>2, ObjectsAssumption DEF Mapped, Allocated, TypeOK
  <2>4. v \notin Mapped /\ c \notin Allocated
    BY Zenon, <1>2, <2>1 DEF Mmap, Mapped, Allocated
  <2>5. QED
    BY <1>2, <2>1, <2>2, <2>3, <2>4 DEF CtxInv, Mmap, TypeOK, pteVars, reqVars, devVars
<1>3. ASSUME NEW v \in Vmas, Munmap(v)
      PROVE  CtxInv'
  <2> DEFINE c == vmaCtx[v]
  <2>1. c \in Ctxs /\ v \in Mapped
    BY Zenon, <1>3 DEF Munmap, Mapped, TypeOK
  <2>2. Mapped' = Mapped \ {v} /\ Allocated' = Allocated \ {c}
    BY Zenon, <1>3, <2>1 DEF Munmap, Mapped, Allocated, TypeOK
  <2>3. QED
    BY <1>3, <2>1, <2>2 DEF CtxInv, Munmap, TypeOK, reqVars, devVars
<1>4. QED
  BY Zenon, <1>1, <1>2, <1>3 DEF User

(* A fault begins on an area that has a context.                           *)
LEMMA CtxBegin ==
  ASSUME TypeOK, CtxInv, NEW t \in Threads, Begin(t)
  PROVE  CtxInv'
<1>1. PICK v \in Vmas, o \in PgOffs, k \in Kinds :
        /\ o \in vmaOffs[v]
        /\ Request(t, v, o, k)
        /\ \E label \in Pcs \ {"idle"} : Goto(t, label)
  BY ZenonT(30) DEF Begin, FaultBegin, WpBegin, Pcs, FaultPcs, MkwritePcs, Kinds
<1>2. /\ UNCHANGED <<devVars, vmaVars, pteVars, ctxVars, lp>>
      /\ pc[t] = "idle"
      /\ pg' = pg \/ \E x : pg' = [pg EXCEPT ![t] = x]
  BY Zenon DEF Begin, FaultBegin, WpBegin
<1>3. v \in Mapped
  BY Zenon, <1>1 DEF CtxInv
<1>4. ASSUME NEW u \in Threads
      PROVE  /\ pc'[u] = "idle" => area'[u] = NULL /\ lp'[u] = NULL /\ pg'[u] = NULL
             /\ pc'[u] # "idle" => area'[u] \in Mapped /\ off'[u] \in PgOffs
  <2>1. CASE u = t
    BY Zenon, <1>1, <1>3, <2>1 DEF TypeOK, Request, Goto
  <2>2. CASE u # t
    BY <1>1, <1>2, <2>2 DEF CtxInv, TypeOK, Request, Goto
  <2>3. QED
    BY Zenon, <2>1, <2>2
<1>5. UNCHANGED <<layout, vmaCtx, vmaOffs, pte, pteWritable, ctxLayout, hash>>
  BY Zenon, <1>2 DEF devVars, vmaVars, pteVars, ctxVars
<1>6. Mapped' = Mapped /\ Allocated' = Allocated
  BY Zenon, <1>5 DEF Mapped, Allocated
<1>7. QED
  BY ZenonT(30), <1>4, <1>5, <1>6 DEF CtxInv

-----------------------------------------------------------------------------
(* Local variables.                                                        *)

(* No thread is in a handler at first.                                     *)
LEMMA LocalInit == Init => LocalInv
BY Zenon DEF Init, LocalInv, LocalOK, Holding, WithPage, MkwritePcs

(* The user's calls leave the local variables of the handlers alone.       *)
LEMMA LocalUser ==
  ASSUME LocalInv, User
  PROVE  LocalInv'
BY Zenon DEF LocalInv, LocalOK, User, SetLayout, Mmap, Munmap, reqVars

(* A fault begins with the local variables its first step expects.         *)
LEMMA LocalBegin ==
  ASSUME TypeOK, CtxInv, LocalInv, NEW t \in Threads, Begin(t)
  PROVE  LocalInv'
<1> USE DEF LocalInv, LocalOK, Holding, WithPage, MkwritePcs, Request, Goto
<1>a. /\ pc \in [Threads -> Pcs] /\ kind \in [Threads -> Kinds]
      /\ pg \in [Threads -> Pages \cup {NULL}]
  BY Zenon DEF TypeOK
<1>1. ASSUME NEW v \in Vmas, NEW o \in PgOffs, NEW k \in {"read", "write"},
             FaultBegin(t, v, o, k)
      PROVE  LocalInv'
  BY ZenonT(30), <1>a, <1>1 DEF FaultBegin, CtxInv
<1>2. ASSUME NEW v \in Vmas, NEW o \in PgOffs, WpBegin(t, v, o)
      PROVE  LocalInv'
  BY ZenonT(30), <1>a, <1>2 DEF WpBegin, CtxInv
<1>3. QED
  BY ZenonT(30), <1>1, <1>2 DEF Begin

(* Every step leaves the local variables the next one expects.             *)
LEMMA LocalStep ==
  ASSUME TypeOK, CtxInv, LocalInv, NEW t \in Threads, Step(t)
  PROVE  LocalInv'
<1>a. LocalOK(t) /\ pc[t] # "idle" /\ MyCtx(t) \in Ctxs /\ MyCpi(t) \in CpIdx
  BY Zenon, StepFrame, MyTypes DEF LocalInv
<1>b. ASSUME NEW u \in Threads \ {t}
      PROVE  LocalOK(u)'
  BY ZenonT(30), <1>b, StepFrame DEF LocalInv, LocalOK, Quiet
<1>e. /\ pc \in [Threads -> Pcs] /\ kind \in [Threads -> Kinds]
      /\ lp \in [Threads -> Lps \cup {NULL}] /\ pg \in [Threads -> Pages \cup {NULL}]
      /\ hash \in [Ctxs -> SUBSET Lps]
      /\ cp \in [Lps -> [CpIdx -> Pages \cup {NULL}]]
  BY Zenon DEF TypeOK
<1>c. LocalOK(t)'
  <2> USE DEF LocalOK, Goto, Hold, Return, Holding, WithPage, MkwritePcs,
              reqVars
  <2>1. CASE LpFind(t)
    <3>1. PICK l \in hash[MyCtx(t)] : Hold(t, l, "lock")
      BY Zenon, <2>1 DEF LpFind, Chain
    <3>2. l # NULL /\ pg' = pg /\ kind' = kind
      BY ZenonT(30), <1>a, <1>e, <2>1, ObjectsAssumption DEF LpFind
    <3>3. QED
      BY Zenon, <1>a, <1>e, <2>1, <3>1, <3>2 DEF LpFind
  <2>2. CASE LpMiss(t)
    BY Zenon, <1>a, <1>e, <2>2, ObjectsAssumption DEF LpMiss
  <2>3. CASE LpAlloc(t)
    BY <1>a, <1>e, <2>3, ObjectsAssumption DEF LpAlloc
  <2>4. CASE LpAllocFail(t)
    BY Zenon, <1>a, <1>e, <2>4, ObjectsAssumption DEF LpAllocFail
  <2>5. CASE LpInsert(t)
    BY Zenon, <1>a, <1>e, <2>5, ObjectsAssumption DEF LpInsert
  <2>6. CASE LpInsertLost(t)
    <3>1. PICK l \in hash[MyCtx(t)] : Hold(t, l, "lock")
      BY Zenon, <2>6 DEF LpInsertLost, Chain
    <3>2. l # NULL /\ pg' = pg /\ kind' = kind
      BY ZenonT(30), <1>a, <1>e, <2>6, ObjectsAssumption DEF LpInsertLost
    <3>3. QED
      BY Zenon, <1>a, <1>e, <2>6, <3>1, <3>2 DEF LpInsertLost
  <2>7. CASE LpCount(t)
    BY Zenon, <1>a, <1>e, <2>7, ObjectsAssumption DEF LpCount
  <2>8. CASE LpLock(t)
    BY Zenon, <1>a, <1>e, <2>8, ObjectsAssumption DEF LpLock
  <2>9. CASE CpHit(t)
    BY Zenon, <1>a, <1>e, <2>9, ObjectsAssumption DEF CpHit
  <2>10. CASE CpAlloc(t)
    BY Zenon, <1>a, <1>e, <2>10, ObjectsAssumption DEF CpAlloc
  <2>11. CASE CpAllocFail(t)
    BY Zenon, <1>a, <1>e, <2>11, ObjectsAssumption DEF CpAllocFail
  <2>12. CASE CpCount(t)
    BY Zenon, <1>a, <1>e, <2>12, ObjectsAssumption DEF CpCount
  <2>13. CASE CpStore(t)
    BY Zenon, <1>a, <1>e, <2>13, ObjectsAssumption DEF CpStore
  <2>14. CASE LpPut(t)
    BY Zenon, <1>a, <1>e, <2>14, ObjectsAssumption DEF LpPut
  <2>15. CASE LpPutFail(t)
    BY Zenon, <1>a, <1>e, <2>15, ObjectsAssumption DEF LpPutFail
  <2>16. CASE FaultEnd(t)
    BY Zenon, <1>a, <1>e, <2>16, ObjectsAssumption DEF FaultEnd
  <2>17. CASE MkFind(t)
    <3>1. CASE Chain(MyCtx(t), MyLpn(t)) # {}
      <4>1. PICK l \in hash[MyCtx(t)] : Hold(t, l, "mkmark")
        BY Zenon, <2>17, <3>1 DEF MkFind, Chain
      <4>2. l # NULL /\ pg' = pg /\ kind' = kind /\ pc[t] = "mkfind"
        BY Zenon, <1>a, <1>e, <2>17, <3>1, ObjectsAssumption DEF MkFind
      <4>3. QED
        BY Zenon, <1>a, <1>e, <4>1, <4>2
    <3>2. CASE Chain(MyCtx(t), MyLpn(t)) = {}
      <4>1. Return(t)
        BY Zenon, <2>17, <3>2 DEF MkFind
      <4>2. QED
        BY Zenon, <1>a, <1>e, <4>1
    <3>3. QED
      BY Zenon, <3>1, <3>2
  <2>18. CASE MkMark(t)
    BY Zenon, <1>a, <1>e, <2>18, ObjectsAssumption DEF MkMark
  <2>19. CASE MkPut(t)
    BY Zenon, <1>a, <1>e, <2>19, ObjectsAssumption DEF MkPut
  <2>20. CASE MkEnd(t)
    BY Zenon, <1>a, <1>e, <2>20, ObjectsAssumption DEF MkEnd
  <2>21. CASE MapPage(t)
    BY Zenon, <1>a, <1>e, <2>21, ObjectsAssumption DEF MapPage
  <2>22. CASE MapPresent(t)
    BY Zenon, <1>a, <1>e, <2>22, ObjectsAssumption DEF MapPresent
  <2>30. QED
    BY Zenon, <2>1, <2>2, <2>3, <2>4, <2>5, <2>6, <2>7, <2>8, <2>9, <2>10, <2>11,
       <2>12, <2>13, <2>14, <2>15, <2>16, <2>17, <2>18, <2>19, <2>20, <2>21, <2>22 DEF Step
<1>d. QED
  BY Zenon, <1>b, <1>c DEF LocalInv

-----------------------------------------------------------------------------
(* Logical pages and their locks.                                          *)

(* No logical page is allocated at first.                                  *)
LEMMA LpInit == Init => LpInv
BY ZenonT(30) DEF Init, LpInv, LpOK, OneLpPerLpn, Holding

(* Steps that neither link nor allocate logical pages.                     *)
LEMMA LpKeep ==
  ASSUME TypeOK, CtxInv, LpInv, NEW t \in Threads, Step(t),
         TypeOK', LocalInv', UNCHANGED <<hash, lpn, lpLive>>,
         \/ pc'[t] \notin Holding
         \/ /\ pc'[t] \in Holding \ {"insert"}
            /\ lp'[t] \in hash[MyCtx(t)] /\ lpn[lp'[t]] = MyLpn(t)
  PROVE  LpInv'
<1>1. ASSUME NEW u \in Threads
      PROVE  LpOK(u)'
  <2>1. CASE u = t
    <3>1. pc'[t] # "idle" => MyCtx(t)' = MyCtx(t) /\ MyLpn(t)' = MyLpn(t)
      BY Zenon, StepMine
    <3>2. QED
      BY Zenon, <2>1, <3>1 DEF LpOK, Holding
  <2>2. CASE u # t
    <3>1. Quiet(u) /\ LpOK(u) /\ \A w \in Threads \ {t} : Quiet(w)
      BY Zenon, <2>2, StepFrame DEF LpInv
    <3>2. pc[u] # "idle" => MyCtx(u)' = MyCtx(u) /\ MyLpn(u)' = MyLpn(u)
      BY Zenon, <3>1, StepMine DEF Quiet
    <3>3. CASE pc[u] = "insert"
      <4>1. lp'[t] = NULL \/ \E c \in Ctxs : lp'[t] \in hash[c]
        BY Zenon, StepFrame, MyTypes DEF LocalInv, LocalOK
      <4>2. lp'[t] # lp'[u]
        BY <3>1, <3>3, <4>1, ObjectsAssumption DEF LpOK, Quiet, TypeOK
      <4>3. QED
        BY ZenonT(30), <3>1, <3>2, <3>3, <4>2 DEF LpOK, Quiet, Holding
    <3>4. CASE pc[u] # "insert"
      BY Zenon, <3>1, <3>2, <3>4 DEF LpOK, Quiet, Holding
    <3>5. QED
      BY Zenon, <3>3, <3>4
  <2>3. QED
    BY Zenon, <2>1, <2>2
<1>2. QED
  BY Zenon, <1>1 DEF LpInv, OneLpPerLpn

(* A logical page that a thread holds is allocated.                        *)
LEMMA HeldIsLive ==
  ASSUME TypeOK, CtxInv, LocalInv, LpInv, NEW u \in Threads, lp[u] # NULL
  PROVE  lp[u] \in lpLive /\ lp[u] \in Lps
<1>1. pc[u] \in Holding /\ LpOK(u)
  BY Zenon DEF LocalInv, LocalOK, LpInv
<1>2. pc[u] # "idle"
  BY Zenon, <1>1 DEF Holding
<1>3. MyCtx(u) \in Ctxs
  BY Zenon, <1>2, MyTypes
<1>4. QED
  BY Zenon, <1>1, <1>3 DEF LpOK, LpInv, TypeOK

(* The handlers never link a logical page twice, nor two of one number,    *)
(* and free none that is linked or held by another thread.                 *)
LEMMA LpStep ==
  ASSUME TypeOK, CtxInv, LocalInv, LpInv, NEW t \in Threads, Step(t),
         TypeOK', LocalInv'
  PROVE  LpInv'
<1>a. /\ pc[t] # "idle" /\ MyCtx(t) \in Ctxs
      /\ LocalOK(t) /\ LpOK(t) /\ LocalOK(t)'
  BY Zenon, StepFrame, MyTypes DEF LocalInv, LpInv
<1>b. \A u \in Threads \ {t} : Quiet(u) /\ LpOK(u)
  BY Zenon, StepFrame DEF LpInv
<1>c. \A u \in Threads :
        pc'[u] # "idle" => MyCtx(u)' = MyCtx(u) /\ MyLpn(u)' = MyLpn(u)
  BY Zenon, StepMine
<1>d. \A u \in Threads : pc[u] # "idle" => MyCtx(u) \in Ctxs
  BY Zenon, MyTypes
<1>e. pc \in [Threads -> Pcs]
  BY Zenon DEF TypeOK
<1>1. CASE LpAlloc(t)
  <2>1. PICK l \in Lps \ lpLive :
          /\ lpLive' = lpLive \cup {l}
          /\ lpn' = [lpn EXCEPT ![l] = MyLpn(t)]
          /\ lp' = [lp EXCEPT ![t] = l]
    BY Zenon, <1>1 DEF LpAlloc
  <2>2. hash' = hash /\ pc'[t] = "insert" /\ lp'[t] = l
    BY <1>1, <2>1 DEF LpAlloc, TypeOK, ctxVars, Goto
  <2>3. \A c \in Ctxs : l \notin hash[c]
    BY Zenon, <2>1 DEF LpInv
  <2>4. \A k \in Lps : k # l => lpn'[k] = lpn[k]
    BY Zenon, <2>1 DEF TypeOK
  <2>5. \A u \in Threads : lp[u] # l
    BY Zenon, <2>1, HeldIsLive, ObjectsAssumption
  <2>6. ASSUME NEW u \in Threads
        PROVE  LpOK(u)'
    <3>1. CASE u = t
      BY <1>b, <1>c, <2>1, <2>2, <2>3, <2>5, <3>1, SMTT(20) DEF LpOK, Quiet, TypeOK
    <3>2. CASE u # t
      <4>1. pc[u] \in Holding => lp[u] \in Lps
        BY Zenon, HeldIsLive DEF LocalInv, LocalOK
      <4>2. QED
        BY <1>b, <1>c, <2>1, <2>2, <2>4, <2>5, <3>2, <4>1 DEF LpOK, Quiet, Holding
    <3>3. QED
      BY Zenon, <3>1, <3>2
  <2>7. OneLpPerLpn'
    <3>1. \A c \in Ctxs : \A k \in hash[c] : lpn'[k] = lpn[k]
      BY <2>3, <2>4, ZenonT(30) DEF TypeOK
    <3>2. QED
      BY <2>2, <3>1 DEF LpInv, OneLpPerLpn
  <2>8. QED
    BY Zenon, <2>1, <2>2, <2>6, <2>7 DEF LpInv
<1>2. CASE LpInsert(t)
  <2>1. /\ pc[t] = "insert" /\ pc'[t] = "count" /\ lp' = lp
        /\ hash' = [hash EXCEPT ![MyCtx(t)] = @ \cup {lp[t]}]
        /\ lpn' = lpn /\ lpLive' = lpLive
        /\ \A l \in hash[MyCtx(t)] : lpn[l] # MyLpn(t)
    BY Zenon, <1>2 DEF LpInsert, Chain, Goto, TypeOK, lpVars
  <2>2. /\ lp[t] \in lpLive /\ lpn[lp[t]] = MyLpn(t)
        /\ \A c \in Ctxs : lp[t] \notin hash[c]
        /\ \A u \in Threads : u # t => lp[u] # lp[t]
    BY Zenon, <1>a, <2>1 DEF LpOK
  <2>3. \A c \in Ctxs : hash'[c] = IF c = MyCtx(t) THEN hash[c] \cup {lp[t]} ELSE hash[c]
    BY Zenon, <1>a, <2>1 DEF TypeOK
  <2>4. ASSUME NEW u \in Threads
        PROVE  LpOK(u)'
    <3>1. CASE u = t
      BY <1>a, <1>c, <2>1, <2>2, <2>3, <3>1, SMTT(20) DEF LpOK
    <3>2. CASE u # t
      BY <1>b, <1>c, <1>d, <2>1, <2>2, <2>3, <3>2, SMTT(20) DEF LpOK, Quiet, Holding
    <3>3. QED
      BY Zenon, <3>1, <3>2
  <2>5. OneLpPerLpn'
    BY <2>1, <2>2, <2>3 DEF LpInv, OneLpPerLpn
  <2>6. QED
    BY <2>1, <2>2, <2>3, <2>4, <2>5 DEF LpInv
<1>3. CASE LpInsertLost(t)
  <2>1. PICK l \in hash[MyCtx(t)] : lpn[l] = MyLpn(t) /\ Hold(t, l, "lock")
    BY Zenon, <1>3 DEF LpInsertLost, Chain
  <2>2. /\ pc[t] = "insert" /\ pc'[t] = "lock" /\ lp'[t] = l
        /\ lpLive' = lpLive \ {lp[t]} /\ hash' = hash /\ lpn' = lpn
    BY <1>3, <2>1 DEF LpInsertLost, Hold, Goto, TypeOK, ctxVars
  <2>3. /\ \A c \in Ctxs : lp[t] \notin hash[c]
        /\ \A u \in Threads : u # t => lp[u] # lp[t]
    BY Zenon, <1>a, <2>2 DEF LpOK
  <2>4. ASSUME NEW u \in Threads
        PROVE  LpOK(u)'
    <3>1. CASE u = t
      BY Zenon, <1>c, <2>1, <2>2, <3>1 DEF LpOK
    <3>2. CASE u # t
      BY <1>a, <1>b, <1>c, <1>d, <2>1, <2>2, <2>3, <3>2 DEF LpOK, Quiet, Holding
    <3>3. QED
      BY Zenon, <3>1, <3>2
  <2>5. QED
    BY <2>2, <2>3, <2>4 DEF LpInv, OneLpPerLpn
<1>4. CASE LpFind(t) \/ (MkFind(t) /\ Chain(MyCtx(t), MyLpn(t)) # {})
  <2>1. PICK l \in hash[MyCtx(t)], label \in {"lock", "mkmark"} :
          lpn[l] = MyLpn(t) /\ Hold(t, l, label)
    BY ZenonT(30), <1>4 DEF LpFind, MkFind, Chain
  <2>2. pc'[t] \in Holding \ {"insert"} /\ lp'[t] = l /\ UNCHANGED <<hash, lpn, lpLive>>
    BY ZenonT(30), <1>4, <2>1 DEF LpFind, MkFind, Hold, Goto, Holding, TypeOK, ctxVars
  <2>3. QED
    BY Zenon, <2>1, <2>2, LpKeep
<1>5. CASE \/ LpCount(t) \/ LpLock(t) \/ CpHit(t) \/ CpAlloc(t) \/ CpAllocFail(t)
         \/ CpCount(t) \/ CpStore(t) \/ MkMark(t)
  <2>1. pc[t] \in Holding \ {"insert"} /\ pc'[t] \in Holding \ {"insert"}
    BY Zenon, <1>5, <1>e DEF LpCount, LpLock, CpHit, CpAlloc, CpAllocFail, CpCount,
                      CpStore, MkMark, Goto, Holding
  <2>2. lp' = lp /\ UNCHANGED <<hash, lpn, lpLive>>
    BY Zenon, <1>5 DEF LpCount, LpLock, CpHit, CpAlloc, CpAllocFail, CpCount, CpStore,
                MkMark, ctxVars, lpVars
  <2>3. QED
    BY Zenon, <1>a, <2>1, <2>2, LpKeep DEF LpOK
<1>6. CASE \/ LpMiss(t) \/ LpAllocFail(t) \/ LpPut(t) \/ LpPutFail(t) \/ FaultEnd(t)
         \/ (MkFind(t) /\ Chain(MyCtx(t), MyLpn(t)) = {})
         \/ MkPut(t) \/ MkEnd(t) \/ MapPage(t) \/ MapPresent(t)
  <2>1. pc'[t] \notin Holding
    BY ZenonT(30), <1>6, <1>e DEF LpMiss, LpAllocFail, LpPut, LpPutFail, FaultEnd, MkFind,
                      MkPut, MkEnd, MapPage, MapPresent, Return, Goto, Holding
  <2>2. UNCHANGED <<hash, lpn, lpLive>>
    BY Zenon, <1>6 DEF LpMiss, LpAllocFail, LpPut, LpPutFail, FaultEnd, MkFind, MkPut,
                MkEnd, MapPage, MapPresent, ctxVars, lpVars
  <2>3. QED
    BY Zenon, <2>1, <2>2, LpKeep
<1>7. QED
  BY Zenon, <1>1, <1>2, <1>3, <1>4, <1>5, <1>6 DEF Step

(* A user's call, or a fault that begins, does not change what a thread    *)
(* that is in a handler computes.                                          *)
LEMMA UserMine ==
  ASSUME TypeOK, CtxInv, User, NEW u \in Threads, pc[u] # "idle"
  PROVE  /\ MyCtx(u)' = MyCtx(u) /\ MyLpn(u)' = MyLpn(u) /\ MyCpi(u)' = MyCpi(u)
         /\ hash'[MyCtx(u)] = hash[MyCtx(u)]
         /\ ctxLayout'[MyCtx(u)] = ctxLayout[MyCtx(u)]
<1>a. /\ area[u] \in Mapped /\ area[u] \in Vmas
      /\ MyCtx(u) \in Allocated /\ MyCtx(u) \in Ctxs
  BY Zenon, MyTypes
<1>b. area' = area /\ off' = off
  BY Zenon DEF User, SetLayout, Mmap, Munmap, reqVars
<1>1. ASSUME NEW L \in Layouts, SetLayout(L)
      PROVE  /\ vmaCtx'[area[u]] = vmaCtx[area[u]]
             /\ ctxLayout'[MyCtx(u)] = ctxLayout[MyCtx(u)]
             /\ hash'[MyCtx(u)] = hash[MyCtx(u)]
  BY Zenon, <1>1 DEF SetLayout, vmaVars, ctxVars
<1>2. ASSUME NEW v \in Vmas, NEW first \in PgOffs, NEW last \in PgOffs,
             Mmap(v, first, last)
      PROVE  /\ vmaCtx'[area[u]] = vmaCtx[area[u]]
             /\ ctxLayout'[MyCtx(u)] = ctxLayout[MyCtx(u)]
             /\ hash'[MyCtx(u)] = hash[MyCtx(u)]
  BY Zenon, <1>a, <1>2 DEF Mmap, Mapped, Allocated, TypeOK
<1>3. ASSUME NEW v \in Vmas, Munmap(v)
      PROVE  /\ vmaCtx'[area[u]] = vmaCtx[area[u]]
             /\ ctxLayout'[MyCtx(u)] = ctxLayout[MyCtx(u)]
             /\ hash'[MyCtx(u)] = hash[MyCtx(u)]
  <2>1. area[u] # v /\ v \in Mapped /\ vmaCtx[v] \in Ctxs
    BY Zenon, <1>3 DEF Munmap, Mapped, TypeOK
  <2>2. MyCtx(u) # vmaCtx[v]
    BY Zenon, <1>a, <2>1 DEF CtxInv, MyCtx
  <2>3. QED
    BY Zenon, <1>a, <1>3, <2>1, <2>2 DEF Munmap, TypeOK
<1>4. /\ vmaCtx'[area[u]] = vmaCtx[area[u]]
      /\ ctxLayout'[MyCtx(u)] = ctxLayout[MyCtx(u)]
      /\ hash'[MyCtx(u)] = hash[MyCtx(u)]
  BY Zenon, <1>1, <1>2, <1>3 DEF User
<1>5. QED
  BY ZenonT(30), <1>b, <1>4 DEF MyCtx, MyLpn, MyCpi, LpnOf, CpiOf, CpPerLp

(* A fault that begins changes only the local variables of its thread and  *)
(* references to pages.                                                    *)
LEMMA BeginFrame ==
  ASSUME TypeOK, NEW t \in Threads, Begin(t)
  PROVE  /\ UNCHANGED <<devVars, vmaVars, pteVars, ctxVars, lpVars, poolVars, lp>>
         /\ \A u \in Threads \ {t} :
              /\ Quiet(u)
              /\ MyCtx(u)' = MyCtx(u) /\ MyLpn(u)' = MyLpn(u) /\ MyCpi(u)' = MyCpi(u)
         /\ pc[t] = "idle"
<1>1. /\ UNCHANGED <<devVars, vmaVars, pteVars, ctxVars, lpVars, poolVars, lp>>
      /\ pc[t] = "idle"
  BY ZenonT(30) DEF Begin, FaultBegin, WpBegin
<1>2. /\ \E x : area' = [area EXCEPT ![t] = x]
      /\ \E x : off' = [off EXCEPT ![t] = x]
      /\ \E x : kind' = [kind EXCEPT ![t] = x]
      /\ \E x : pc' = [pc EXCEPT ![t] = x]
      /\ pg' = pg \/ \E x : pg' = [pg EXCEPT ![t] = x]
  BY Zenon DEF Begin, FaultBegin, WpBegin, Request, Goto
<1>3. ASSUME NEW u \in Threads \ {t}
      PROVE  Quiet(u)
  BY Zenon, <1>1, <1>2 DEF Quiet, TypeOK
<1>4. ASSUME NEW u \in Threads \ {t}
      PROVE  MyCtx(u)' = MyCtx(u) /\ MyLpn(u)' = MyLpn(u) /\ MyCpi(u)' = MyCpi(u)
  BY Zenon, <1>1, <1>3 DEF Quiet, MyCtx, MyLpn, MyCpi, LpnOf, CpiOf, CpPerLp, vmaVars, ctxVars
<1>5. QED
  BY Zenon, <1>1, <1>3, <1>4

(* A fault that begins leaves the logical pages alone.                     *)
LEMMA LpBegin ==
  ASSUME TypeOK, CtxInv, LocalInv, LpInv, NEW t \in Threads, Begin(t)
  PROVE  LpInv'
<1>1. hash' = hash /\ lpn' = lpn /\ lpLive' = lpLive /\ lp' = lp
  BY Zenon, BeginFrame DEF ctxVars, lpVars
<1>2. ASSUME NEW u \in Threads
      PROVE  LpOK(u)'
  <2>1. CASE u = t
    <3>1. pc'[t] \in {"find", "mkfind"}
      BY ZenonT(30) DEF Begin, FaultBegin, WpBegin, Goto, TypeOK
    <3>2. QED
      BY Zenon, <2>1, <3>1 DEF LpOK, Holding
  <2>2. CASE u # t
    BY <1>1, <2>2, BeginFrame DEF LpInv, LpOK, Quiet
  <2>3. QED
    BY Zenon, <2>1, <2>2
<1>3. QED
  BY Zenon, <1>1, <1>2 DEF LpInv, OneLpPerLpn

(* vma_ctx_destroy frees only logical pages that no thread holds and no    *)
(* other context links.                                                    *)
LEMMA LpUser ==
  ASSUME TypeOK, CtxInv, LocalInv, LpInv, User
  PROVE  LpInv'
<1>a. pc' = pc /\ lp' = lp /\ lpn' = lpn
  BY Zenon DEF User, SetLayout, Mmap, Munmap, lpVars
<1>b. \A c \in Ctxs : hash'[c] = hash[c] \/ hash'[c] = {}
  BY DEF User, SetLayout, Mmap, Munmap, TypeOK, ctxVars
<1>c. \A c \in Ctxs : hash'[c] \subseteq lpLive'
  <2>1. CASE \E v \in Vmas : Munmap(v)
    BY <2>1 DEF Munmap, LpInv, TypeOK
  <2>2. CASE lpLive' = lpLive
    BY Zenon, <1>b, <2>2 DEF LpInv
  <2>3. QED
    BY Zenon, <2>1, <2>2 DEF User, SetLayout, Mmap, lpVars
<1>d. ASSUME NEW u \in Threads
      PROVE  LpOK(u)'
  <2>1. CASE pc[u] = "insert"
    <3>1. LpOK(u) /\ \A c \in Ctxs : lp[u] \notin hash'[c]
      BY ZenonT(30), <1>b, <2>1 DEF LpInv, LpOK
    <3>2. lp[u] \in lpLive'
      BY <2>1, <3>1 DEF LpOK, User, SetLayout, Mmap, Munmap, TypeOK, lpVars
    <3>3. QED
      BY Zenon, <1>a, <2>1, <3>1, <3>2, UserMine DEF LpOK, Holding
  <2>2. CASE pc[u] # "insert"
    BY ZenonT(30), <1>a, <2>2, UserMine DEF LpInv, LpOK, Holding
  <2>3. QED
    BY Zenon, <2>1, <2>2
<1>e. QED
  BY Zenon, <1>a, <1>b, <1>c, <1>d DEF LpInv, OneLpPerLpn

-----------------------------------------------------------------------------
(* The lock of a logical page.                                             *)

(* No logical page is locked at first.                                     *)
LEMMA LockInit == Init => LockInv
BY Zenon DEF Init, LockInv, LockOK, Locked

(* What another thread does to a logical page that is not its own.         *)
LEMMA StepOtherLp ==
  ASSUME TypeOK, NEW t \in Threads, Step(t), NEW l \in lpLive, l # lp[t]
  PROVE  lock'[l] = lock[l] /\ cp'[l] = cp[l]
<1>1. CASE LpAlloc(t)
  BY Zenon, <1>1 DEF LpAlloc, TypeOK
<1>2. CASE LpLock(t) \/ CpHit(t) \/ CpAllocFail(t) \/ CpStore(t)
  <2>1. lock' = lock \/ \E x : lock' = [lock EXCEPT ![lp[t]] = x]
    BY Zenon, <1>2 DEF LpLock, CpHit, CpAllocFail, CpStore, Unlock
  <2>2. cp' = cp \/ \E x : cp' = [cp EXCEPT ![lp[t]] = x]
    BY Zenon, <1>2 DEF LpLock, CpHit, CpAllocFail, CpStore
  <2>3. QED
    BY Zenon, <2>1, <2>2 DEF TypeOK
<1>3. CASE ~(LpAlloc(t) \/ LpLock(t) \/ CpHit(t) \/ CpAllocFail(t) \/ CpStore(t))
  BY Zenon, <1>3, StepEffect
<1>4. QED
  BY Zenon, <1>1, <1>2, <1>3

(* A thread holds a logical page while it holds its lock, so the others    *)
(* cannot touch it.                                                        *)
LEMMA LockedIsMine ==
  ASSUME TypeOK, CtxInv, LocalInv, LpInv, LockInv, NEW t \in Threads, Step(t),
         NEW u \in Threads \ {t}, pc[u] \in Locked
  PROVE  lock'[lp[u]] = lock[lp[u]] /\ cp'[lp[u]] = cp[lp[u]]
<1>1. lp[u] # NULL /\ lock[lp[u]] = u
  BY Zenon DEF LocalInv, LocalOK, LockInv, LockOK, Locked, Holding
<1>2. lp[u] \in lpLive /\ lp[u] \in Lps
  BY Zenon, <1>1, HeldIsLive
<1>3. CASE lp[u] # lp[t]
  BY Zenon, <1>2, <1>3, StepOtherLp
<1>4. CASE lp[u] = lp[t]
  <2>1. pc[t] \notin Locked /\ lock[lp[t]] # NULL
    BY Zenon, <1>1, <1>4, ObjectsAssumption DEF LockInv, LockOK
  <2>2. pc[t] # "alloc"
    BY Zenon, <1>1, <1>4 DEF LocalInv, LocalOK, Holding
  <2>3. UNCHANGED <<lock, cp>>
    BY Zenon, <2>1, <2>2, StepEffect DEF Locked, LpAlloc, LpLock, CpHit, CpAllocFail, CpStore
  <2>4. QED
    BY Zenon, <2>3
<1>5. QED
  BY Zenon, <1>3, <1>4

(* The lock of a logical page is held by the thread that is between its    *)
(* lock and its unlock, and by no other.                                   *)
LEMMA LockStep ==
  ASSUME TypeOK, CtxInv, LocalInv, LpInv, LockInv, NEW t \in Threads, Step(t)
  PROVE  LockInv'
<1>1. ASSUME NEW u \in Threads \ {t}
      PROVE  LockOK(u)'
  <2>1. Quiet(u) /\ LockOK(u)
    BY Zenon, StepFrame DEF LockInv
  <2>2. pc[u] \in Locked => MyCpi(u)' = MyCpi(u)
    BY Zenon, <2>1, StepMine DEF Quiet, Locked
  <2>3. QED
    BY ZenonT(30), <2>1, <2>2, LockedIsMine DEF LockOK, Quiet, Locked
<1>2. LockOK(t)'
  <2>a. pc \in [Threads -> Pcs] /\ LockOK(t)
    BY Zenon DEF TypeOK, LockInv
  <2>b. pc'[t] \in Locked => MyCpi(t)' = MyCpi(t)
    BY Zenon, StepMine DEF Locked
  <2>1. CASE LpLock(t)
    <3>1. lp[t] \in Lps
      BY Zenon, <2>1, HeldIsLive DEF LpLock, LocalInv, LocalOK, Holding
    <3>2. QED
      BY Zenon, <2>a, <2>1, <3>1 DEF LpLock, LockOK, Goto, TypeOK
  <2>2. CASE CpAlloc(t) \/ CpCount(t)
    BY Zenon, <2>a, <2>b, <2>2 DEF CpAlloc, CpCount, LockOK, Locked, Goto, lpVars
  <2>3. CASE ~(LpLock(t) \/ CpAlloc(t) \/ CpCount(t))
    <3>1. pc'[t] \notin Locked
      BY ZenonT(30), <2>a, <2>3, StepFlow DEF Flow, Locked
    <3>2. QED
      BY Zenon, <3>1 DEF LockOK, Locked
  <2>4. QED
    BY Zenon, <2>1, <2>2, <2>3
<1>3. QED
  BY Zenon, <1>1, <1>2 DEF LockInv

(* A fault that begins takes no lock.                                      *)
LEMMA LockBegin ==
  ASSUME TypeOK, CtxInv, LockInv, NEW t \in Threads, Begin(t)
  PROVE  LockInv'
<1>1. pc'[t] \in {"find", "mkfind"}
  BY ZenonT(30) DEF Begin, FaultBegin, WpBegin, Goto, TypeOK
<1>2. LockOK(t)'
  BY Zenon, <1>1 DEF LockOK, Locked
<1>3. ASSUME NEW u \in Threads \ {t}
      PROVE  LockOK(u)'
  BY ZenonT(30), BeginFrame DEF LockInv, LockOK, Quiet, lpVars
<1>4. QED
  BY Zenon, <1>2, <1>3 DEF LockInv

(* The user's calls take no lock of a logical page.                        *)
LEMMA LockUser ==
  ASSUME TypeOK, CtxInv, LockInv, User
  PROVE  LockInv'
<1>1. UNCHANGED <<pc, lp, lock, cp>>
  BY Zenon DEF User, SetLayout, Mmap, Munmap, lpVars
<1>2. QED
  BY Zenon, <1>1, UserMine DEF LockInv, LockOK, Locked

-----------------------------------------------------------------------------
(* Slots.                                                                  *)

(* A canonical page of a linked logical page is never replaced.            *)
LEMMA SlotKept ==
  ASSUME TypeOK, CtxInv, LocalInv, LpInv, LockInv, NEW t \in Threads, Step(t),
         NEW c \in Ctxs, NEW l \in hash[c], NEW i \in CpIdx, cp[l][i] # NULL
  PROVE  cp'[l][i] = cp[l][i]
<1>1. l \in lpLive /\ l \in Lps
  BY Zenon DEF LpInv, TypeOK
<1>2. CASE CpStore(t)
  <2>1. /\ cp' = [cp EXCEPT ![lp[t]] = [@ EXCEPT ![MyCpi(t)] = pg[t]]]
        /\ cp[lp[t]][MyCpi(t)] = NULL
    BY Zenon, <1>2 DEF CpStore, LockInv, LockOK
  <2>2. CASE l = lp[t]
    BY Zenon, <1>1, <2>1, <2>2 DEF TypeOK
  <2>3. CASE l # lp[t]
    BY Zenon, <1>1, <2>1, <2>3 DEF TypeOK
  <2>4. QED
    BY Zenon, <2>2, <2>3
<1>3. CASE LpAlloc(t)
  BY Zenon, <1>1, <1>3 DEF LpAlloc, TypeOK
<1>4. CASE ~(CpStore(t) \/ LpAlloc(t))
  BY Zenon, <1>4, StepEffect
<1>5. QED
  BY Zenon, <1>2, <1>3, <1>4

(* A chain that is not empty stays as it is.                               *)
LEMMA ChainKept ==
  ASSUME TypeOK, CtxInv, LocalInv, LpInv, NEW t \in Threads, Step(t),
         NEW c \in Ctxs, NEW n, {l \in hash[c] : lpn[l] = n} # {}
  PROVE  {l \in hash'[c] : lpn'[l] = n} = {l \in hash[c] : lpn[l] = n}
<1>1. hash[c] \subseteq lpLive /\ hash[c] \subseteq Lps
  BY Zenon DEF LpInv, TypeOK
<1>2. CASE LpInsert(t)
  <2>1. /\ lpn' = lpn /\ pc[t] = "insert"
        /\ hash' = [hash EXCEPT ![MyCtx(t)] = @ \cup {lp[t]}]
        /\ {l \in hash[MyCtx(t)] : lpn[l] = MyLpn(t)} = {}
    BY Zenon, <1>2 DEF LpInsert, Chain, lpVars
  <2>2. lpn[lp[t]] = MyLpn(t)
    BY Zenon, <2>1 DEF LpInv, LpOK
  <2>3. CASE c = MyCtx(t)
    <3>1. n # MyLpn(t) /\ hash'[c] = hash[c] \cup {lp[t]}
      BY Zenon, <2>1, <2>3 DEF TypeOK
    <3>2. QED
      BY Zenon, <2>1, <2>2, <3>1
  <2>4. CASE c # MyCtx(t)
    BY Zenon, <2>1, <2>4 DEF TypeOK
  <2>5. QED
    BY Zenon, <2>3, <2>4
<1>3. CASE LpAlloc(t)
  <2>1. hash' = hash /\ \A l \in lpLive : lpn'[l] = lpn[l]
    BY <1>3 DEF LpAlloc, TypeOK, ctxVars
  <2>2. QED
    BY Zenon, <1>1, <2>1
<1>4. CASE ~(LpInsert(t) \/ LpAlloc(t))
  BY Zenon, <1>4, StepEffect
<1>5. QED
  BY Zenon, <1>2, <1>3, <1>4

(* The page that is stored or installed is one that the thread has.        *)
LEMMA CarriedPage ==
  ASSUME IInv, NEW t \in Threads, CpStore(t) \/ MapPage(t) \/ MapPresent(t)
  PROVE  /\ pg[t] \in Pages
         /\ CpStore(t) => /\ pc[t] = "store"
                          /\ pg' = pg /\ pte' = pte
                          /\ pageRef' = [pageRef EXCEPT ![pg[t]] = @ + 1]
         /\ MapPage(t) \/ MapPresent(t) =>
              /\ pc[t] = "map" /\ area[t] \in Vmas /\ off[t] \in PgOffs
              /\ pg' = [pg EXCEPT ![t] = NULL]
         /\ MapPage(t) =>
              /\ pageRef' = pageRef /\ pte[area[t]][off[t]] = NULL
              /\ pte' = [pte EXCEPT ![area[t]] = [@ EXCEPT ![off[t]] = pg[t]]]
         /\ MapPresent(t) =>
              pte' = pte /\ pageRef' = [pageRef EXCEPT ![pg[t]] = @ - 1]
<1>a. TypeOK /\ CtxInv /\ LocalInv
  BY Zenon DEF IInv
<1>1. pc[t] = "store" \/ pc[t] = "map"
  BY Zenon DEF CpStore, MapPage, MapPresent
<1>2. pg[t] # NULL
  BY Zenon, <1>a, <1>1 DEF LocalInv, LocalOK, WithPage
<1>3. pg[t] \in Pages
  BY Zenon, <1>a, <1>2 DEF TypeOK
<1>4. area[t] \in Vmas /\ off[t] \in PgOffs
  BY Zenon, <1>a, <1>1, MyTypes
<1>5. QED
  BY Zenon, <1>3, <1>4 DEF CpStore, MapPage, MapPresent, Return, pteVars

-----------------------------------------------------------------------------
(* What the invariant implies.                                             *)

(* What the invariant is for.                                              *)
LEMMA InvImplies ==
  ASSUME IInv
  PROVE  /\ TypeOK /\ OneLpPerLpn /\ NoUseAfterFree /\ OnePagePerOffset
         /\ WritableIsDirty /\ MkwriteFindsLp
<1>a. TypeOK /\ CtxInv /\ LocalInv /\ LpInv /\ LockInv /\ PageInv /\ DirtyInv
  BY Zenon DEF IInv
<1>1. TypeOK /\ OneLpPerLpn /\ WritableIsDirty
  BY Zenon, <1>a DEF LpInv, DirtyInv
<1>2. NoUseAfterFree
  <2>1. \A t \in Threads : pc[t] \in Holding => lp[t] \in lpLive
    BY Zenon, <1>a, HeldIsLive DEF LocalInv, LocalOK
  <2>2. QED
    BY Zenon, <1>a, <2>1 DEF NoUseAfterFree, CtxInv, LpInv
<1>3. OnePagePerOffset
  <2>1. \A c, o, p : HasPage(c, o, p) => SlotAt(c, o) = {p}
    BY Zenon DEF HasPage, SlotAt
  <2>2. QED
    BY ZenonT(30), <1>a, <2>1 DEF OnePagePerOffset, PageInv
<1>4. MkwriteFindsLp
  <2>1. ASSUME NEW t \in Threads, pc[t] = "mkfind"
        PROVE  Chain(MyCtx(t), MyLpn(t)) # {}
    BY Zenon, <1>a, <2>1 DEF LocalInv, LocalOK, PageInv, HasPage, WithPage, MyLpn
  <2>2. QED
    BY Zenon, <2>1 DEF MkwriteFindsLp
<1>5. QED
  BY Zenon, <1>1, <1>2, <1>3, <1>4

-----------------------------------------------------------------------------
(* Canonical pages.                                                        *)

(* No page is cached, carried or installed at first.                       *)
LEMMA PageInit == Init => PageInv
BY DEF Init, PageInv, Mapped, WithPage

(* A canonical page that is cached for an offset stays cached for it       *)
(* through every step of a handler.                                        *)
LEMMA HasPageKept ==
  ASSUME TypeOK, CtxInv, LocalInv, LpInv, LockInv, NEW t \in Threads, Step(t),
         NEW c \in Allocated, NEW o \in PgOffs, NEW p, p # NULL, HasPage(c, o, p)
  PROVE  HasPage(c, o, p)'
<1> DEFINE n == LpnOf(ctxLayout[c], o)
           i == CpiOf(ctxLayout[c], o)
<1>1. c \in Ctxs /\ ctxLayout[c] \in Layouts /\ ValidLayout(ctxLayout[c])
  BY Zenon DEF Allocated, CtxInv, TypeOK
<1>2. i \in CpIdx
  BY Zenon, <1>1, CpiInArray, SizesAssumption
<1>3. LpnOf(ctxLayout[c], o)' = n /\ CpiOf(ctxLayout[c], o)' = i
  BY Zenon, StepFrame DEF LpnOf, CpiOf, CpPerLp
<1>4. {l \in hash[c] : lpn[l] = n} # {} /\ \A l \in hash[c] : lpn[l] = n => cp[l][i] = p
  BY Zenon DEF HasPage, Chain
<1> HIDE DEF n, i
<1>5. {l \in hash'[c] : lpn'[l] = n} = {l \in hash[c] : lpn[l] = n}
  BY Zenon, <1>1, <1>4, ChainKept
<1>6. \A l \in hash[c] : lpn[l] = n => cp'[l][i] = p
  BY Zenon, <1>1, <1>2, <1>4, SlotKept
<1>7. QED
  BY Zenon, <1>3, <1>4, <1>5, <1>6 DEF HasPage, Chain

(* The page a thread has is the canonical page of its offset.              *)
LEMMA PageStepMine ==
  ASSUME TypeOK, CtxInv, LocalInv, LpInv, LockInv, PageInv,
         NEW t \in Threads, Step(t), pc'[t] \in WithPage, pg'[t] # NULL
  PROVE  HasPage(MyCtx(t), off[t], pg[t])'
<1>a. pc \in [Threads -> Pcs] /\ pg \in [Threads -> Pages \cup {NULL}]
  BY Zenon DEF TypeOK
<1>b. /\ MyCtx(t) \in Allocated /\ MyCtx(t) \in Ctxs /\ off[t] \in PgOffs
      /\ MyCpi(t) \in CpIdx
  BY Zenon, StepFrame, MyTypes
<1>c. MyCtx(t)' = MyCtx(t) /\ off'[t] = off[t]
  BY Zenon, StepFrame, StepMine DEF WithPage
<1>1. CASE CpHit(t)
  <2>1. pc[t] = "slot" /\ pg'[t] = cp[lp[t]][MyCpi(t)]
    BY Zenon, <1>a, <1>1 DEF CpHit
  <2>2. lp[t] \in hash[MyCtx(t)] /\ lpn[lp[t]] = MyLpn(t)
    BY Zenon, <2>1 DEF LpInv, LpOK, Holding
  <2>3. \A l \in Chain(MyCtx(t), MyLpn(t)) : l = lp[t]
    BY Zenon, <1>b, <2>2 DEF Chain, LpInv, OneLpPerLpn
  <2>4. HasPage(MyCtx(t), off[t], pg'[t])
    BY Zenon, <2>1, <2>2, <2>3 DEF HasPage, MyLpn, MyCpi, Chain
  <2>5. QED
    BY Zenon, <1>b, <1>c, <2>4, HasPageKept
<1>2. CASE CpStore(t)
  <2>1. /\ pc[t] = "store" /\ pg'[t] = pg[t]
        /\ cp' = [cp EXCEPT ![lp[t]] = [@ EXCEPT ![MyCpi(t)] = pg[t]]]
        /\ hash' = hash /\ lpn' = lpn /\ ctxLayout' = ctxLayout
    BY Zenon, <1>a, <1>2 DEF CpStore, ctxVars
  <2>2. lp[t] \in hash[MyCtx(t)] /\ lpn[lp[t]] = MyLpn(t) /\ lp[t] \in Lps
    BY Zenon, <1>b, <2>1 DEF LpInv, LpOK, Holding, TypeOK
  <2>3. \A l \in Chain(MyCtx(t), MyLpn(t)) : l = lp[t]
    BY Zenon, <1>b, <2>2 DEF Chain, LpInv, OneLpPerLpn
  <2>4. cp'[lp[t]][MyCpi(t)] = pg[t]
    BY Zenon, <1>b, <2>1, <2>2 DEF TypeOK
  <2>5. QED
    BY ZenonT(30), <1>c, <2>1, <2>2, <2>3, <2>4
    DEF HasPage, MyLpn, MyCpi, Chain, LpnOf, CpiOf, CpPerLp
<1>3. CASE ~(CpHit(t) \/ CpStore(t))
  <2>1. pc[t] \in WithPage \/ CpAllocFail(t)
    BY Zenon, <1>a, <1>3, StepFlow DEF Flow, WithPage
  <2>2. pg'[t] = pg[t]
    <3>1. pc[t] # "slot" => pg' = pg \/ pg'[t] = NULL
      BY Zenon, <1>a, <1>3, StepEffect DEF Return, CpAlloc
    <3>2. CpAllocFail(t) => pg' = pg
      BY Zenon DEF CpAllocFail
    <3>3. QED
      BY Zenon, <2>1, <3>1, <3>2 DEF WithPage
  <2>3. pc[t] \in WithPage
    BY Zenon, <2>1, <2>2 DEF CpAllocFail, LocalInv, LocalOK, WithPage
  <2>4. HasPage(MyCtx(t), off[t], pg'[t])
    BY Zenon, <2>2, <2>3 DEF PageInv
  <2>5. QED
    BY Zenon, <1>b, <1>c, <2>4, HasPageKept
<1>4. QED
  BY Zenon, <1>1, <1>2, <1>3

(* The handlers and the kernel install at an offset only the canonical     *)
(* page cached for it.                                                     *)
LEMMA PageStep ==
  ASSUME TypeOK, CtxInv, LocalInv, LpInv, LockInv, PageInv,
         NEW t \in Threads, Step(t)
  PROVE  PageInv'
<1>1. ASSUME NEW u \in Threads, pc'[u] \in WithPage, pg'[u] # NULL
      PROVE  HasPage(MyCtx(u), off[u], pg[u])'
  <2>1. CASE u = t
    BY Zenon, <1>1, <2>1, PageStepMine
  <2>2. CASE u # t
    <3>1. Quiet(u) /\ MyCtx(u)' = MyCtx(u)
      BY Zenon, <1>1, <2>2, StepFrame, StepMine DEF WithPage
    <3>2. pc[u] # "idle" /\ HasPage(MyCtx(u), off[u], pg[u])
      BY Zenon, <1>1, <3>1 DEF Quiet, PageInv, WithPage
    <3>3. MyCtx(u) \in Allocated /\ off[u] \in PgOffs
      BY Zenon, <3>2, MyTypes
    <3>4. QED
      BY Zenon, <1>1, <3>1, <3>2, <3>3, HasPageKept DEF Quiet
  <2>3. QED
    BY Zenon, <2>1, <2>2
<1>2. ASSUME NEW v \in Mapped', NEW o \in PgOffs, pte'[v][o] # NULL
      PROVE  HasPage(vmaCtx[v], o, pte[v][o])'
  <2>1. vmaCtx' = vmaCtx /\ v \in Mapped /\ v \in Vmas
    BY Zenon, StepFrame DEF Mapped
  <2>2. vmaCtx[v] \in Allocated
    BY Zenon, <2>1 DEF CtxInv
  <2>3. CASE pte'[v][o] = pte[v][o]
    BY Zenon, <1>2, <2>1, <2>2, <2>3, HasPageKept DEF PageInv
  <2>4. CASE pte'[v][o] # pte[v][o]
    <3>1. MapPage(t)
      BY Zenon, <2>4, StepEffect
    <3>2. pc[t] = "map" /\ area[t] = v /\ off[t] = o /\ pte'[v][o] = pg[t]
      BY Zenon, <2>1, <2>4, <3>1 DEF MapPage, TypeOK
    <3>3. HasPage(vmaCtx[v], o, pg[t])
      BY Zenon, <1>2, <3>2 DEF PageInv, MyCtx, WithPage
    <3>4. QED
      BY Zenon, <1>2, <2>1, <2>2, <3>2, <3>3, HasPageKept
  <2>5. QED
    BY Zenon, <2>3, <2>4
<1>3. QED
  BY Zenon, <1>1, <1>2 DEF PageInv

(* A write to a page installed read-only begins with the canonical page of *)
(* its offset.                                                             *)
LEMMA PageBegin ==
  ASSUME TypeOK, CtxInv, LocalInv, PageInv, NEW t \in Threads, Begin(t)
  PROVE  PageInv'
<1>1. UNCHANGED <<vmaCtx, ctxLayout, hash, lpn, cp, pte>>
  BY Zenon, BeginFrame DEF vmaVars, pteVars, ctxVars, lpVars
<1>2. \A c, o, p : HasPage(c, o, p) => HasPage(c, o, p)'
  BY Zenon, <1>1 DEF HasPage, Chain, LpnOf, CpiOf, CpPerLp
<1>3. ASSUME NEW u \in Threads, pc'[u] \in WithPage, pg'[u] # NULL
      PROVE  HasPage(MyCtx(u), off[u], pg[u])'
  <2>1. CASE u = t
    <3>1. PICK v \in Vmas, o \in PgOffs :
            \/ \E k \in {"read", "write"} : FaultBegin(t, v, o, k)
            \/ WpBegin(t, v, o)
      BY Zenon DEF Begin
    <3>2. WpBegin(t, v, o)
      BY Zenon, <1>3, <2>1, <3>1 DEF FaultBegin, Goto, WithPage, TypeOK
    <3>3. /\ area'[t] = v /\ off'[t] = o /\ pg'[t] = pte[v][o]
          /\ o \in vmaOffs[v] /\ pte[v][o] # NULL
      BY Zenon, <3>2 DEF WpBegin, Request, TypeOK
    <3>4. v \in Mapped
      BY Zenon, <3>3 DEF CtxInv
    <3>5. QED
      BY Zenon, <1>1, <1>2, <2>1, <3>3, <3>4 DEF PageInv, MyCtx
  <2>2. CASE u # t
    BY Zenon, <1>2, <1>3, <2>2, BeginFrame DEF PageInv, Quiet
  <2>3. QED
    BY Zenon, <2>1, <2>2
<1>4. QED
  BY Zenon, <1>1, <1>2, <1>3 DEF PageInv, Mapped

(* A user's call leaves the other areas alone; a new area is empty.        *)
LEMMA UserArea ==
  ASSUME TypeOK, CtxInv, User, NEW w \in Vmas, w \in Mapped'
  PROVE  /\ UNCHANGED <<lpn, cp, dirty>>
         /\ \/ /\ w \in Mapped
               /\ vmaCtx'[w] = vmaCtx[w]
               /\ pte'[w] = pte[w] /\ pteWritable'[w] = pteWritable[w]
               /\ ctxLayout'[vmaCtx[w]] = ctxLayout[vmaCtx[w]]
               /\ hash'[vmaCtx[w]] = hash[vmaCtx[w]]
            \/ pteWritable'[w] = {} /\ \A o \in PgOffs : pte'[w][o] = NULL
<1> DEFINE Same == /\ w \in Mapped
                   /\ vmaCtx'[w] = vmaCtx[w]
                   /\ pte'[w] = pte[w] /\ pteWritable'[w] = pteWritable[w]
                   /\ ctxLayout'[vmaCtx[w]] = ctxLayout[vmaCtx[w]]
                   /\ hash'[vmaCtx[w]] = hash[vmaCtx[w]]
           Fresh == pteWritable'[w] = {} /\ \A o \in PgOffs : pte'[w][o] = NULL
<1>a. UNCHANGED <<lpn, cp, dirty>>
  BY Zenon DEF User, SetLayout, Mmap, Munmap, lpVars
<1>1. ASSUME NEW L \in Layouts, SetLayout(L)
      PROVE  Same
  BY Zenon, <1>1 DEF SetLayout, Mapped, vmaVars, pteVars, ctxVars
<1>2. ASSUME NEW v \in Vmas, NEW first \in PgOffs, NEW last \in PgOffs,
             Mmap(v, first, last)
      PROVE  Same \/ Fresh
  <2>1. CASE w \in Mapped
    BY <1>2, <2>1 DEF Mmap, Mapped, Allocated, CtxInv, TypeOK, pteVars
  <2>2. CASE w \notin Mapped
    <3>1. pteWritable[w] = {} /\ \A o \in PgOffs : pte[w][o] = NULL
      BY Zenon, <2>2 DEF CtxInv
    <3>2. pte' = pte /\ pteWritable' = pteWritable
      BY Zenon, <1>2 DEF Mmap, pteVars
    <3>3. QED
      BY Zenon, <3>1, <3>2
  <2>3. QED
    BY ZenonT(30), <2>1, <2>2
<1>3. ASSUME NEW v \in Vmas, Munmap(v)
      PROVE  Same
  <2>1. w # v /\ v \in Mapped /\ vmaCtx[v] \in Ctxs
    BY Zenon, <1>3 DEF Munmap, Mapped, TypeOK
  <2>2. vmaCtx'[w] = vmaCtx[w] /\ w \in Mapped
    BY Zenon, <1>3, <2>1 DEF Munmap, Mapped, TypeOK
  <2>3. vmaCtx[w] # vmaCtx[v] /\ vmaCtx[w] \in Ctxs
    BY Zenon, <2>1, <2>2 DEF CtxInv, Allocated
  <2>4. QED
    BY Zenon, <1>3, <2>1, <2>2, <2>3 DEF Munmap, TypeOK
<1> HIDE DEF Same, Fresh
<1>4. Same \/ Fresh
  BY Zenon, <1>1, <1>2, <1>3 DEF User
<1>5. QED
  BY ZenonT(30), <1>a, <1>4 DEF Same, Fresh

(* mmap and munmap leave no page installed that the cache does not have.   *)
LEMMA PageUser ==
  ASSUME TypeOK, CtxInv, PageInv, User
  PROVE  PageInv'
<1>1. UNCHANGED <<pc, off, pg, lpn, cp>>
  BY Zenon DEF User, SetLayout, Mmap, Munmap, reqVars, lpVars
<1>2. \A c, o, p : hash'[c] = hash[c] /\ ctxLayout'[c] = ctxLayout[c]
                    /\ HasPage(c, o, p) => HasPage(c, o, p)'
  BY ZenonT(30), <1>1 DEF HasPage, Chain, LpnOf, CpiOf, CpPerLp
<1>3. ASSUME NEW u \in Threads, pc'[u] \in WithPage, pg'[u] # NULL
      PROVE  HasPage(MyCtx(u), off[u], pg[u])'
  <2>1. pc[u] # "idle" /\ HasPage(MyCtx(u), off[u], pg[u])
    BY Zenon, <1>1, <1>3 DEF PageInv, WithPage
  <2>2. /\ MyCtx(u)' = MyCtx(u) /\ hash'[MyCtx(u)] = hash[MyCtx(u)]
        /\ ctxLayout'[MyCtx(u)] = ctxLayout[MyCtx(u)]
    BY Zenon, <2>1, UserMine
  <2>3. QED
    BY Zenon, <1>1, <1>2, <2>1, <2>2
<1>4. ASSUME NEW v \in Mapped', NEW o \in PgOffs, pte'[v][o] # NULL
      PROVE  HasPage(vmaCtx[v], o, pte[v][o])'
  <2>1. /\ v \in Mapped /\ vmaCtx'[v] = vmaCtx[v] /\ pte'[v] = pte[v]
        /\ ctxLayout'[vmaCtx[v]] = ctxLayout[vmaCtx[v]]
        /\ hash'[vmaCtx[v]] = hash[vmaCtx[v]]
    BY Zenon, <1>4, UserArea DEF Mapped
  <2>2. QED
    BY Zenon, <1>2, <1>4, <2>1 DEF PageInv
<1>5. QED
  BY Zenon, <1>3, <1>4 DEF PageInv

-----------------------------------------------------------------------------
(* Dirty bits.                                                             *)

(* No page is writable at first.                                           *)
LEMMA DirtyInit == Init => DirtyInv
BY Zenon DEF Init, DirtyInv, WritableIsDirty, Mapped, FaultPcs

(* No dirty bit of a linked logical page is cleared.                       *)
LEMMA BitKept ==
  ASSUME TypeOK, CtxInv, LocalInv, LpInv, NEW t \in Threads, Step(t),
         NEW c \in Ctxs, NEW l \in hash[c]
  PROVE  dirty[l] \subseteq dirty'[l]
<1>1. l \in lpLive /\ l \in Lps
  BY Zenon DEF LpInv, TypeOK
<1>2. CASE MkMark(t)
  BY Zenon, <1>1, <1>2 DEF MkMark, TypeOK
<1>3. CASE LpAlloc(t)
  BY <1>1, <1>3 DEF LpAlloc, TypeOK
<1>4. CASE ~(MkMark(t) \/ LpAlloc(t))
  BY Zenon, <1>4, StepEffect
<1>5. QED
  BY Zenon, <1>2, <1>3, <1>4

(* An offset that is dirty stays dirty through every step of a handler.    *)
LEMMA DirtyKept ==
  ASSUME TypeOK, CtxInv, LocalInv, LpInv, NEW t \in Threads, Step(t),
         NEW c \in Allocated, NEW o, Chain(c, LpnOf(ctxLayout[c], o)) # {},
         DirtyAt(c, o)
  PROVE  DirtyAt(c, o)'
<1> DEFINE n == LpnOf(ctxLayout[c], o)
           i == CpiOf(ctxLayout[c], o)
<1>1. c \in Ctxs
  BY Zenon DEF Allocated
<1>2. LpnOf(ctxLayout[c], o)' = n /\ CpiOf(ctxLayout[c], o)' = i
  BY Zenon, StepFrame DEF LpnOf, CpiOf, CpPerLp
<1>3. {l \in hash[c] : lpn[l] = n} # {} /\ \A l \in hash[c] : lpn[l] = n => i \in dirty[l]
  BY Zenon DEF DirtyAt, Chain
<1> HIDE DEF n, i
<1>4. {l \in hash'[c] : lpn'[l] = n} = {l \in hash[c] : lpn[l] = n}
  BY Zenon, <1>1, <1>3, ChainKept
<1>5. \A l \in hash[c] : lpn[l] = n => i \in dirty'[l]
  BY Zenon, <1>1, <1>3, BitKept
<1>6. QED
  BY Zenon, <1>2, <1>4, <1>5 DEF DirtyAt, Chain

(* A page becomes writable only after kdb_page_mkwrite has set its dirty   *)
(* bit.                                                                    *)
LEMMA DirtyStep ==
  ASSUME TypeOK, CtxInv, LocalInv, LpInv, LockInv, PageInv, DirtyInv,
         NEW t \in Threads, Step(t)
  PROVE  DirtyInv'
<1> DEFINE Marked(u) == \/ pc[u] \in {"mkput", "mkstat"}
                        \/ pc[u] = "map" /\ kind[u] # "read"
<1>a. /\ pc \in [Threads -> Pcs] /\ kind \in [Threads -> Kinds]
      /\ LocalOK(t)
  BY Zenon DEF TypeOK, LocalInv
<1>b. \A u \in Threads : Marked(u) =>
        /\ MyCtx(u) \in Allocated
        /\ Chain(MyCtx(u), LpnOf(ctxLayout[MyCtx(u)], off[u])) # {}
        /\ DirtyAt(MyCtx(u), off[u])
  <2>1. ASSUME NEW u \in Threads, Marked(u)
        PROVE  pc[u] \in WithPage /\ pg[u] # NULL /\ pc[u] # "idle"
    BY Zenon, <2>1 DEF LocalInv, LocalOK, WithPage
  <2>2. QED
    BY Zenon, <2>1, MyTypes DEF DirtyInv, PageInv, HasPage
<1>1. ASSUME NEW u \in Threads, Marked(u), pc'[u] # "idle"
      PROVE  DirtyAt(MyCtx(u), off[u])'
  <2>1. MyCtx(u)' = MyCtx(u) /\ off'[u] = off[u]
    BY Zenon, <1>1, StepFrame, StepMine DEF Quiet
  <2>2. QED
    BY Zenon, <1>1, <1>b, <2>1, DirtyKept
<1>2. ASSUME MkMark(t)
      PROVE  DirtyAt(MyCtx(t), off[t])'
  <2>1. /\ pc[t] = "mkmark" /\ pc'[t] = "mkput"
        /\ dirty' = [dirty EXCEPT ![lp[t]] = @ \cup {MyCpi(t)}]
        /\ hash' = hash /\ lpn' = lpn /\ ctxLayout' = ctxLayout
    BY Zenon, <1>a, <1>2 DEF MkMark, Goto, ctxVars
  <2>2. MyCtx(t) \in Ctxs /\ MyCtx(t)' = MyCtx(t) /\ off'[t] = off[t]
    BY Zenon, <2>1, MyTypes, StepMine, StepFrame
  <2>3. lp[t] \in hash[MyCtx(t)] /\ lpn[lp[t]] = MyLpn(t) /\ lp[t] \in Lps
    BY Zenon, <2>1, <2>2 DEF LpInv, LpOK, Holding, TypeOK
  <2>4. \A l \in Chain(MyCtx(t), MyLpn(t)) : l = lp[t]
    BY Zenon, <2>2, <2>3 DEF Chain, LpInv, OneLpPerLpn
  <2>5. MyCpi(t) \in dirty'[lp[t]]
    BY Zenon, <2>1, <2>3 DEF TypeOK
  <2>6. QED
    BY Zenon, <2>1, <2>2, <2>4, <2>5
    DEF DirtyAt, MyLpn, MyCpi, Chain, LpnOf, CpiOf, CpPerLp
<1>3. ASSUME NEW u \in Threads
      PROVE  /\ pc'[u] \in FaultPcs => kind'[u] # "wp"
             /\ Marked(u)' => DirtyAt(MyCtx(u), off[u])'
  <2>1. CASE u # t
    <3>1. Quiet(u)
      BY Zenon, <2>1, StepFrame
    <3>2. Marked(u)' => Marked(u) /\ pc'[u] # "idle"
      BY Zenon, <3>1 DEF Quiet
    <3>3. QED
      BY ZenonT(30), <1>1, <3>1, <3>2 DEF Quiet, DirtyInv
  <2>2. CASE u = t
    <3>1. CASE Marked(t) \/ MkMark(t)
      <4>1. pc'[t] \notin FaultPcs
        BY ZenonT(30), <1>a, <3>1, StepFlow DEF Flow, FaultPcs, MkMark
      <4>2. Marked(t)' => pc'[t] # "idle"
        BY Zenon
      <4>3. QED
        BY Zenon, <1>1, <1>2, <2>2, <3>1, <4>1, <4>2
    <3>2. CASE ~Marked(t) /\ ~MkMark(t)
      <4>1. pc'[t] \in FaultPcs => pc[t] \in FaultPcs
        BY Zenon, <1>a, <3>2, StepFlow DEF Flow, FaultPcs
      <4>2. pc'[t] # "idle" => kind'[t] = kind[t]
        BY Zenon, StepFrame
      <4>3. pc[t] \in FaultPcs => kind[t] # "wp"
        BY Zenon DEF DirtyInv
      <4>4. pc'[t] \in {"mkput", "mkstat"} \/ pc'[t] = "map"
              => pc[t] = "stat" /\ kind[t] # "write" /\ pc'[t] = "map"
        BY Zenon, <1>a, <3>2, StepFlow DEF Flow
      <4>5. ~Marked(t)'
        BY Zenon, <1>a, <3>2, <4>2, <4>3, <4>4, StepFrame DEF FaultPcs, Kinds
      <4>6. QED
        BY Zenon, <2>2, <4>1, <4>2, <4>3, <4>5 DEF FaultPcs
    <3>3. QED
      BY Zenon, <3>1, <3>2
  <2>3. QED
    BY Zenon, <2>1, <2>2
<1>4. ASSUME NEW v \in Mapped', NEW o \in pteWritable'[v]
      PROVE  pte'[v][o] # NULL /\ DirtyAt(vmaCtx[v], o)'
  <2>1. vmaCtx' = vmaCtx /\ v \in Mapped /\ v \in Vmas /\ vmaCtx[v] \in Allocated
    BY Zenon, StepFrame DEF Mapped, CtxInv
  <2>2. CASE o \in pteWritable[v]
    <3>1. o \in PgOffs /\ pte[v][o] # NULL /\ DirtyAt(vmaCtx[v], o)
      BY Zenon, <2>1, <2>2 DEF DirtyInv, WritableIsDirty, TypeOK
    <3>2. Chain(vmaCtx[v], LpnOf(ctxLayout[vmaCtx[v]], o)) # {}
      BY Zenon, <2>1, <3>1 DEF PageInv, HasPage
    <3>3. pte'[v][o] # NULL
      <4>1. CASE MapPage(t)
        BY <2>1, <3>1, <4>1 DEF MapPage, TypeOK
      <4>2. CASE ~MapPage(t)
        BY Zenon, <3>1, <4>2, StepEffect
      <4>3. QED
        BY Zenon, <4>1, <4>2
    <3>4. QED
      BY Zenon, <2>1, <3>1, <3>2, <3>3, DirtyKept
  <2>3. CASE o \notin pteWritable[v]
    <3>1. MapPage(t) \/ MapPresent(t)
      BY Zenon, <2>3, StepEffect
    <3>2. /\ pc[t] = "map"
          /\ \E k \in {"write", "wp"} :
               pteWritable' = [pteWritable EXCEPT ![area[t]] =
                                 IF kind[t] = k THEN @ \cup {off[t]} ELSE @]
      BY Zenon, <3>1 DEF MapPage, MapPresent
    <3>3. area[t] = v /\ off[t] = o /\ kind[t] # "read"
      BY <2>1, <2>3, <3>2 DEF TypeOK
    <3>4. pte'[v][o] # NULL
      <4>1. pg[t] # NULL /\ o \in PgOffs
        BY Zenon, <1>a, <3>2, <3>3 DEF LocalOK, WithPage, CtxInv
      <4>2. QED
        BY <2>1, <3>1, <3>2, <3>3, <4>1 DEF MapPage, MapPresent, TypeOK
    <3>5. QED
      BY Zenon, <1>b, <2>1, <3>2, <3>3, <3>4, DirtyKept DEF MyCtx
  <2>4. QED
    BY Zenon, <2>2, <2>3
<1>5. QED
  BY Zenon, <1>3, <1>4 DEF DirtyInv, WritableIsDirty

(* A fault that begins makes no page writable.                             *)
LEMMA DirtyBegin ==
  ASSUME TypeOK, CtxInv, DirtyInv, NEW t \in Threads, Begin(t)
  PROVE  DirtyInv'
<1>1. UNCHANGED <<vmaCtx, ctxLayout, hash, lpn, dirty, pte, pteWritable>>
  BY Zenon, BeginFrame DEF vmaVars, pteVars, ctxVars, lpVars
<1>2. \A c, o : DirtyAt(c, o) => DirtyAt(c, o)'
  BY Zenon, <1>1 DEF DirtyAt, Chain, LpnOf, CpiOf, CpPerLp
<1>3. ASSUME NEW u \in Threads
      PROVE  /\ pc'[u] \in FaultPcs => kind'[u] # "wp"
             /\ pc'[u] \in {"mkput", "mkstat"} \/ (pc'[u] = "map" /\ kind'[u] # "read")
                  => DirtyAt(MyCtx(u), off[u])'
  <2>1. CASE u = t
    BY <2>1 DEF Begin, FaultBegin, WpBegin, Request, Goto, FaultPcs, TypeOK
  <2>2. CASE u # t
    BY ZenonT(30), <1>2, <2>2, BeginFrame DEF DirtyInv, Quiet
  <2>3. QED
    BY ZenonT(30), <2>1, <2>2
<1>4. QED
  BY ZenonT(30), <1>1, <1>2, <1>3 DEF DirtyInv, WritableIsDirty, Mapped

(* munmap takes the write permissions away with the dirty bits, and mmap   *)
(* gives none.                                                             *)
LEMMA DirtyUser ==
  ASSUME TypeOK, CtxInv, DirtyInv, User
  PROVE  DirtyInv'
<1>1. UNCHANGED <<pc, off, kind, lpn, dirty>>
  BY Zenon DEF User, SetLayout, Mmap, Munmap, reqVars, lpVars
<1>2. \A c, o : hash'[c] = hash[c] /\ ctxLayout'[c] = ctxLayout[c] /\ DirtyAt(c, o)
                 => DirtyAt(c, o)'
  BY Zenon, <1>1 DEF DirtyAt, Chain, LpnOf, CpiOf, CpPerLp
<1>3. ASSUME NEW u \in Threads
      PROVE  /\ pc'[u] \in FaultPcs => kind'[u] # "wp"
             /\ pc'[u] \in {"mkput", "mkstat"} \/ (pc'[u] = "map" /\ kind'[u] # "read")
                  => DirtyAt(MyCtx(u), off[u])'
  BY ZenonT(30), <1>1, <1>2, UserMine DEF DirtyInv
<1>4. ASSUME NEW v \in Mapped', NEW o \in pteWritable'[v]
      PROVE  pte'[v][o] # NULL /\ DirtyAt(vmaCtx[v], o)'
  <2>1. /\ v \in Mapped /\ vmaCtx'[v] = vmaCtx[v] /\ pte'[v] = pte[v]
        /\ pteWritable'[v] = pteWritable[v]
        /\ ctxLayout'[vmaCtx[v]] = ctxLayout[vmaCtx[v]]
        /\ hash'[vmaCtx[v]] = hash[vmaCtx[v]]
    BY ZenonT(30), <1>4, UserArea DEF Mapped
  <2>2. QED
    BY ZenonT(30), <1>2, <1>4, <2>1 DEF DirtyInv, WritableIsDirty
<1>5. QED
  BY Zenon, <1>3, <1>4 DEF DirtyInv, WritableIsDirty

-----------------------------------------------------------------------------
(* Owners.                                                                 *)

(* A context belongs to a mapped area; a logical page is linked in a       *)
(* context or is about to be inserted by a thread.                         *)
Linked(l) == \E c \in Ctxs : l \in hash[c]
Carried(l) == \E t \in Threads : pc[t] = "insert" /\ lp[t] = l
OwnersInv ==
  /\ \A c \in Allocated : \E v \in Mapped : vmaCtx[v] = c
  /\ \A l \in lpLive : Linked(l) \/ Carried(l)

(* Which steps of a handler allocate, link or free a logical page.         *)
LEMMA StepLps ==
  ASSUME NEW t \in Threads, Step(t)
  PROVE  \/ LpAlloc(t) \/ LpInsert(t) \/ LpInsertLost(t)
         \/ lpLive' = lpLive /\ hash' = hash /\ pc[t] # "insert"
BY ZenonT(30) DEF ctxVars, lpVars, Step, LpFind, LpMiss, LpAllocFail, LpCount,
     LpLock, CpHit, CpAlloc, CpAllocFail, CpCount, CpStore, LpPut, LpPutFail,
     FaultEnd, MkFind, MkMark, MkPut, MkEnd, MapPage, MapPresent

(* A step of a handler keeps an owner for each object: what LpAlloc makes  *)
(* is linked by LpInsert or freed by LpInsertLost.                         *)
LEMMA OwnersStep ==
  ASSUME IInv, OwnersInv, NEW t \in Threads, Step(t)
  PROVE  OwnersInv'
<1>a. TypeOK /\ CtxInv
  BY Zenon DEF IInv
<1>1. UNCHANGED <<vmaCtx, ctxLayout>> /\ \A u \in Threads \ {t} : Quiet(u)
  BY Zenon, <1>a, StepFrame
<1>2. \A c \in Allocated' : \E v \in Mapped' : vmaCtx'[v] = c
  BY Zenon, <1>1 DEF OwnersInv, Allocated, Mapped
<1>3. ASSUME NEW l \in Lps, Carried(l), l # lp[t]
      PROVE  Carried(l)'
  BY Zenon, <1>1, <1>3 DEF Carried, Quiet
<1>4. ASSUME NEW l \in lpLive'
      PROVE  Linked(l)' \/ Carried(l)'
  <2>1. CASE LpAlloc(t)
    <3>1. PICK k \in Lps : lpLive' = lpLive \cup {k} /\ lp' = [lp EXCEPT ![t] = k]
      BY <2>1, Zenon DEF LpAlloc
    <3>2. pc[t] = "alloc" /\ hash' = hash /\ pc'[t] = "insert" /\ lp'[t] = k
      BY ZenonT(30), <1>a, <2>1, <3>1 DEF LpAlloc, Goto, TypeOK, ctxVars
    <3>3. CASE l = k
      BY Zenon, <3>2, <3>3 DEF Carried
    <3>4. CASE l \in lpLive /\ Linked(l)
      BY Zenon, <3>2, <3>4 DEF Linked
    <3>5. CASE l \in lpLive /\ Carried(l)
      BY Zenon, <1>1, <3>2, <3>5 DEF Carried, Quiet
    <3>6. QED
      BY Zenon, <1>4, <3>1, <3>3, <3>4, <3>5 DEF OwnersInv
  <2>2. CASE LpInsert(t)
    <3>1. /\ lpLive' = lpLive
          /\ hash' = [hash EXCEPT ![MyCtx(t)] = @ \cup {lp[t]}]
          /\ pc[t] = "insert"
      BY Zenon, <2>2 DEF LpInsert, lpVars
    <3>2. MyCtx(t) \in Ctxs
      BY Zenon, <1>a, <3>1 DEF CtxInv, MyCtx, Allocated
    <3>3. CASE l = lp[t]
      BY Zenon, <1>a, <3>1, <3>2, <3>3 DEF Linked, TypeOK
    <3>4. CASE Linked(l)
      BY Zenon, <1>a, <3>1, <3>2, <3>4 DEF Linked, TypeOK
    <3>5. CASE Carried(l) /\ l # lp[t]
      BY Zenon, <1>a, <1>3, <3>1, <3>5, <1>4 DEF TypeOK
    <3>6. QED
      BY Zenon, <1>4, <3>1, <3>3, <3>4, <3>5 DEF OwnersInv
  <2>3. CASE LpInsertLost(t)
    <3>1. lpLive' = lpLive \ {lp[t]} /\ hash' = hash
      BY Zenon, <2>3 DEF LpInsertLost, ctxVars
    <3>2. CASE Linked(l)
      BY Zenon, <3>1, <3>2 DEF Linked
    <3>3. CASE Carried(l)
      BY ZenonT(30), <1>a, <1>3, <1>4, <3>1, <3>3 DEF TypeOK
    <3>4. QED
      BY Zenon, <1>4, <3>1, <3>2, <3>3 DEF OwnersInv
  <2>4. CASE lpLive' = lpLive /\ hash' = hash /\ pc[t] # "insert"
    <3>1. CASE Linked(l)
      BY Zenon, <2>4, <3>1 DEF Linked
    <3>2. CASE Carried(l)
      BY Zenon, <1>1, <2>4, <3>2 DEF Carried, Quiet
    <3>3. QED
      BY Zenon, <1>4, <2>4, <3>1, <3>2 DEF OwnersInv
  <2>5. QED
    BY Zenon, <2>1, <2>2, <2>3, <2>4, StepLps
<1>5. QED
  BY Zenon, <1>2, <1>4 DEF OwnersInv

(* A fault that begins neither allocates nor frees.                        *)
LEMMA OwnersBegin ==
  ASSUME IInv, OwnersInv, NEW t \in Threads, Begin(t)
  PROVE  OwnersInv'
<1>1. /\ UNCHANGED <<vmaCtx, ctxLayout, hash, lpLive>>
      /\ pc[t] = "idle"
      /\ \A u \in Threads \ {t} : Quiet(u)
  BY Zenon, BeginFrame DEF IInv, vmaVars, ctxVars, lpVars
<1>2. \A l \in lpLive : Carried(l) => Carried(l)'
  BY Zenon, <1>1 DEF Carried, Quiet
<1>3. \A l \in lpLive : Linked(l) => Linked(l)'
  BY Zenon, <1>1 DEF Linked
<1>4. QED
  BY Zenon, <1>1, <1>2, <1>3 DEF OwnersInv, Allocated, Mapped

(* Mmap gives a new context to a new area; Munmap frees a context with the *)
(* logical pages linked in it.                                             *)
LEMMA OwnersUser ==
  ASSUME IInv, OwnersInv, User
  PROVE  OwnersInv'
<1>a. TypeOK /\ CtxInv /\ LpInv
  BY Zenon DEF IInv
<1>1. ASSUME NEW L \in Layouts, SetLayout(L)
      PROVE  OwnersInv'
  BY Zenon, <1>1 DEF SetLayout, OwnersInv, Allocated, Mapped, Linked, Carried,
       vmaVars, ctxVars, lpVars
<1>2. ASSUME NEW v \in Vmas, NEW first \in PgOffs, NEW last \in PgOffs,
             Mmap(v, first, last)
      PROVE  OwnersInv'
  <2>1. PICK c \in Ctxs :
          /\ ctxLayout[c] = NULL
          /\ ctxLayout' = [ctxLayout EXCEPT ![c] = layout]
          /\ hash' = [hash EXCEPT ![c] = {}]
          /\ vmaCtx' = [vmaCtx EXCEPT ![v] = c]
    BY <1>2, Zenon DEF Mmap
  <2>2. lpLive' = lpLive /\ pc' = pc /\ lp' = lp /\ vmaCtx[v] = NULL
    BY Zenon, <1>2 DEF Mmap, lpVars
  <2>3. hash[c] = {}
    BY Zenon, <1>a, <2>1 DEF CtxInv, Allocated
  <2>4. hash' = hash
    BY Zenon, <1>a, <2>1, <2>3 DEF TypeOK
  <2>5. ASSUME NEW d \in Allocated'
        PROVE  \E w \in Mapped' : vmaCtx'[w] = d
    <3>1. CASE d = c
      <4>1. vmaCtx'[v] = c /\ c # NULL
        BY Zenon, <1>a, <2>1, ObjectsAssumption DEF TypeOK
      <4>2. QED
        BY Zenon, <3>1, <4>1 DEF Mapped
    <3>2. CASE d # c
      <4>1. d \in Allocated
        BY Zenon, <1>a, <2>1, <3>2 DEF Allocated, TypeOK
      <4>2. PICK w \in Mapped : vmaCtx[w] = d
        BY Zenon, <4>1 DEF OwnersInv
      <4>3. w # v /\ vmaCtx'[w] = d /\ d # NULL
        BY Zenon, <1>a, <2>1, <2>2, <4>2 DEF Mapped, TypeOK
      <4>4. QED
        BY Zenon, <4>2, <4>3 DEF Mapped
    <3>3. QED
      BY Zenon, <3>1, <3>2
  <2>6. QED
    BY Zenon, <2>2, <2>4, <2>5 DEF OwnersInv, Linked, Carried
<1>3. ASSUME NEW v \in Vmas, Munmap(v)
      PROVE  OwnersInv'
  <2> DEFINE c == vmaCtx[v]
  <2>1. /\ c # NULL
        /\ lpLive' = lpLive \ hash[c]
        /\ ctxLayout' = [ctxLayout EXCEPT ![c] = NULL]
        /\ hash' = [hash EXCEPT ![c] = {}]
        /\ vmaCtx' = [vmaCtx EXCEPT ![v] = NULL]
        /\ pc' = pc /\ lp' = lp
    BY Zenon, <1>3 DEF Munmap
  <2>2. ASSUME NEW d \in Allocated'
        PROVE  \E w \in Mapped' : vmaCtx'[w] = d
    <3>1. d \in Allocated /\ d # c
      BY Zenon, <1>a, <2>1 DEF Allocated, TypeOK
    <3>2. PICK w \in Mapped : vmaCtx[w] = d
      BY Zenon, <3>1 DEF OwnersInv
    <3>3. w # v
      BY Zenon, <3>1, <3>2
    <3>4. w \in Vmas /\ vmaCtx'[w] = vmaCtx[w] /\ vmaCtx[w] # NULL
      BY Zenon, <1>a, <2>1, <3>2, <3>3 DEF Mapped, TypeOK
    <3>5. QED
      BY Zenon, <3>2, <3>4 DEF Mapped
  <2>3. ASSUME NEW l \in lpLive'
        PROVE  Linked(l)' \/ Carried(l)'
    <3>1. CASE Linked(l)
      <4>1. PICK d \in Ctxs : l \in hash[d]
        BY Zenon, <3>1 DEF Linked
      <4>2. d # c
        BY Zenon, <2>1, <2>3, <4>1
      <4>3. l \in hash'[d]
        BY Zenon, <1>a, <2>1, <4>1, <4>2 DEF TypeOK
      <4>4. QED
        BY Zenon, <4>3 DEF Linked
    <3>2. CASE Carried(l)
      BY Zenon, <2>1, <3>2 DEF Carried
    <3>3. QED
      BY Zenon, <2>1, <2>3, <3>1, <3>2 DEF OwnersInv
  <2>4. QED
    BY Zenon, <2>2, <2>3 DEF OwnersInv
<1>4. QED
  BY Zenon, <1>1, <1>2, <1>3 DEF User

-----------------------------------------------------------------------------
(* Ranges.                                                                 *)

(* A product is not smaller than the product of smaller factors.           *)
LEMMA Grows ==
  ASSUME NEW a \in Nat, NEW b \in Nat, NEW c \in Nat, a <= b
  PROVE  a * c <= b * c
<1>1. PICK d \in Nat : b = a + d
  BY b - a \in Nat
<1>2. b * c = a * c + d * c /\ d * c \in Nat /\ a * c \in Nat
  BY <1>1
<1>3. QED
  BY <1>2

(* A common factor can be removed from a strict inequality.                *)
LEMMA Shrinks ==
  ASSUME NEW a \in Nat, NEW b \in Nat, NEW c \in Nat, a * c < b * c
  PROVE  a < b
<1>1. SUFFICES ASSUME b <= a PROVE FALSE
  OBVIOUS
<1>2. b * c <= a * c
  BY Zenon, <1>1, Grows
<1>3. a * c \in Nat /\ b * c \in Nat
  OBVIOUS
<1>4. QED
  BY <1>2, <1>3

(* The pages of a mapping that kdb_mmap accepts from offset 0 are within   *)
(* the bound test of kdb_fault, although the size is computed in a u64.    *)
LEMMA SizeInRange ==
  ASSUME NEW L \in Layouts, ValidLayout(L), L.cp_size <= PageSize,
         NEW last \in Nat, (last + 1) * PageSize <= TotalSize(L),
         NEW o \in Nat, o <= last
  PROVE  InRange(L, o)
<1> DEFINE cs == L.cp_size
           ls == L.lp_size
           n  == L.n_lpn
           k  == CpPerLp(L)
<1>1. cs \in Nat \ {0} /\ ls \in Nat \ {0} /\ n \in Nat \ {0} /\ ls % cs = 0
  BY Zenon, LayoutsAssumption DEF ValidLayout
<1>2. k \in Nat /\ ls = k * cs
  BY <1>1 DEF CpPerLp
<1>3. k # 0
  BY <1>1, <1>2
<1>4. n * ls \in Nat /\ TotalSize(L) <= n * ls
  <2>1. n * ls \in Nat
    BY <1>1
  <2>2. ASSUME NEW m \in Nat PROVE m % U64 <= m
    BY SizesAssumption
  <2>3. QED
    BY Zenon, <2>1, <2>2 DEF TotalSize
<1>5. (o + 1) * cs <= n * ls
  <2>1. (o + 1) * cs <= (o + 1) * PageSize
    <3>1. cs * (o + 1) <= PageSize * (o + 1)
      BY <1>1, Grows, SizesAssumption, o + 1 \in Nat
    <3>2. cs * (o + 1) = (o + 1) * cs /\ PageSize * (o + 1) = (o + 1) * PageSize
      BY <1>1, SizesAssumption
    <3>3. QED
      BY Zenon, <3>1, <3>2
  <2>2. (o + 1) * PageSize <= (last + 1) * PageSize
    BY Grows, SizesAssumption, o + 1 \in Nat, last + 1 \in Nat, o + 1 <= last + 1
  <2>3. (o + 1) * cs \in Nat /\ (o + 1) * PageSize \in Nat /\ (last + 1) * PageSize \in Nat
    BY <1>1, SizesAssumption
  <2>4. TotalSize(L) \in Nat
    BY <1>1, SizesAssumption DEF TotalSize
  <2>5. QED
    BY <1>4, <2>1, <2>2, <2>3, <2>4
<1>6. n * ls = (n * k) * cs /\ n * k \in Nat
  BY <1>1, <1>2
<1>7. o < n * k
  <2>1. o * cs < (o + 1) * cs
    BY <1>1
  <2>2. o * cs \in Nat /\ (o + 1) * cs \in Nat /\ (n * k) * cs \in Nat
    BY <1>1, <1>6
  <2>3. o * cs < (n * k) * cs
    BY <1>5, <1>6, <2>1, <2>2
  <2>4. QED
    BY Zenon, <1>1, <1>6, <2>3, Shrinks
<1>8. o \div k \in Nat /\ (o \div k) * k \in Nat /\ (o \div k) * k <= o
  BY <1>2, <1>3
<1>9. (o \div k) * k < n * k
  BY <1>6, <1>7, <1>8
<1>10. o \div k < n
  BY Zenon, <1>1, <1>2, <1>8, <1>9, Shrinks
<1>11. QED
  BY Zenon, <1>10 DEF InRange, LpnOf

(* Only Mmap gives an area offsets or a layout.                            *)
LEMMA RangeNext ==
  ASSUME IInv, AcceptedMappingInRange, Next
  PROVE  AcceptedMappingInRange'
<1>a. TypeOK /\ CtxInv
  BY Zenon DEF IInv
<1> DEFINE Fits(w) ==
      LET L == ctxLayout[vmaCtx[w]] IN
        0 \in vmaOffs[w] /\ L.cp_size <= PageSize
          => \A o \in vmaOffs[w] : InRange(L, o)
<1>b. \A w \in Mapped : Fits(w)
  BY Zenon DEF AcceptedMappingInRange
<1>1. CASE UNCHANGED <<vmaCtx, vmaOffs, ctxLayout>>
  BY Zenon, <1>1 DEF AcceptedMappingInRange, Mapped, InRange, LpnOf, CpPerLp
<1>2. ASSUME NEW v \in Vmas, NEW first \in PgOffs, NEW last \in PgOffs,
             Mmap(v, first, last)
      PROVE  AcceptedMappingInRange'
  <2>1. PICK c \in Ctxs :
          /\ ctxLayout[c] = NULL
          /\ ctxLayout' = [ctxLayout EXCEPT ![c] = layout]
          /\ vmaCtx' = [vmaCtx EXCEPT ![v] = c]
    BY <1>2, ZenonT(30) DEF Mmap
  <2>2. /\ vmaCtx[v] = NULL /\ first <= last /\ layout # NULL
        /\ (last - first + 1) * PageSize <= TotalSize(layout)
        /\ vmaOffs' = [vmaOffs EXCEPT ![v] =
                         {o \in PgOffs : first <= o /\ o <= last}]
    BY Zenon, <1>2 DEF Mmap
  <2>3. ASSUME NEW w \in Mapped'
        PROVE  Fits(w)'
    <3>1. CASE w = v
      <4>1. /\ vmaOffs'[v] = {o \in PgOffs : first <= o /\ o <= last}
            /\ ctxLayout'[vmaCtx'[v]] = layout
        BY Zenon, <1>a, <2>1, <2>2 DEF TypeOK
      <4>2. layout \in Layouts /\ ValidLayout(layout)
        BY Zenon, <1>a, <2>2 DEF TypeOK, CtxInv
      <4>3. ASSUME 0 \in vmaOffs'[v], layout.cp_size <= PageSize,
                   NEW o \in vmaOffs'[v]
            PROVE  InRange(layout, o)
        <5>1. first = 0 /\ o \in Nat /\ o <= last /\ last \in Nat
          <6>1. first <= 0 /\ o \in PgOffs /\ o <= last
            BY Zenon, <4>1, <4>3
          <6>2. first \in Nat /\ o \in Nat /\ last \in Nat
            BY Zenon, <6>1, SizesAssumption
          <6>3. QED
            BY <6>1, <6>2
        <5>2. (last + 1) * PageSize <= TotalSize(layout)
          <6>1. last - first + 1 = last + 1
            BY <5>1
          <6>2. QED
            BY Zenon, <2>2, <6>1
        <5>3. QED
          BY Zenon, <4>2, <4>3, <5>1, <5>2, SizeInRange
      <4>4. QED
        BY Zenon, <3>1, <4>1, <4>3 DEF InRange, LpnOf, CpPerLp
    <3>2. CASE w # v
      <4>1. w \in Mapped /\ vmaCtx'[w] = vmaCtx[w] /\ vmaOffs'[w] = vmaOffs[w]
        BY Zenon, <1>a, <2>1, <2>2, <3>2 DEF TypeOK, Mapped
      <4>2. vmaCtx[w] \in Ctxs /\ vmaCtx[w] # c
        BY Zenon, <1>a, <2>1, <4>1 DEF CtxInv, Allocated
      <4>3. ctxLayout'[vmaCtx'[w]] = ctxLayout[vmaCtx[w]]
        BY Zenon, <1>a, <2>1, <4>1, <4>2 DEF TypeOK
      <4>4. QED
        BY Zenon, <1>b, <4>1, <4>3 DEF InRange, LpnOf, CpPerLp
    <3>3. QED
      BY Zenon, <3>1, <3>2
  <2>4. QED
    BY Zenon, <2>3 DEF AcceptedMappingInRange
<1>3. ASSUME NEW v \in Vmas, Munmap(v)
      PROVE  AcceptedMappingInRange'
  <2>1. /\ vmaCtx[v] # NULL
        /\ ctxLayout' = [ctxLayout EXCEPT ![vmaCtx[v]] = NULL]
        /\ vmaCtx' = [vmaCtx EXCEPT ![v] = NULL]
        /\ vmaOffs' = [vmaOffs EXCEPT ![v] = {}]
    BY Zenon, <1>3 DEF Munmap
  <2>2. ASSUME NEW w \in Mapped'
        PROVE  Fits(w)'
    <3>1. w \in Mapped /\ w # v /\ vmaCtx'[w] = vmaCtx[w] /\ vmaOffs'[w] = vmaOffs[w]
      BY Zenon, <1>a, <2>1 DEF TypeOK, Mapped
    <3>2. vmaCtx[w] \in Ctxs /\ vmaCtx[w] # vmaCtx[v]
      BY Zenon, <1>a, <2>1, <3>1 DEF CtxInv, Mapped, Allocated
    <3>3. ctxLayout'[vmaCtx'[w]] = ctxLayout[vmaCtx[w]]
      BY Zenon, <1>a, <2>1, <3>1, <3>2 DEF TypeOK
    <3>4. QED
      BY Zenon, <1>b, <3>1, <3>3 DEF InRange, LpnOf, CpPerLp
  <2>3. QED
    BY Zenon, <2>2 DEF AcceptedMappingInRange
<1>4. ASSUME NEW t \in Threads, Begin(t) \/ Step(t)
      PROVE  UNCHANGED <<vmaCtx, vmaOffs, ctxLayout>>
  BY Zenon, <1>a, <1>4, BeginFrame, StepFrame DEF vmaVars, ctxVars
<1>5. ASSUME NEW L \in Layouts, SetLayout(L)
      PROVE  UNCHANGED <<vmaCtx, vmaOffs, ctxLayout>>
  BY Zenon, <1>5 DEF SetLayout, vmaVars, ctxVars
<1>6. QED
  BY Zenon, <1>1, <1>2, <1>3, <1>4, <1>5 DEF Next, User

-----------------------------------------------------------------------------
(* The page map.                                                           *)

(* The logical pages of an offset of an area, and its index in them.       *)
Leaves(v, o) == Chain(vmaCtx[v], LpnOf(ctxLayout[vmaCtx[v]], o))
Slot(v, o) == CpiOf(ctxLayout[vmaCtx[v]], o)

(* The table and the dirty offsets of an area, slot by slot.               *)
TableForm ==
  \A v \in Vmas :
    /\ TableOf(v) \in [PgOffs -> Pages \cup {NULL}]
    /\ DirtyOf(v) \subseteq PgOffs
    /\ \A o \in PgOffs :
         /\ v \notin Mapped \/ Leaves(v, o) = {} =>
              TableOf(v)[o] = NULL /\ o \notin DirtyOf(v)
         /\ v \in Mapped => \A l \in Leaves(v, o) :
              /\ TableOf(v)[o] = cp[l][Slot(v, o)]
              /\ o \in DirtyOf(v) <=> Slot(v, o) \in dirty[l]

(* A mapped area has a valid layout, so its offsets have slots.            *)
LEMMA AreaTypes ==
  ASSUME IInv, NEW v \in Mapped, NEW o \in PgOffs
  PROVE  /\ vmaCtx[v] \in Ctxs /\ vmaCtx[v] \in Allocated
         /\ ctxLayout[vmaCtx[v]] \in Layouts /\ ValidLayout(ctxLayout[vmaCtx[v]])
         /\ Slot(v, o) \in CpIdx
         /\ Leaves(v, o) \subseteq hash[vmaCtx[v]] /\ hash[vmaCtx[v]] \subseteq Lps
<1>1. /\ vmaCtx[v] \in Ctxs /\ vmaCtx[v] \in Allocated
      /\ ctxLayout[vmaCtx[v]] \in Layouts /\ ValidLayout(ctxLayout[vmaCtx[v]])
  BY DEF IInv, CtxInv, TypeOK, Mapped, Allocated
<1>2. Slot(v, o) \in CpIdx
  BY Zenon, <1>1, CpiInArray, SizesAssumption DEF Slot
<1>3. QED
  BY <1>1, <1>2, ZenonT(30) DEF Leaves, Chain, IInv, TypeOK

(* The tables are what the one logical page of an offset has.              *)
LEMMA TableForms == IInv => TableForm
<1> SUFFICES ASSUME IInv, NEW v \in Vmas
             PROVE  /\ TableOf(v) \in [PgOffs -> Pages \cup {NULL}]
                    /\ DirtyOf(v) \subseteq PgOffs
                    /\ \A o \in PgOffs :
                         /\ v \notin Mapped \/ Leaves(v, o) = {} =>
                              TableOf(v)[o] = NULL /\ o \notin DirtyOf(v)
                         /\ v \in Mapped => \A l \in Leaves(v, o) :
                              /\ TableOf(v)[o] = cp[l][Slot(v, o)]
                              /\ o \in DirtyOf(v) <=> Slot(v, o) \in dirty[l]
  BY Zenon DEF TableForm
<1>1. ASSUME NEW o \in PgOffs, v \notin Mapped \/ Leaves(v, o) = {}
      PROVE  TableOf(v)[o] = NULL /\ o \notin DirtyOf(v)
  <2>1. v \notin Mapped \/ SlotAt(vmaCtx[v], o) = {}
    BY Zenon, <1>1 DEF Leaves, SlotAt
  <2>2. QED
    BY Zenon, <2>1 DEF TableOf, DirtyOf
<1>2. ASSUME NEW o \in PgOffs, v \in Mapped, NEW l \in Leaves(v, o)
      PROVE  /\ TableOf(v)[o] = cp[l][Slot(v, o)]
             /\ o \in DirtyOf(v) <=> Slot(v, o) \in dirty[l]
  <2>1. Leaves(v, o) = {l}
    <3>1. OneLpPerLpn /\ vmaCtx[v] \in Ctxs
      BY Zenon, <1>2, AreaTypes DEF IInv, LpInv
    <3>2. QED
      BY Zenon, <3>1 DEF OneLpPerLpn, Leaves, Chain
  <2>2. SlotAt(vmaCtx[v], o) = {cp[l][Slot(v, o)]}
    BY Zenon, <2>1 DEF SlotAt, Slot, Leaves
  <2>3. DirtyAt(vmaCtx[v], o) <=> Slot(v, o) \in dirty[l]
    BY Zenon, <2>1 DEF DirtyAt, Slot, Leaves
  <2>4. QED
    BY Zenon, <1>2, <2>2, <2>3 DEF TableOf, DirtyOf
<1>3. ASSUME NEW o \in PgOffs
      PROVE  TableOf(v)[o] \in Pages \cup {NULL}
  <2>1. CASE v \in Mapped /\ Leaves(v, o) # {}
    <3>1. PICK l \in Leaves(v, o) : TableOf(v)[o] = cp[l][Slot(v, o)]
      BY Zenon, <1>2, <2>1
    <3>2. l \in Lps /\ Slot(v, o) \in CpIdx
      BY Zenon, <2>1, AreaTypes
    <3>3. QED
      BY <3>1, <3>2 DEF IInv, TypeOK
  <2>2. QED
    BY Zenon, <1>1, <2>1
<1>4. TableOf(v) = [o \in PgOffs |-> TableOf(v)[o]]
  BY DEF TableOf
<1>5. TableOf(v) \in [PgOffs -> Pages \cup {NULL}] /\ DirtyOf(v) \subseteq PgOffs
  BY Zenon, <1>3, <1>4 DEF DirtyOf
<1>6. QED
  BY Zenon, <1>1, <1>2, <1>5

(* A layout that KDB_SET_LAYOUT accepts has a canonical page per logical   *)
(* page at least.                                                          *)
LEMMA CpPerLpPositive ==
  ASSUME NEW L \in Layouts, ValidLayout(L)
  PROVE  CpPerLp(L) \in Nat \ {0}
<1>1. /\ L.cp_size \in Nat \ {0}
      /\ L.lp_size \in Nat \ {0}
      /\ L.lp_size % L.cp_size = 0
  BY Zenon, LayoutsAssumption DEF ValidLayout
<1>2. QED
  BY <1>1 DEF CpPerLp

(* No other offset of any area has the slot a thread works on.             *)
LEMMA OwnSlot ==
  ASSUME IInv, NEW t \in Threads, pc[t] \in Holding \ {"insert"},
         NEW v \in Mapped, NEW o \in PgOffs, lp[t] \in Leaves(v, o), Slot(v, o) = MyCpi(t)
  PROVE  v = area[t] /\ o = off[t]
<1>1. /\ area[t] \in Mapped /\ off[t] \in PgOffs /\ MyCtx(t) \in Ctxs
      /\ lp[t] \in hash[MyCtx(t)] /\ lpn[lp[t]] = MyLpn(t)
  BY Zenon, MyTypes DEF IInv, LpInv, LpOK, Holding
<1>2. /\ vmaCtx[v] \in Ctxs /\ lp[t] \in hash[vmaCtx[v]] /\ lp[t] \in Lps
      /\ lpn[lp[t]] = LpnOf(ctxLayout[vmaCtx[v]], o)
  BY Zenon, AreaTypes DEF Leaves, Chain
<1>3. vmaCtx[v] = MyCtx(t)
  BY Zenon, <1>1, <1>2 DEF IInv, LpInv
<1>4. v = area[t]
  BY Zenon, <1>1, <1>3 DEF IInv, CtxInv, MyCtx
<1> DEFINE n == CpPerLp(ctxLayout[MyCtx(t)])
<1>5. o \div n = off[t] \div n /\ o % n = off[t] % n
  BY Zenon, <1>1, <1>2, <1>3 DEF MyLpn, MyCpi, Slot, LpnOf, CpiOf
<1>6. n \in Nat \ {0}
  BY Zenon, <1>3, AreaTypes, CpPerLpPositive
<1>7. o \in Nat /\ off[t] \in Nat
  BY <1>1, SizesAssumption, Zenon
<1> HIDE DEF n
<1>8. o = off[t]
  BY <1>5, <1>6, <1>7
<1>9. QED
  BY Zenon, <1>4, <1>8

(* A step of a handler leaves the logical page of an offset alone, or      *)
(* links the first one, which is empty.                                    *)
LEMMA LeavesStep ==
  ASSUME IInv, NewInv, NEW t \in Threads, Step(t), NEW v \in Mapped, NEW o \in PgOffs
  PROVE  /\ Slot(v, o)' = Slot(v, o)
         /\ \/ Leaves(v, o)' = Leaves(v, o)
            \/ /\ Leaves(v, o) = {} /\ LpInsert(t)
               /\ \A l \in Leaves(v, o)' :
                    dirty'[l] = {} /\ \A i \in CpIdx : cp'[l][i] = NULL
<1>a. TypeOK /\ CtxInv /\ LocalInv /\ LpInv
  BY Zenon DEF IInv
<1> DEFINE c == vmaCtx[v]
           n == LpnOf(ctxLayout[c], o)
<1>1. vmaCtx' = vmaCtx /\ ctxLayout' = ctxLayout
  BY Zenon, <1>a, StepFrame
<1>2. Slot(v, o)' = Slot(v, o)
  BY Zenon, <1>1 DEF Slot, CpiOf, CpPerLp
<1>3. /\ Leaves(v, o) = {l \in hash[c] : lpn[l] = n}
      /\ Leaves(v, o)' = {l \in hash'[c] : lpn'[l] = n}
  BY Zenon, <1>1 DEF Leaves, Chain, LpnOf, CpPerLp
<1>4. c \in Ctxs /\ hash[c] \subseteq lpLive /\ hash[c] \subseteq Lps
  BY Zenon, <1>a, AreaTypes DEF LpInv
<1> HIDE DEF c, n
<1>5. CASE Leaves(v, o) # {}
  BY ZenonT(30), <1>2, <1>3, <1>4, <1>5, <1>a, ChainKept
<1>6. CASE Leaves(v, o) = {} /\ LpInsert(t)
  <2>1. /\ hash' = [hash EXCEPT ![MyCtx(t)] = @ \cup {lp[t]}]
        /\ pc[t] = "insert" /\ UNCHANGED <<lpn, cp, dirty>>
    BY Zenon, <1>6 DEF LpInsert, lpVars
  <2>2. \A l \in hash'[c] : l \in hash[c] \/ l = lp[t]
    BY Zenon, <1>a, <1>4, <2>1 DEF TypeOK
  <2>3. \A l \in Leaves(v, o)' : l = lp[t]
    BY Zenon, <1>3, <1>6, <2>1, <2>2
  <2>4. QED
    BY Zenon, <1>2, <1>6, <2>1, <2>3 DEF NewInv
<1>7. CASE Leaves(v, o) = {} /\ ~LpInsert(t)
  <2>1. hash' = hash
    BY Zenon, <1>7, StepEffect
  <2>2. \A l \in hash[c] : lpn'[l] = lpn[l]
    <3>1. CASE LpAlloc(t)
      BY <1>a, <1>4, <3>1 DEF LpAlloc, TypeOK
    <3>2. QED
      BY Zenon, <3>1, StepEffect
  <2>3. QED
    BY Zenon, <1>2, <1>3, <1>7, <2>1, <2>2
<1>8. QED
  BY Zenon, <1>5, <1>6, <1>7

(* What thread t does to slot i of logical page l: it stores its page in   *)
(* its own slot, or sets its dirty bit.                                    *)
SlotStep(t, l, i) ==
  /\ cp'[l][i] = IF CpStore(t) /\ l = lp[t] /\ i = MyCpi(t) THEN pg[t] ELSE cp[l][i]
  /\ i \in dirty'[l] <=>
       (i \in dirty[l]) \/ (MkMark(t) /\ l = lp[t] /\ i = MyCpi(t))

(* What a step of a handler changes in a linked logical page.              *)
LEMMA LinkedStep ==
  ASSUME IInv, NEW t \in Threads, Step(t), NEW c \in Ctxs, NEW l \in hash[c], NEW i \in CpIdx
  PROVE  SlotStep(t, l, i)
<1> SUFFICES
      /\ cp'[l][i] = IF CpStore(t) /\ l = lp[t] /\ i = MyCpi(t) THEN pg[t] ELSE cp[l][i]
      /\ i \in dirty'[l] <=>
           (i \in dirty[l]) \/ (MkMark(t) /\ l = lp[t] /\ i = MyCpi(t))
  BY Zenon DEF SlotStep
<1>a. TypeOK /\ CtxInv /\ LocalInv /\ LpInv
  BY Zenon DEF IInv
<1>b. l \in lpLive /\ l \in Lps
  BY Zenon, <1>a DEF LpInv, TypeOK
<1>c. pc[t] # "idle" /\ MyCpi(t) \in CpIdx
  BY Zenon, <1>a, StepFrame, MyTypes
<1>1. CASE LpAlloc(t)
  <2>1. cp'[l] = cp[l] /\ dirty'[l] = dirty[l] /\ pc[t] = "alloc"
    BY <1>a, <1>b, <1>1 DEF LpAlloc, TypeOK
  <2>2. ~CpStore(t) /\ ~MkMark(t)
    BY Zenon, <2>1 DEF CpStore, MkMark
  <2>3. QED
    BY Zenon, <2>1, <2>2
<1>2. CASE CpStore(t)
  <2>1. /\ cp' = [cp EXCEPT ![lp[t]] = [@ EXCEPT ![MyCpi(t)] = pg[t]]]
        /\ dirty' = dirty /\ pc[t] = "store"
    BY Zenon, <1>2 DEF CpStore
  <2>2. ~MkMark(t)
    BY Zenon, <2>1 DEF MkMark
  <2>3. cp'[l][i] = IF l = lp[t] /\ i = MyCpi(t) THEN pg[t] ELSE cp[l][i]
    BY ZenonT(30), <1>a, <1>b, <1>c, <2>1 DEF TypeOK
  <2>4. QED
    BY Zenon, <1>2, <2>1, <2>2, <2>3
<1>3. CASE MkMark(t)
  <2>1. /\ dirty' = [dirty EXCEPT ![lp[t]] = @ \cup {MyCpi(t)}]
        /\ cp' = cp /\ pc[t] = "mkmark"
    BY Zenon, <1>3 DEF MkMark
  <2>2. ~CpStore(t)
    BY Zenon, <2>1 DEF CpStore
  <2>3. i \in dirty'[l] <=> (i \in dirty[l]) \/ (l = lp[t] /\ i = MyCpi(t))
    BY Zenon, <1>a, <1>b, <1>c, <2>1 DEF TypeOK
  <2>4. QED
    BY Zenon, <1>3, <2>1, <2>2, <2>3
<1>4. CASE ~(LpAlloc(t) \/ CpStore(t) \/ MkMark(t))
  BY Zenon, <1>4, StepEffect
<1>5. QED
  BY Zenon, <1>1, <1>2, <1>3, <1>4

(* An entry of the table, before and after a step.                         *)
LEMMA EntryIs ==
  ASSUME TableForm, NEW v \in Vmas, v \in Mapped, NEW o \in PgOffs, NEW l \in Leaves(v, o)
  PROVE  TableOf(v)[o] = cp[l][Slot(v, o)] /\ (o \in DirtyOf(v) <=> Slot(v, o) \in dirty[l])
BY Zenon DEF TableForm

LEMMA EntryNext ==
  ASSUME TableForm', NEW v \in Vmas, v \in Mapped', NEW o \in PgOffs, NEW l \in Leaves(v, o)',
         Slot(v, o)' = Slot(v, o)
  PROVE  /\ TableOf(v)'[o] = cp'[l][Slot(v, o)]
         /\ o \in DirtyOf(v)' <=> Slot(v, o) \in dirty'[l]
<1>1. /\ TableOf(v)'[o] = cp'[l][Slot(v, o)']
      /\ o \in DirtyOf(v)' <=> Slot(v, o)' \in dirty'[l]
  BY Zenon DEF TableForm
<1>2. QED
  BY Zenon, <1>1

LEMMA NoEntry ==
  ASSUME TableForm, NEW v \in Vmas, NEW o \in PgOffs, v \notin Mapped \/ Leaves(v, o) = {}
  PROVE  TableOf(v)[o] = NULL /\ o \notin DirtyOf(v)
BY Zenon DEF TableForm

LEMMA NoEntryNext ==
  ASSUME TableForm', NEW v \in Vmas, NEW o \in PgOffs, v \notin Mapped' \/ Leaves(v, o)' = {}
  PROVE  TableOf(v)'[o] = NULL /\ o \notin DirtyOf(v)'
BY Zenon DEF TableForm

(* kdb_fault enters a page in the table in one step, kdb_page_mkwrite      *)
(* marks an offset in one step, and the other steps change neither.        *)
EntryStep(t, v, o) ==
  /\ TableOf(v)'[o] =
       IF CpStore(t) /\ v = area[t] /\ o = off[t] THEN pg[t] ELSE TableOf(v)[o]
  /\ o \in DirtyOf(v)' <=>
       (o \in DirtyOf(v)) \/ (MkMark(t) /\ v = area[t] /\ o = off[t])

LEMMA TableStep ==
  ASSUME IInv, NewInv, IInv', NEW t \in Threads, Step(t), NEW v \in Vmas, NEW o \in PgOffs
  PROVE  EntryStep(t, v, o)
<1> SUFFICES
      /\ TableOf(v)'[o] =
           IF CpStore(t) /\ v = area[t] /\ o = off[t] THEN pg[t] ELSE TableOf(v)[o]
      /\ o \in DirtyOf(v)' <=>
           (o \in DirtyOf(v)) \/ (MkMark(t) /\ v = area[t] /\ o = off[t])
  BY Zenon DEF EntryStep
<1>a. TypeOK /\ CtxInv /\ LocalInv /\ LpInv
  BY Zenon DEF IInv
<1>b. TableForm /\ TableForm'
  BY TableForms, PTL
<1>c. Mapped' = Mapped /\ area[t] \in Mapped
  BY Zenon, <1>a, StepFrame, MyTypes DEF Mapped
<1>1. CASE v \notin Mapped
  BY <1>b, <1>c, <1>1, Zenon DEF TableForm
<1>2. CASE v \in Mapped /\ Leaves(v, o)' # Leaves(v, o)
  <2>1. /\ Leaves(v, o) = {} /\ LpInsert(t) /\ Slot(v, o)' = Slot(v, o)
        /\ \A l \in Leaves(v, o)' :
             dirty'[l] = {} /\ \A i \in CpIdx : cp'[l][i] = NULL
    BY Zenon, <1>2, LeavesStep
  <2>2. ~CpStore(t) /\ ~MkMark(t)
    BY Zenon, <2>1 DEF LpInsert, CpStore, MkMark
  <2>3. TableOf(v)[o] = NULL /\ o \notin DirtyOf(v)
    BY Zenon, <1>b, <2>1 DEF TableForm
  <2>4. PICK l \in Leaves(v, o)' : TRUE
    BY <1>2, <2>1, Zenon
  <2>5. /\ TableOf(v)'[o] = cp'[l][Slot(v, o)]
        /\ o \in DirtyOf(v)' <=> Slot(v, o) \in dirty'[l]
    BY Zenon, <1>b, <1>c, <1>2, <2>1, <2>4, EntryNext
  <2>6. Slot(v, o) \in CpIdx
    BY Zenon, <1>2, AreaTypes
  <2>7. cp'[l][Slot(v, o)] = NULL /\ Slot(v, o) \notin dirty'[l]
    BY Zenon, <2>1, <2>4, <2>6
  <2>8. QED
    BY Zenon, <2>2, <2>3, <2>5, <2>7
<1>3. CASE v \in Mapped /\ Leaves(v, o)' = Leaves(v, o) /\ Leaves(v, o) = {}
  <2>1. /\ TableOf(v)[o] = NULL /\ o \notin DirtyOf(v)
        /\ TableOf(v)'[o] = NULL /\ o \notin DirtyOf(v)'
    BY Zenon, <1>b, <1>3 DEF TableForm
  <2>2. ASSUME pc[t] \in Holding \ {"insert"}, v = area[t], o = off[t]
        PROVE  FALSE
    <3>1. lp[t] \in Leaves(v, o)
      BY Zenon, <1>a, <2>2 DEF LpInv, LpOK, Leaves, Chain, MyCtx, MyLpn
    <3>2. QED
      BY Zenon, <1>3, <3>1
  <2>3. CpStore(t) \/ MkMark(t) => pc[t] \in Holding \ {"insert"}
    BY Zenon DEF CpStore, MkMark, Holding
  <2>4. QED
    BY <2>1, <2>2, <2>3, Zenon
<1>4. CASE v \in Mapped /\ Leaves(v, o)' = Leaves(v, o) /\ Leaves(v, o) # {}
  <2>1. PICK l \in Leaves(v, o) : l \in Leaves(v, o)'
    BY Zenon, <1>4
  <2>2. Slot(v, o)' = Slot(v, o)
    BY <1>4, LeavesStep, Zenon
  <2>3. /\ TableOf(v)[o] = cp[l][Slot(v, o)]
        /\ o \in DirtyOf(v) <=> Slot(v, o) \in dirty[l]
    BY <1>b, <1>4, <2>1, Zenon DEF TableForm
  <2>4. /\ TableOf(v)'[o] = cp'[l][Slot(v, o)]
        /\ o \in DirtyOf(v)' <=> Slot(v, o) \in dirty'[l]
    BY Zenon, <1>b, <1>c, <1>4, <2>1, <2>2, EntryNext
  <2>5. vmaCtx[v] \in Ctxs /\ l \in hash[vmaCtx[v]] /\ Slot(v, o) \in CpIdx
    BY Zenon, <1>4, <2>1, AreaTypes
  <2>6. ASSUME CpStore(t) \/ MkMark(t)
        PROVE  (l = lp[t] /\ Slot(v, o) = MyCpi(t)) <=> (v = area[t] /\ o = off[t])
    <3>1. pc[t] \in Holding \ {"insert"}
      BY Zenon, <2>6 DEF CpStore, MkMark, Holding
    <3>2. ASSUME l = lp[t], Slot(v, o) = MyCpi(t)
          PROVE  v = area[t] /\ o = off[t]
      BY Zenon, <1>4, <2>1, <3>1, <3>2, OwnSlot
    <3>3. ASSUME v = area[t], o = off[t]
          PROVE  l = lp[t] /\ Slot(v, o) = MyCpi(t)
      <4>1. lp[t] \in hash[vmaCtx[v]] /\ lpn[lp[t]] = MyLpn(t)
        BY <1>a, <3>1, <3>3, Zenon DEF LpInv, LpOK, MyCtx
      <4>2. l \in hash[vmaCtx[v]] /\ lpn[l] = MyLpn(t)
        BY Zenon, <2>1, <3>3 DEF Leaves, Chain, MyLpn, MyCtx
      <4>3. l = lp[t]
        BY Zenon, <1>a, <2>5, <4>1, <4>2 DEF LpInv, OneLpPerLpn
      <4>4. QED
        BY Zenon, <3>3, <4>3 DEF Slot, MyCpi, MyCtx
    <3>4. QED
      BY Zenon, <3>2, <3>3
  <2>7. /\ cp'[l][Slot(v, o)] =
             IF CpStore(t) /\ l = lp[t] /\ Slot(v, o) = MyCpi(t) THEN pg[t] ELSE cp[l][Slot(v, o)]
        /\ Slot(v, o) \in dirty'[l] <=>
             (Slot(v, o) \in dirty[l]) \/ (MkMark(t) /\ l = lp[t] /\ Slot(v, o) = MyCpi(t))
    <3>1. SlotStep(t, l, Slot(v, o))
      BY Zenon, <2>5, LinkedStep
    <3>2. QED
      BY Zenon, <3>1 DEF SlotStep
  <2>8. QED
    BY Zenon, <2>3, <2>4, <2>6, <2>7
<1>5. QED
  BY Zenon, <1>1, <1>2, <1>3, <1>4

(* The tables of all areas and their dirty offsets.                        *)
Tables == [v \in Vmas |-> TableOf(v)]
Dirties == [v \in Vmas |-> DirtyOf(v)]

(* What has been entered for an offset is what its logical page has.       *)
LEMMA HeldByTable ==
  ASSUME IInv, NEW v \in Mapped, NEW o \in PgOffs, NEW p, HasPage(vmaCtx[v], o, p)
  PROVE  /\ TableOf(v)[o] = p
         /\ DirtyAt(vmaCtx[v], o) => o \in DirtyOf(v)
<1>1. PICK l \in Leaves(v, o) : cp[l][Slot(v, o)] = p
  BY Zenon DEF HasPage, Leaves, Slot
<1>2. DirtyAt(vmaCtx[v], o) => Slot(v, o) \in dirty[l]
  BY Zenon, <1>1 DEF DirtyAt, Leaves, Slot
<1>3. v \in Vmas
  BY Zenon DEF Mapped
<1>4. QED
  BY <1>1, <1>2, <1>3, TableForms, Zenon DEF TableForm

(* CpStore enters a page that no table has, for an offset without one.     *)
LEMMA StoreFills ==
  ASSUME FullInv, IInv', NEW t \in Threads, CpStore(t)
  PROVE  PageMap!Fill(area[t], off[t], pg[t]) /\ pg[t] \in Pages
<1>a. IInv /\ NewInv /\ FreshInv /\ TypeOK /\ CtxInv /\ LpInv /\ LockInv /\ Step(t)
  BY Zenon DEF FullInv, IInv, Step
<1>b. TableForm /\ TableForm'
  BY <1>a, TableForms, PTL
<1>1. /\ pc[t] = "store" /\ pg[t] \in Pages /\ pte' = pte /\ pteWritable' = pteWritable
      /\ vmaCtx' = vmaCtx
  BY <1>a, CarriedPage, ZenonT(30) DEF CpStore, pteVars, vmaVars
<1>2. area[t] \in Mapped /\ area[t] \in Vmas /\ off[t] \in PgOffs /\ Mapped' = Mapped
  BY Zenon, <1>a, <1>1, MyTypes DEF Mapped
<1>3. TableOf(area[t])[off[t]] = NULL
  <2>1. lp[t] \in Leaves(area[t], off[t]) /\ cp[lp[t]][Slot(area[t], off[t])] = NULL
    BY <1>a, <1>1, ZenonT(30) DEF LpInv, LpOK, LockInv, LockOK, Holding, Leaves, Slot,
         Chain, MyCtx, MyLpn, MyCpi
  <2>2. QED
    BY Zenon, <1>b, <1>2, <2>1, EntryIs
<1>4. ASSUME NEW w \in Vmas, NEW q \in PgOffs
      PROVE  TableOf(w)[q] # pg[t]
  <2>1. ~Cached(pg[t]) /\ pg[t] # NULL
    BY <1>a, <1>1, ObjectsAssumption, Zenon DEF FreshInv
  <2>2. CASE w \notin Mapped \/ Leaves(w, q) = {}
    BY Zenon, <1>b, <2>1, <2>2 DEF TableForm
  <2>3. CASE w \in Mapped /\ Leaves(w, q) # {}
    <3>1. PICK l \in Leaves(w, q) : TableOf(w)[q] = cp[l][Slot(w, q)]
      BY <1>b, <2>3, Zenon DEF TableForm
    <3>2. Cached(TableOf(w)[q])
      BY <1>a, <2>3, <3>1, AreaTypes, Zenon DEF Cached
    <3>3. QED
      BY <2>1, <3>2, Zenon
  <2>4. QED
    BY Zenon, <2>2, <2>3
<1>5. Tables' = [Tables EXCEPT ![area[t]] = [@ EXCEPT ![off[t]] = pg[t]]]
  <2>1. \A v \in Vmas, o \in PgOffs :
          TableOf(v)'[o] = IF v = area[t] /\ o = off[t] THEN pg[t] ELSE TableOf(v)[o]
    <3>1. ASSUME NEW v \in Vmas, NEW o \in PgOffs
          PROVE  EntryStep(t, v, o)
      BY Zenon, <1>a, TableStep
    <3>2. QED
      BY Zenon, <3>1 DEF EntryStep
  <2>2. \A v \in Vmas : /\ TableOf(v) \in [PgOffs -> Pages \cup {NULL}]
                       /\ TableOf(v)' \in [PgOffs -> Pages \cup {NULL}]
    BY Zenon, <1>b DEF TableForm
  <2>3. \A v \in Vmas : TableOf(v)' =
          IF v = area[t] THEN [TableOf(v) EXCEPT ![off[t]] = pg[t]] ELSE TableOf(v)
    BY <2>1, <2>2
  <2>4. QED
    BY Zenon, <1>2, <2>3 DEF Tables
<1>6. Dirties' = Dirties
  <2>1. \A v \in Vmas, o \in PgOffs : o \in DirtyOf(v)' <=> o \in DirtyOf(v)
    BY <1>a, <1>1, TableStep, Zenon DEF MkMark, EntryStep
  <2>2. \A v \in Vmas : DirtyOf(v) \subseteq PgOffs /\ DirtyOf(v)' \subseteq PgOffs
    BY Zenon, <1>b DEF TableForm
  <2>3. \A v \in Vmas : DirtyOf(v)' = DirtyOf(v)
    BY Zenon, <2>1, <2>2
  <2>4. QED
    BY Zenon, <2>3 DEF Dirties
<1>7. /\ Tables[area[t]][off[t]] = NULL
      /\ \A w \in Vmas, q \in PgOffs : Tables[w][q] # pg[t]
  BY Zenon, <1>2, <1>3, <1>4 DEF Tables
<1>8. QED
  BY Zenon, <1>1, <1>2, <1>5, <1>6, <1>7 DEF PageMap!Fill, Tables, Dirties

(* MkMark marks an offset that has a page.                                 *)
LEMMA MarkMarks ==
  ASSUME FullInv, IInv', NEW t \in Threads, MkMark(t)
  PROVE  PageMap!Mark(area[t], off[t])
<1>a. IInv /\ NewInv /\ TypeOK /\ CtxInv /\ LocalInv /\ PageInv /\ Step(t)
  BY Zenon DEF FullInv, IInv, Step
<1>b. TableForm /\ TableForm'
  BY <1>a, TableForms, PTL
<1>1. pc[t] = "mkmark" /\ UNCHANGED <<pte, pteWritable, vmaCtx>>
  BY Zenon DEF MkMark, pteVars, vmaVars
<1>2. area[t] \in Mapped /\ area[t] \in Vmas /\ off[t] \in PgOffs /\ Mapped' = Mapped
  BY <1>a, <1>1, MyTypes, Zenon DEF Mapped
<1>3. pg[t] # NULL /\ HasPage(vmaCtx[area[t]], off[t], pg[t])
  BY <1>a, <1>1, Zenon DEF LocalInv, LocalOK, PageInv, WithPage, MyCtx
<1>4. TableOf(area[t])[off[t]] # NULL
  BY <1>a, <1>2, <1>3, HeldByTable, ZenonT(30)
<1>5. Tables' = Tables
  <2>1. ~CpStore(t)
    BY Zenon, <1>1 DEF CpStore
  <2>2. ASSUME NEW v \in Vmas, NEW o \in PgOffs
        PROVE  TableOf(v)'[o] = TableOf(v)[o]
    <3>1. EntryStep(t, v, o)
      BY ZenonT(30), <1>a, TableStep
    <3>2. QED
      BY Zenon, <2>1, <3>1 DEF EntryStep
  <2>3. \A v \in Vmas : TableOf(v)' = TableOf(v)
    BY <1>b, <2>2 DEF TableForm
  <2>4. QED
    BY Zenon, <2>3 DEF Tables
<1>6. Dirties' = [Dirties EXCEPT ![area[t]] = @ \cup {off[t]}]
  <2>1. \A v \in Vmas, o \in PgOffs :
          o \in DirtyOf(v)' <=> (o \in DirtyOf(v)) \/ (v = area[t] /\ o = off[t])
    BY Zenon, <1>a, TableStep DEF EntryStep
  <2>2. \A v \in Vmas : DirtyOf(v) \subseteq PgOffs /\ DirtyOf(v)' \subseteq PgOffs
    BY Zenon, <1>b DEF TableForm
  <2>3. \A v \in Vmas : DirtyOf(v)' =
          IF v = area[t] THEN DirtyOf(v) \cup {off[t]} ELSE DirtyOf(v)
    BY <1>2, <2>1, <2>2, Zenon
  <2>4. QED
    BY <1>2, <2>3, ZenonT(30) DEF Dirties
<1>7. Tables[area[t]][off[t]] # NULL
  BY Zenon, <1>2, <1>4 DEF Tables
<1>8. QED
  BY <1>1, <1>2, <1>5, <1>6, <1>7, ZenonT(30) DEF PageMap!Mark, Tables, Dirties

(* The other steps of a handler leave the tables and the marks alone.      *)
LEMMA TablesKept ==
  ASSUME IInv, NewInv, IInv', NEW t \in Threads, Step(t), ~CpStore(t), ~MkMark(t)
  PROVE  UNCHANGED <<Mapped, Tables, Dirties>>
<1>1. TableForm /\ TableForm'
  BY TableForms, PTL
<1>2. Mapped' = Mapped
  BY StepFrame, ZenonT(30) DEF Mapped, IInv
<1>3. \A v \in Vmas, o \in PgOffs :
        /\ TableOf(v)'[o] = TableOf(v)[o]
        /\ o \in DirtyOf(v)' <=> o \in DirtyOf(v)
  <2>1. ASSUME NEW v \in Vmas, NEW o \in PgOffs
        PROVE  EntryStep(t, v, o)
    BY Zenon, TableStep
  <2>2. QED
    BY Zenon, <2>1 DEF EntryStep
<1>4. ASSUME NEW v \in Vmas
      PROVE  TableOf(v)' = TableOf(v) /\ DirtyOf(v)' = DirtyOf(v)
  <2>1. /\ TableOf(v) \in [PgOffs -> Pages \cup {NULL}] /\ DirtyOf(v) \subseteq PgOffs
        /\ TableOf(v)' \in [PgOffs -> Pages \cup {NULL}] /\ DirtyOf(v)' \subseteq PgOffs
    BY Zenon, <1>1 DEF TableForm
  <2>2. QED
    BY <1>3, <2>1, Zenon
<1>5. QED
  BY Zenon, <1>2, <1>4 DEF Tables, Dirties

(* The kernel installs the page of the table, writable only if the offset  *)
(* is marked.                                                              *)
LEMMA MapInstalls ==
  ASSUME FullInv, IInv', NEW t \in Threads, MapPage(t) \/ MapPresent(t)
  PROVE  PageMap!Install(area[t], off[t])
<1>a. /\ IInv /\ NewInv /\ TypeOK /\ CtxInv /\ LocalInv /\ PageInv /\ DirtyInv
      /\ Step(t)
  BY Zenon DEF FullInv, IInv, Step
<1> DEFINE v == area[t]
           o == off[t]
<1>1. pc[t] = "map"
  BY Zenon DEF MapPage, MapPresent
<1>2. v \in Mapped /\ v \in Vmas /\ o \in PgOffs
  BY Zenon, <1>a, <1>1, MyTypes
<1>3. pg[t] \in Pages /\ HasPage(vmaCtx[v], o, pg[t])
  BY <1>a, <1>1, CarriedPage, Zenon DEF LocalInv, LocalOK, PageInv, WithPage, MyCtx
<1>4. TableOf(v)[o] = pg[t] /\ (DirtyAt(vmaCtx[v], o) => o \in DirtyOf(v))
  BY <1>a, <1>2, <1>3, HeldByTable, Zenon
<1>5. kind[t] # "read" => o \in DirtyOf(v)
  BY <1>a, <1>1, <1>4, Zenon DEF DirtyInv, MyCtx
<1>6. UNCHANGED <<Mapped, Tables, Dirties>>
  <2>1. ~CpStore(t) /\ ~MkMark(t)
    BY Zenon, <1>1 DEF CpStore, MkMark
  <2>2. QED
    BY Zenon, <1>a, <2>1, TablesKept
<1>7. pte' = [pte EXCEPT ![v] = [@ EXCEPT ![o] = TableOf(v)[o]]]
  <2>1. CASE MapPage(t)
    BY <1>4, <2>1, Zenon DEF MapPage
  <2>2. CASE MapPresent(t)
    <3>1. pte' = pte /\ pte[v][o] # NULL
      BY <2>2, ZenonT(30) DEF MapPresent
    <3>2. HasPage(vmaCtx[v], o, pte[v][o])
      BY <1>a, <1>2, <3>1, ZenonT(30) DEF PageInv
    <3>3. TableOf(v)[o] = pte[v][o]
      <4>1. ASSUME NEW p, HasPage(vmaCtx[v], o, p)
            PROVE  TableOf(v)[o] = p
        BY <1>a, <1>2, <4>1, HeldByTable, ZenonT(30)
      <4>2. QED
        BY Zenon, <3>2, <4>1
    <3>4. QED
      BY ZenonT(30), <1>a, <1>2, <3>1, <3>3 DEF TypeOK
  <2>3. QED
    BY <2>1, <2>2, Zenon
<1>8. \/ pteWritable' = pteWritable
      \/ /\ o \in DirtyOf(v)
         /\ pteWritable' = [pteWritable EXCEPT ![v] = @ \cup {o}]
  <2>1. \/ pteWritable' = [pteWritable EXCEPT ![v] = @]
        \/ /\ kind[t] # "read"
           /\ pteWritable' = [pteWritable EXCEPT ![v] = @ \cup {o}]
    BY Zenon DEF MapPage, MapPresent
  <2>2. [pteWritable EXCEPT ![v] = @] = pteWritable
    BY <1>a, <1>2, Zenon DEF TypeOK
  <2>3. QED
    BY Zenon, <1>5, <2>1, <2>2
<1>9. /\ Tables[v][o] = TableOf(v)[o] /\ Dirties[v] = DirtyOf(v) /\ TableOf(v)[o] # NULL
  BY <1>2, <1>3, <1>4, ObjectsAssumption, ZenonT(30) DEF Tables, Dirties
<1>10. QED
  BY <1>6, <1>7, <1>8, <1>9, Zenon DEF PageMap!Install, Tables, Dirties

(* A call that leaves an area alone leaves its table alone.                *)
LEMMA AreaKept ==
  ASSUME IInv, IInv', NEW w \in Vmas, UNCHANGED <<lpn, cp, dirty>>, vmaCtx'[w] = vmaCtx[w],
         ctxLayout'[vmaCtx[w]] = ctxLayout[vmaCtx[w]], hash'[vmaCtx[w]] = hash[vmaCtx[w]]
  PROVE  TableOf(w)' = TableOf(w) /\ DirtyOf(w)' = DirtyOf(w)
<1>1. w \in Mapped' <=> w \in Mapped
  BY Zenon DEF Mapped
<1>2. TableForm /\ TableForm'
  BY TableForms, PTL
<1>3. ASSUME NEW o \in PgOffs
      PROVE  /\ TableOf(w)'[o] = TableOf(w)[o]
             /\ o \in DirtyOf(w)' <=> o \in DirtyOf(w)
  <2>1. Leaves(w, o)' = Leaves(w, o) /\ Slot(w, o)' = Slot(w, o)
    BY Zenon DEF Leaves, Slot, Chain, LpnOf, CpiOf, CpPerLp
  <2>2. CASE w \notin Mapped \/ Leaves(w, o) = {}
    BY Zenon, <1>1, <1>2, <2>1, <2>2, NoEntry, NoEntryNext
  <2>3. CASE w \in Mapped /\ Leaves(w, o) # {}
    <3>1. PICK l \in Leaves(w, o) : TRUE
      BY <2>3, ZenonT(30)
    <3>2. /\ TableOf(w)[o] = cp[l][Slot(w, o)]
          /\ o \in DirtyOf(w) <=> Slot(w, o) \in dirty[l]
      BY <1>2, <2>3, <3>1, Zenon DEF TableForm
    <3>3. /\ TableOf(w)'[o] = cp'[l][Slot(w, o)]
          /\ o \in DirtyOf(w)' <=> Slot(w, o) \in dirty'[l]
      BY Zenon, <1>1, <1>2, <2>1, <2>3, <3>1, EntryNext
    <3>4. QED
      BY Zenon, <3>2, <3>3
  <2>4. QED
    BY Zenon, <2>2, <2>3
<1>4. /\ TableOf(w) \in [PgOffs -> Pages \cup {NULL}] /\ DirtyOf(w) \subseteq PgOffs
      /\ TableOf(w)' \in [PgOffs -> Pages \cup {NULL}] /\ DirtyOf(w)' \subseteq PgOffs
  BY <1>2, Zenon DEF TableForm
<1>5. QED
  BY Zenon, <1>3, <1>4

(* An area that is not mapped, or that nothing is linked for, has an empty *)
(* table.                                                                  *)
EmptyTable ==
  \A w \in Vmas : w \notin Mapped \/ hash[vmaCtx[w]] = {} =>
    TableOf(w) = PageMap!Empty /\ DirtyOf(w) = {}

(* That is so in every state.                                              *)
LEMMA EmptyTables == EmptyTable
<1>1. ASSUME NEW w \in Vmas, w \notin Mapped \/ hash[vmaCtx[w]] = {}
      PROVE  TableOf(w) = PageMap!Empty /\ DirtyOf(w) = {}
  <2>1. \A o \in PgOffs : w \notin Mapped \/ SlotAt(vmaCtx[w], o) = {}
    BY Zenon, <1>1 DEF SlotAt, Chain
  <2>2. QED
    BY Zenon, <2>1 DEF TableOf, DirtyOf, PageMap!Empty
<1>2. QED
  BY Zenon, <1>1 DEF EmptyTable

(* kdb_mmap maps an area with an empty table.                              *)
LEMMA MmapMaps ==
  ASSUME IInv, IInv', NEW v \in Vmas, NEW first \in PgOffs, NEW last \in PgOffs,
         Mmap(v, first, last)
  PROVE  PageMap!Map(v)
<1>a. TypeOK /\ CtxInv
  BY Zenon DEF IInv
<1>b. EmptyTable /\ EmptyTable'
  BY EmptyTables, PTL
<1>1. PICK c \in Ctxs : /\ ctxLayout[c] = NULL
                       /\ ctxLayout' = [ctxLayout EXCEPT ![c] = layout]
                       /\ hash' = [hash EXCEPT ![c] = {}]
                       /\ vmaCtx' = [vmaCtx EXCEPT ![v] = c]
  BY Zenon DEF Mmap
<1>2. vmaCtx[v] = NULL /\ UNCHANGED <<pte, pteWritable, lpn, cp, dirty>>
  BY ZenonT(30) DEF Mmap, pteVars, lpVars
<1>3. v \notin Mapped /\ Mapped' = Mapped \cup {v}
  <2>1. c # NULL
    BY Zenon, ObjectsAssumption
  <2>2. \A w \in Vmas : vmaCtx'[w] = IF w = v THEN c ELSE vmaCtx[w]
    BY Zenon, <1>a, <1>1 DEF TypeOK
  <2>3. QED
    BY Zenon, <1>2, <2>1, <2>2 DEF Mapped
<1>4. ASSUME NEW w \in Vmas
      PROVE  TableOf(w)' = TableOf(w) /\ DirtyOf(w)' = DirtyOf(w)
  <2>1. CASE w \in Mapped
    <3>1. vmaCtx[w] \in Ctxs /\ vmaCtx[w] # c /\ w # v
      BY Zenon, <1>a, <1>1, <1>3, <2>1 DEF CtxInv, Allocated
    <3>2. /\ vmaCtx'[w] = vmaCtx[w] /\ ctxLayout'[vmaCtx[w]] = ctxLayout[vmaCtx[w]]
          /\ hash'[vmaCtx[w]] = hash[vmaCtx[w]]
      BY Zenon, <1>a, <1>1, <3>1 DEF TypeOK
    <3>3. QED
      BY <1>2, <3>2, AreaKept, Zenon
  <2>2. CASE w \notin Mapped
    <3>1. w = v => hash'[vmaCtx'[w]] = {}
      BY <1>a, <1>1, Zenon DEF TypeOK
    <3>2. w \notin Mapped' \/ hash'[vmaCtx'[w]] = {}
      BY <1>3, <2>2, <3>1, ZenonT(30)
    <3>3. /\ TableOf(w) = PageMap!Empty /\ DirtyOf(w) = {}
          /\ TableOf(w)' = PageMap!Empty /\ DirtyOf(w)' = {}
      BY Zenon, <1>b, <2>2, <3>2 DEF EmptyTable, PageMap!Empty
    <3>4. QED
      BY Zenon, <3>3
  <2>3. QED
    BY Zenon, <2>1, <2>2
<1>5. Tables' = Tables /\ Dirties' = Dirties
  BY Zenon, <1>4 DEF Tables, Dirties
<1>6. QED
  BY Zenon, <1>2, <1>3, <1>5 DEF PageMap!Map, Tables, Dirties

(* munmap and vma_ctx_destroy empty the table of the area, and no other.   *)
LEMMA MunmapUnmaps ==
  ASSUME IInv, IInv', NEW v \in Vmas, Munmap(v)
  PROVE  PageMap!Unmap(v)
<1>a. TypeOK /\ CtxInv
  BY Zenon DEF IInv
<1>b. EmptyTable'
  BY EmptyTables, PTL
<1> DEFINE c == vmaCtx[v]
<1>1. /\ c # NULL
      /\ ctxLayout' = [ctxLayout EXCEPT ![c] = NULL]
      /\ hash' = [hash EXCEPT ![c] = {}]
      /\ pte' = [pte EXCEPT ![v] = PageMap!Empty]
      /\ pteWritable' = [pteWritable EXCEPT ![v] = {}]
      /\ vmaCtx' = [vmaCtx EXCEPT ![v] = NULL]
      /\ UNCHANGED <<lpn, cp, dirty>>
  BY Zenon DEF Munmap, PageMap!Empty
<1>2. v \in Mapped /\ Mapped' = Mapped \ {v}
  BY Zenon, <1>a, <1>1 DEF Mapped, TypeOK
<1>3. ASSUME NEW w \in Vmas
      PROVE  /\ TableOf(w)' = IF w = v THEN PageMap!Empty ELSE TableOf(w)
             /\ DirtyOf(w)' = IF w = v THEN {} ELSE DirtyOf(w)
  <2>1. CASE w = v
    BY Zenon, <1>b, <1>2, <2>1 DEF EmptyTable, PageMap!Empty
  <2>2. CASE w # v /\ w \in Mapped
    <3>1. vmaCtx[w] \in Ctxs /\ vmaCtx[w] # c
      BY Zenon, <1>a, <1>2, <2>2 DEF CtxInv, Allocated
    <3>2. /\ vmaCtx'[w] = vmaCtx[w] /\ ctxLayout'[vmaCtx[w]] = ctxLayout[vmaCtx[w]]
          /\ hash'[vmaCtx[w]] = hash[vmaCtx[w]]
      BY Zenon, <1>a, <1>1, <2>2, <3>1 DEF TypeOK
    <3>3. QED
      BY <1>1, <2>2, <3>2, AreaKept, Zenon
  <2>3. CASE w # v /\ w \notin Mapped
    <3>1. w \notin Mapped'
      BY Zenon, <1>2, <2>3
    <3>2. QED
      BY <1>b, <2>3, <3>1, EmptyTables, ZenonT(30) DEF EmptyTable, PageMap!Empty
  <2>4. QED
    BY <2>1, <2>2, <2>3, Zenon
<1>4. /\ Tables' = [Tables EXCEPT ![v] = PageMap!Empty]
      /\ Dirties' = [Dirties EXCEPT ![v] = {}]
  BY <1>3, Zenon DEF Tables, Dirties
<1>5. QED
  BY Zenon, <1>1, <1>2, <1>4 DEF PageMap!Unmap, Tables, Dirties

(* At first no area is mapped and all tables are empty.                    *)
LEMMA InitMapped == Init => PageMap!Init
<1> SUFFICES ASSUME Init
             PROVE  PageMap!Init
  BY Zenon
<1>1. Mapped = {}
  BY Zenon DEF Init, Mapped
<1>2. \A w \in Vmas : TableOf(w) = PageMap!Empty /\ DirtyOf(w) = {}
  BY Zenon, <1>1, EmptyTables DEF EmptyTable
<1>3. Tables = [v \in Vmas |-> PageMap!Empty] /\ Dirties = [v \in Vmas |-> {}]
  BY Zenon, <1>2 DEF Tables, Dirties
<1>4. QED
  BY Zenon, <1>1, <1>3 DEF Init, PageMap!Init, PageMap!Empty, Tables, Dirties

(* Every step of the cache is a step of the page map or is not seen.       *)
LEMMA StepMapped ==
  ASSUME FullInv, IInv', [Next]_vars
  PROVE  [PageMap!Next]_(PageMap!vars)
<1>a. IInv /\ NewInv /\ IInv' /\ TypeOK
  BY Zenon DEF FullInv, IInv
<1>1. ASSUME UNCHANGED <<vmaCtx, ctxLayout, hash, lpn, cp, dirty, pte, pteWritable>>
      PROVE  UNCHANGED PageMap!vars
  <2>1. \A w \in Vmas : TableOf(w)' = TableOf(w) /\ DirtyOf(w)' = DirtyOf(w)
    BY Zenon, <1>a, <1>1, AreaKept
  <2>2. QED
    BY Zenon, <1>1, <2>1 DEF PageMap!vars, Mapped
<1>2. CASE User
  <2>1. ASSUME NEW L \in Layouts, SetLayout(L) PROVE UNCHANGED PageMap!vars
    BY Zenon, <1>1, <2>1 DEF SetLayout, vmaVars, ctxVars, lpVars, pteVars
  <2>2. ASSUME NEW v \in Vmas, NEW first \in PgOffs, NEW last \in PgOffs, Mmap(v, first, last)
        PROVE  PageMap!Next
    BY Zenon, <1>a, <2>2, MmapMaps DEF PageMap!Next
  <2>3. ASSUME NEW v \in Vmas, Munmap(v) PROVE PageMap!Next
    BY Zenon, <1>a, <2>3, MunmapUnmaps DEF PageMap!Next
  <2>4. QED
    BY Zenon, <1>2, <2>1, <2>2, <2>3 DEF User
<1>3. ASSUME NEW t \in Threads, Begin(t)
      PROVE  UNCHANGED PageMap!vars
  BY Zenon, <1>a, <1>1, <1>3, BeginFrame DEF vmaVars, ctxVars, lpVars, pteVars
<1>4. ASSUME NEW t \in Threads, Step(t)
      PROVE  [PageMap!Next]_(PageMap!vars)
  <2>1. area[t] \in Vmas /\ off[t] \in PgOffs
    BY <1>a, <1>4, StepFrame, MyTypes, Zenon DEF IInv
  <2>2. CASE CpStore(t)
    BY <1>a, <2>1, <2>2, StoreFills, ZenonT(30) DEF PageMap!Next
  <2>3. CASE MkMark(t)
    BY <1>a, <2>1, <2>3, MarkMarks, Zenon DEF PageMap!Next
  <2>4. CASE MapPage(t) \/ MapPresent(t)
    BY Zenon, <1>a, <2>1, <2>4, MapInstalls DEF PageMap!Next
  <2>5. CASE ~(CpStore(t) \/ MkMark(t) \/ MapPage(t) \/ MapPresent(t))
    <3>1. UNCHANGED <<Mapped, Tables, Dirties, pte, pteWritable>>
      BY <1>a, <1>4, <2>5, TablesKept, StepEffect, Zenon
    <3>2. QED
      BY Zenon, <3>1 DEF PageMap!vars, Tables, Dirties
  <2>6. QED
    BY <2>2, <2>3, <2>4, <2>5, Zenon
<1>5. CASE UNCHANGED vars
  BY Zenon, <1>1, <1>5 DEF vars, vmaVars, ctxVars, lpVars, pteVars
<1>6. QED
  BY Zenon, <1>2, <1>3, <1>4, <1>5 DEF Next
=============================================================================
