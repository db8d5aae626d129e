------------------------ MODULE KdbCacheRefs_proofs -------------------------
(***************************************************************************)
(* What KdbCache counts: holders of logical pages, references to pages and *)
(* pages that are allocated; and that a frame backs one slot.              *)
(***************************************************************************)
EXTENDS KdbCacheSteps_proofs, FiniteSetTheorems

-----------------------------------------------------------------------------
(* Pages in slots.                                                         *)

(* A context's filled slots, and the offsets at which a page is installed, *)
(* can be counted.                                                         *)
LEMMA FilledCount ==
  ASSUME TypeOK, NEW c \in Ctxs
  PROVE  Cardinality(Filled(c)) \in Nat
<1>1. hash[c] \subseteq Lps
  BY Zenon DEF TypeOK
<1>2. IsFiniteSet(hash[c])
  BY Zenon, <1>1, ObjectsAssumption, FS_Subset
<1>3. IsFiniteSet(CpIdx)
  BY SizesAssumption, FS_Interval DEF CpIdx
<1>4. IsFiniteSet(hash[c] \X CpIdx)
  BY Zenon, <1>2, <1>3, FS_Product
<1>5. Filled(c) \subseteq hash[c] \X CpIdx
  BY Zenon DEF Filled
<1>6. QED
  BY Zenon, <1>4, <1>5, FS_Subset, FS_CardinalityType

(* The offsets at which munmap finds a page installed can be counted.      *)
LEMMA InstalledCount ==
  ASSUME NEW v \in Vmas, NEW p \in Pages
  PROVE  Cardinality(Installed(v, p)) \in Nat
BY Zenon, ObjectsAssumption, FS_Subset, FS_CardinalityType DEF Installed

(* A handler fills a slot only in CpStore: what is in the slots of linked  *)
(* logical pages after any other step was there before.                    *)
LEMMA SlotOrigin ==
  ASSUME IInv, NewInv, NEW t \in Threads, Step(t),
         NEW c \in Ctxs, NEW l \in hash'[c], NEW i \in CpIdx, cp'[l][i] # NULL
  PROVE  \/ l \in hash[c] /\ cp'[l][i] = cp[l][i]
         \/ /\ CpStore(t) /\ c = MyCtx(t) /\ l = lp[t] /\ i = MyCpi(t)
            /\ l \in hash[c] /\ cp'[l][i] = pg[t] /\ cp[l][i] = NULL
<1>a. TypeOK /\ CtxInv /\ LocalInv /\ LpInv /\ LockInv
  BY Zenon DEF IInv
<1>b. MyCtx(t) \in Ctxs /\ MyCpi(t) \in CpIdx
  BY Zenon, <1>a, StepFrame, MyTypes
<1>1. CASE LpInsert(t)
  <2>1. /\ hash' = [hash EXCEPT ![MyCtx(t)] = @ \cup {lp[t]}]
        /\ cp' = cp /\ pc[t] = "insert"
    BY Zenon, <1>1 DEF LpInsert, lpVars
  <2>2. l # lp[t]
    BY Zenon, <2>1 DEF NewInv
  <2>3. l \in hash[c]
    BY ZenonT(30), <1>a, <2>1, <2>2 DEF TypeOK
  <2>4. QED
    BY Zenon, <2>1, <2>3
<1>2. CASE LpAlloc(t)
  <2>1. hash' = hash /\ \A k \in lpLive : cp'[k] = cp[k]
    BY Zenon, <1>a, <1>2 DEF LpAlloc, TypeOK, ctxVars
  <2>2. l \in lpLive
    BY Zenon, <1>a, <2>1 DEF LpInv
  <2>3. QED
    BY Zenon, <2>1, <2>2
<1>3. CASE CpStore(t)
  <2>1. /\ cp' = [cp EXCEPT ![lp[t]] = [@ EXCEPT ![MyCpi(t)] = pg[t]]]
        /\ hash' = hash /\ pc[t] = "store"
    BY Zenon, <1>3 DEF CpStore, ctxVars
  <2>2. /\ lp[t] \in hash[MyCtx(t)] /\ lp[t] \in Lps
        /\ cp[lp[t]][MyCpi(t)] = NULL
    BY ZenonT(30), <1>a, <1>b, <2>1 DEF LpInv, LpOK, LockInv, LockOK, Holding, TypeOK
  <2>3. CASE l = lp[t] /\ i = MyCpi(t)
    <3>1. c = MyCtx(t)
      BY ZenonT(30), <1>a, <1>b, <2>1, <2>2, <2>3 DEF LpInv
    <3>2. cp'[l][i] = pg[t]
      BY <1>a, <1>b, <2>1, <2>2, <2>3, ZenonT(30) DEF TypeOK
    <3>3. QED
      BY ZenonT(30), <1>3, <2>2, <2>3, <3>1, <3>2
  <2>4. CASE ~(l = lp[t] /\ i = MyCpi(t))
    <3>1. l \in hash[c] /\ l \in Lps
      BY ZenonT(30), <1>a, <2>1 DEF TypeOK
    <3>2. cp'[l][i] = cp[l][i]
      BY ZenonT(30), <1>a, <1>b, <2>1, <2>2, <2>4, <3>1 DEF TypeOK
    <3>3. QED
      BY Zenon, <3>1, <3>2
  <2>5. QED
    BY Zenon, <2>3, <2>4
<1>4. CASE ~(LpInsert(t) \/ LpAlloc(t) \/ CpStore(t))
  BY <1>4, StepEffect, Zenon
<1>5. QED
  BY Zenon, <1>1, <1>2, <1>3, <1>4

(* A page that is cached after a step was cached or has just been stored.  *)
LEMMA CachedOrigin ==
  ASSUME IInv, NewInv, NEW t \in Threads, Step(t), NEW p \in Pages, Cached(p)'
  PROVE  Cached(p) \/ (CpStore(t) /\ p = pg[t])
<1>1. PICK c \in Ctxs : \E l \in hash'[c], i \in CpIdx : cp'[l][i] = p
  BY Zenon DEF Cached
<1>2. PICK l \in hash'[c], i \in CpIdx : cp'[l][i] = p
  BY Zenon, <1>1
<1>3. p # NULL
  BY Zenon, ObjectsAssumption
<1>4. QED
  BY <1>2, <1>3, SlotOrigin DEF Cached

(* What an area or a thread has for an offset is cached.                   *)
LEMMA HasPageCached ==
  ASSUME TypeOK, CtxInv, NEW c \in Allocated, NEW o \in PgOffs, NEW p,
         HasPage(c, o, p)
  PROVE  Cached(p)
<1>1. c \in Ctxs /\ ctxLayout[c] \in Layouts /\ ValidLayout(ctxLayout[c])
  BY DEF Allocated, CtxInv, TypeOK
<1>2. CpiOf(ctxLayout[c], o) \in CpIdx
  BY Zenon, <1>1, CpiInArray, SizesAssumption
<1>3. PICK l \in Chain(c, LpnOf(ctxLayout[c], o)) : TRUE
  BY Zenon DEF HasPage
<1>4. l \in hash[c] /\ cp[l][CpiOf(ctxLayout[c], o)] = p
  BY Zenon, <1>3 DEF HasPage, Chain
<1>5. QED
  BY ZenonT(30), <1>1, <1>2, <1>4 DEF Cached

(* A page that is installed is cached.                                     *)
LEMMA InstalledCached ==
  ASSUME IInv, NEW v \in Vmas, NEW o \in PgOffs, pte[v][o] # NULL
  PROVE  v \in Mapped /\ Cached(pte[v][o])
<1>1. v \in Mapped
  BY Zenon DEF IInv, CtxInv
<1>2. vmaCtx[v] \in Allocated /\ HasPage(vmaCtx[v], o, pte[v][o])
  BY Zenon, <1>1 DEF IInv, CtxInv, PageInv
<1>3. QED
  BY ZenonT(30), <1>1, <1>2, HasPageCached DEF IInv

(* A page that a thread has is cached unless it is on its way to a slot.   *)
LEMMA CarriedCached ==
  ASSUME IInv, NEW t \in Threads, pg[t] # NULL
  PROVE  pc[t] \in {"cpcount", "store"} \/ Cached(pg[t])
<1>1. pc[t] \in {"cpcount", "store"} \cup WithPage
  BY Zenon DEF IInv, LocalInv, LocalOK
<1>2. CASE pc[t] \in WithPage
  <2>1. pc[t] # "idle"
    BY Zenon, <1>2 DEF WithPage
  <2>2. MyCtx(t) \in Allocated /\ off[t] \in PgOffs
    BY Zenon, <2>1, MyTypes DEF IInv
  <2>3. HasPage(MyCtx(t), off[t], pg[t])
    BY Zenon, <1>2 DEF IInv, PageInv
  <2>4. QED
    BY Zenon, <2>2, <2>3, HasPageCached DEF IInv
<1>3. QED
  BY Zenon, <1>1, <1>2

-----------------------------------------------------------------------------
(* References to logical pages.                                            *)

Holders(l) == {t \in Threads : lp[t] = l}

(* Which steps of a handler take, give up or create a logical page.        *)
LEMMA StepHolds ==
  ASSUME IInv, NEW t \in Threads, Step(t)
  PROVE  \/ UNCHANGED <<lp, refcount, lpLive>>
         \/ /\ lp[t] = NULL /\ lpLive' = lpLive
            /\ \E l \in lpLive : /\ lp' = [lp EXCEPT ![t] = l]
                                /\ refcount' = [refcount EXCEPT ![l] = @ + 1]
         \/ /\ lp[t] \in Lps /\ lpLive' = lpLive \ {lp[t]}
            /\ \E l \in lpLive : /\ l # lp[t]
                                /\ lp' = [lp EXCEPT ![t] = l]
                                /\ refcount' = [refcount EXCEPT ![l] = @ + 1]
         \/ /\ lp[t] = NULL
            /\ \E l \in Lps \ lpLive : /\ lp' = [lp EXCEPT ![t] = l]
                                      /\ refcount' = [refcount EXCEPT ![l] = 1]
                                      /\ lpLive' = lpLive \cup {l}
         \/ /\ lp[t] \in Lps /\ lpLive' = lpLive
            /\ lp' = [lp EXCEPT ![t] = NULL]
            /\ refcount' = [refcount EXCEPT ![lp[t]] = @ - 1]
<1>a. TypeOK /\ CtxInv /\ LocalInv /\ LpInv /\ LocalOK(t)
  BY Zenon DEF IInv, LocalInv
<1>b. MyCtx(t) \in Ctxs /\ Chain(MyCtx(t), MyLpn(t)) \subseteq lpLive
  BY <1>a, StepFrame, MyTypes, ZenonT(30) DEF LpInv, Chain
<1>c. lp \in [Threads -> Lps \cup {NULL}]
  BY Zenon, <1>a DEF TypeOK
<1>1. CASE LpFind(t)
  <2>1. lp[t] = NULL
    BY Zenon, <1>a, <1>1 DEF LpFind, LocalOK, Holding
  <2>2. QED
    BY Zenon, <1>b, <1>1, <2>1 DEF LpFind, Hold
<1>2. CASE MkFind(t)
  <2>1. lp[t] = NULL
    BY <1>a, <1>2, Zenon DEF MkFind, LocalOK, Holding
  <2>2. Chain(MyCtx(t), MyLpn(t)) # {}
    BY Zenon, <1>2, InvImplies DEF MkFind, MkwriteFindsLp
  <2>3. QED
    BY Zenon, <1>b, <1>2, <2>1, <2>2 DEF MkFind, Hold
<1>3. CASE LpInsertLost(t)
  <2>1. lp[t] \in Lps /\ lp[t] \notin hash[MyCtx(t)]
    BY <1>a, <1>b, <1>c, <1>3, ZenonT(30) DEF LpInsertLost, LocalOK, LpInv, LpOK, Holding
  <2>2. lp[t] \notin Chain(MyCtx(t), MyLpn(t))
    BY Zenon, <2>1 DEF Chain
  <2>3. QED
    BY ZenonT(30), <1>b, <1>3, <2>1, <2>2 DEF LpInsertLost, Hold
<1>4. CASE LpAlloc(t)
  <2>1. lp[t] = NULL
    BY <1>a, <1>4, Zenon DEF LpAlloc, LocalOK, Holding
  <2>2. QED
    BY Zenon, <1>4, <2>1 DEF LpAlloc
<1>5. CASE LpPut(t) \/ LpPutFail(t) \/ MkPut(t)
  <2>1. lp[t] \in Lps
    BY <1>a, <1>c, <1>5, ZenonT(30) DEF LpPut, LpPutFail, MkPut, LocalOK, Holding
  <2>2. QED
    BY Zenon, <1>5, <2>1 DEF LpPut, LpPutFail, MkPut, Return
<1>6. CASE LpAllocFail(t) \/ MapPage(t) \/ MapPresent(t)
  <2>1. lp[t] = NULL
    BY Zenon, <1>a, <1>6 DEF LpAllocFail, MapPage, MapPresent, LocalOK, Holding
  <2>2. UNCHANGED <<refcount, lpLive>> /\ lp' = [lp EXCEPT ![t] = NULL]
    BY Zenon, <1>6 DEF LpAllocFail, MapPage, MapPresent, Return, lpVars
  <2>3. lp' = lp
    BY ZenonT(30), <1>c, <2>1, <2>2
  <2>4. QED
    BY Zenon, <2>2, <2>3
<1>7. CASE \/ LpMiss(t) \/ LpInsert(t) \/ LpCount(t) \/ LpLock(t) \/ CpHit(t) \/ CpAlloc(t)
           \/ CpAllocFail(t) \/ CpCount(t) \/ CpStore(t) \/ FaultEnd(t) \/ MkMark(t) \/ MkEnd(t)
  BY ZenonT(30), <1>7 DEF LpMiss, LpInsert, LpCount, LpLock, CpHit, CpAlloc, CpAllocFail,
       CpCount,
       CpStore, FaultEnd, MkMark, MkEnd, lpVars
<1>8. QED
  BY ZenonT(30), <1>1, <1>2, <1>3, <1>4, <1>5, <1>6, <1>7 DEF Step

(* The threads that hold a logical page can be counted.                    *)
LEMMA HoldersCount ==
  ASSUME NEW l
  PROVE  IsFiniteSet(Holders(l)) /\ Cardinality(Holders(l)) \in Nat
<1>1. Holders(l) \in SUBSET Threads
  BY Zenon DEF Holders
<1>2. QED
  BY ZenonT(30), <1>1, FiniteAssumption, FS_Subset, FS_CardinalityType

(* A thread takes, gives up or exchanges a logical page.                   *)
LEMMA HoldersMove ==
  ASSUME TypeOK, NEW t \in Threads, NEW x \in Lps \cup {NULL}, x # lp[t],
         lp' = [lp EXCEPT ![t] = x], NEW m \in Lps
  PROVE  Cardinality(Holders(m)') = IF m = x THEN Cardinality(Holders(m)) + 1
                                    ELSE IF m = lp[t] THEN Cardinality(Holders(m)) - 1
                                    ELSE Cardinality(Holders(m))
<1>1. lp \in [Threads -> Lps \cup {NULL}]
  BY Zenon DEF TypeOK
<1>2. CASE m = x
  <2>1. Holders(m)' = Holders(m) \cup {t} /\ t \notin Holders(m)
    BY Zenon, <1>1, <1>2 DEF Holders
  <2>2. QED
    BY <1>2, <2>1, HoldersCount, FS_AddElement, ZenonT(30)
<1>3. CASE m # x /\ m = lp[t]
  <2>1. Holders(m)' = Holders(m) \ {t} /\ t \in Holders(m)
    BY Zenon, <1>1, <1>3 DEF Holders
  <2>2. IsFiniteSet(Holders(m))
    BY Zenon, HoldersCount
  <2>3. Cardinality(Holders(m) \ {t}) = Cardinality(Holders(m)) - 1
    BY Zenon, <2>1, <2>2, FS_RemoveElement
  <2>4. QED
    BY Zenon, <1>3, <2>1, <2>3
<1>4. CASE m # x /\ m # lp[t]
  <2>1. Holders(m)' = Holders(m)
    BY Zenon, <1>1, <1>4 DEF Holders
  <2>2. QED
    BY Zenon, <1>4, <2>1
<1>5. QED
  BY <1>2, <1>3, <1>4, ZenonT(30)

(* Every step keeps the count of holders.                                  *)
LEMMA HoldersNext ==
  ASSUME IInv, RefcountIsHolders, [Next]_vars
  PROVE  RefcountIsHolders'
<1>a. TypeOK /\ CtxInv /\ LocalInv /\ LpInv
  BY Zenon DEF IInv
<1>b. /\ lp \in [Threads -> Lps \cup {NULL}] /\ refcount \in [Lps -> Int]
      /\ lpLive \subseteq Lps /\ NULL \notin Lps
  BY <1>a, ObjectsAssumption, ZenonT(30) DEF TypeOK
<1>c. \A m \in lpLive : refcount[m] = Cardinality(Holders(m))
  BY Zenon DEF RefcountIsHolders, Holders
<1>d. \A m : Cardinality(Holders(m)) \in Nat
  BY Zenon, HoldersCount
<1> SUFFICES ASSUME NEW m \in lpLive'
             PROVE  refcount'[m] = Cardinality(Holders(m)')
  BY Zenon DEF RefcountIsHolders, Holders
<1>1. CASE UNCHANGED <<lp, refcount>> /\ lpLive' \subseteq lpLive
  BY Zenon, <1>c, <1>1 DEF Holders
<1>2. ASSUME NEW t \in Threads, NEW l \in lpLive, l # lp[t],
             lpLive' = lpLive \ {lp[t]},
             lp' = [lp EXCEPT ![t] = l], refcount' = [refcount EXCEPT ![l] = @ + 1]
      PROVE  refcount'[m] = Cardinality(Holders(m)')
  <2>1. m \in lpLive /\ m # lp[t] /\ m \in Lps /\ l \in Lps
    BY Zenon, <1>b, <1>2
  <2>2. Cardinality(Holders(m)') =
          IF m = l THEN Cardinality(Holders(m)) + 1 ELSE Cardinality(Holders(m))
    BY <1>a, <1>2, <2>1, HoldersMove, ZenonT(30)
  <2>3. QED
    BY ZenonT(30), <1>b, <1>c, <1>2, <2>1, <2>2
<1>3. ASSUME NEW t \in Threads, Step(t)
      PROVE  refcount'[m] = Cardinality(Holders(m)')
  <2>1. CASE UNCHANGED <<lp, refcount, lpLive>>
    BY Zenon, <1>1, <2>1
  <2>2. ASSUME NEW l \in lpLive, lp[t] = NULL, lpLive' = lpLive,
               lp' = [lp EXCEPT ![t] = l], refcount' = [refcount EXCEPT ![l] = @ + 1]
        PROVE  refcount'[m] = Cardinality(Holders(m)')
    BY <1>b, <1>2, <2>2, Zenon
  <2>3. ASSUME NEW l \in Lps \ lpLive, lp[t] = NULL, lpLive' = lpLive \cup {l},
               lp' = [lp EXCEPT ![t] = l], refcount' = [refcount EXCEPT ![l] = 1]
        PROVE  refcount'[m] = Cardinality(Holders(m)')
    <3>1. Holders(l) = {}
      BY Zenon, <1>a, <1>b, <2>3, HeldIsLive DEF Holders
    <3>2. Cardinality(Holders(l)) = 0
      BY Zenon, <3>1, FS_EmptySet
    <3>3. m \in Lps /\ Cardinality(Holders(m)') =
            IF m = l THEN Cardinality(Holders(m)) + 1 ELSE Cardinality(Holders(m))
      BY <1>a, <1>b, <2>3, HoldersMove, ZenonT(30)
    <3>4. QED
      BY <1>b, <1>c, <2>3, <3>2, <3>3
  <2>4. ASSUME lp[t] \in Lps, lpLive' = lpLive,
               lp' = [lp EXCEPT ![t] = NULL], refcount' = [refcount EXCEPT ![lp[t]] = @ - 1]
        PROVE  refcount'[m] = Cardinality(Holders(m)')
    <3>1. m \in lpLive /\ m \in Lps
      BY Zenon, <1>b, <2>4
    <3>2. Cardinality(Holders(m)') =
            IF m = lp[t] THEN Cardinality(Holders(m)) - 1 ELSE Cardinality(Holders(m))
      BY <1>a, <1>b, <2>4, <3>1, HoldersMove, ZenonT(30)
    <3>3. QED
      BY Zenon, <1>b, <1>c, <2>4, <3>1, <3>2
  <2>5. QED
    BY ZenonT(30), <1>2, <1>3, <2>1, <2>2, <2>3, <2>4, StepHolds
<1>4. CASE User
  BY Zenon, <1>1, <1>4 DEF User, SetLayout, Mmap, Munmap, lpVars
<1>5. ASSUME NEW t \in Threads, Begin(t)
      PROVE  UNCHANGED <<lp, refcount, lpLive>>
  BY Zenon, <1>a, <1>5, BeginFrame DEF lpVars
<1>6. CASE UNCHANGED vars
  BY ZenonT(30), <1>1, <1>6 DEF vars, lpVars
<1>7. QED
  BY ZenonT(30), <1>1, <1>3, <1>4, <1>5, <1>6 DEF Next

-----------------------------------------------------------------------------
(* References to pages.                                                    *)

(* The threads that carry a page and the places it is installed at.        *)
Users(p) == {t \in Threads : pg[t] = p}
Views(p) == {e \in Vmas \X PgOffs : pte[e[1]][e[2]] = p}

(* CachedPageRefs, page by page.                                           *)
RefsOK(p) ==
  Cached(p) => pageRef[p] = 1 + Cardinality(Users(p)) + Cardinality(Views(p))

(* PagesNotAliased, slot by slot.                                          *)
Unaliased ==
  \A c, d \in Ctxs : \A k \in hash[c], l \in hash[d], i, j \in CpIdx :
    cp[k][i] # NULL /\ cp[k][i] = cp[l][j] => k = l /\ i = j

(* The threads that carry a page can be counted.                           *)
LEMMA UsersCount ==
  ASSUME NEW p
  PROVE  IsFiniteSet(Users(p)) /\ Cardinality(Users(p)) \in Nat
<1>1. Users(p) \in SUBSET Threads
  BY Zenon DEF Users
<1>2. QED
  BY Zenon, <1>1, FiniteAssumption, FS_Subset, FS_CardinalityType

(* The places a page is installed at can be counted.                       *)
LEMMA ViewsCount ==
  ASSUME NEW p
  PROVE  IsFiniteSet(Views(p)) /\ Cardinality(Views(p)) \in Nat
<1>1. Views(p) \in SUBSET (Vmas \X PgOffs)
  BY Zenon DEF Views
<1>2. IsFiniteSet(Vmas \X PgOffs)
  BY Zenon, FiniteAssumption, ObjectsAssumption, FS_Product
<1>3. QED
  BY Zenon, <1>1, <1>2, FS_Subset, FS_CardinalityType

(* The two forms of the reference counts agree.                            *)
LEMMA RefsForms ==
  ASSUME TypeOK
  PROVE  CachedPageRefs <=> \A p \in Pages : RefsOK(p)
<1>1. ASSUME CachedPageRefs, NEW p \in Pages, Cached(p)
      PROVE  pageRef[p] = 1 + Cardinality(Users(p)) + Cardinality(Views(p))
  <2>1. PICK c \in Ctxs : \E l \in hash[c], i \in CpIdx : cp[l][i] = p
    BY Zenon, <1>1 DEF Cached
  <2>2. PICK l \in hash[c], i \in CpIdx : cp[l][i] = p
    BY Zenon, <2>1
  <2>3. <<l, i>> \in Filled(c)
    BY Zenon, <2>2, ObjectsAssumption DEF Filled
  <2>4. <<l, i>>[1] = l /\ <<l, i>>[2] = i
    BY Zenon
  <2>5. QED
    BY <1>1, <2>2, <2>3, <2>4, Zenon DEF CachedPageRefs, Users, Views
<1>2. ASSUME \A p \in Pages : RefsOK(p), NEW c \in Ctxs, NEW s \in Filled(c)
      PROVE  LET p == cp[s[1]][s[2]] IN
             pageRef[p] = 1 + Cardinality({t \in Threads : pg[t] = p})
                            + Cardinality({e \in Vmas \X PgOffs : pte[e[1]][e[2]] = p})
  <2> DEFINE p == cp[s[1]][s[2]]
  <2>1. s[1] \in hash[c] /\ s[2] \in CpIdx /\ p # NULL
    BY Zenon DEF Filled
  <2>2. p \in Pages
    BY <2>1 DEF TypeOK
  <2>3. Cached(p)
    BY Zenon, <2>1 DEF Cached
  <2> HIDE DEF p
  <2>4. pageRef[p] = 1 + Cardinality(Users(p)) + Cardinality(Views(p))
    BY ZenonT(30), <1>2, <2>2, <2>3 DEF RefsOK
  <2>5. QED
    BY Zenon, <2>4 DEF p, Users, Views
<1>3. QED
  BY <1>1, <1>2, Zenon DEF CachedPageRefs, RefsOK

(* The two forms of the frames being different agree.                      *)
LEMMA AliasForms ==
  PagesNotAliased <=> Unaliased
<1>1. ASSUME PagesNotAliased, NEW c \in Ctxs, NEW d \in Ctxs,
             NEW k \in hash[c], NEW l \in hash[d], NEW i \in CpIdx, NEW j \in CpIdx,
             cp[k][i] # NULL, cp[k][i] = cp[l][j]
      PROVE  k = l /\ i = j
  <2>1. <<k, i>> \in Filled(c) /\ <<l, j>> \in Filled(d)
    BY Zenon, <1>1 DEF Filled
  <2>2. /\ <<k, i>>[1] = k /\ <<k, i>>[2] = i
        /\ <<l, j>>[1] = l /\ <<l, j>>[2] = j
    BY Zenon
  <2>3. cp[<<k, i>>[1]][<<k, i>>[2]] = cp[<<l, j>>[1]][<<l, j>>[2]]
    BY Zenon, <1>1, <2>2
  <2>4. <<k, i>> = <<l, j>>
    BY Zenon, <1>1, <2>1, <2>3 DEF PagesNotAliased
  <2>5. QED
    BY Zenon, <2>4
<1>2. ASSUME Unaliased, NEW c \in Ctxs, NEW d \in Ctxs,
             NEW s \in Filled(c), NEW r \in Filled(d),
             cp[s[1]][s[2]] = cp[r[1]][r[2]]
      PROVE  s = r
  <2>1. /\ s \in hash[c] \X CpIdx /\ r \in hash[d] \X CpIdx
        /\ cp[s[1]][s[2]] # NULL
    BY Zenon DEF Filled
  <2>2. s[1] = r[1] /\ s[2] = r[2]
    BY <1>2, <2>1 DEF Unaliased
  <2>3. QED
    BY <2>1, <2>2, SMTT(20)
<1>3. QED
  BY <1>1, <1>2, SMTT(20) DEF PagesNotAliased, Unaliased

(* A thread takes a page.                                                  *)
LEMMA UsersAdd ==
  ASSUME TypeOK, NEW t \in Threads, pg[t] = NULL, NEW q \in Pages,
         pg' = [pg EXCEPT ![t] = q], NEW p \in Pages
  PROVE  Cardinality(Users(p)') =
           IF p = q THEN Cardinality(Users(p)) + 1 ELSE Cardinality(Users(p))
<1>1. p # NULL
  BY Zenon, ObjectsAssumption
<1>2. CASE p = q
  <2>1. Users(p)' = Users(p) \cup {t} /\ t \notin Users(p)
    BY ZenonT(30), <1>1, <1>2 DEF Users, TypeOK
  <2>2. QED
    BY <1>2, <2>1, UsersCount, FS_AddElement, ZenonT(30)
<1>3. CASE p # q
  <2>1. Users(p)' = Users(p)
    BY ZenonT(30), <1>1, <1>3 DEF Users, TypeOK
  <2>2. QED
    BY Zenon, <1>3, <2>1
<1>4. QED
  BY Zenon, <1>2, <1>3

(* A thread gives a page up.                                               *)
LEMMA UsersDrop ==
  ASSUME TypeOK, NEW t \in Threads, NEW q \in Pages, pg[t] = q,
         pg' = [pg EXCEPT ![t] = NULL], NEW p \in Pages
  PROVE  Cardinality(Users(p)') =
           IF p = q THEN Cardinality(Users(p)) - 1 ELSE Cardinality(Users(p))
<1>1. p # NULL
  BY Zenon, ObjectsAssumption
<1>2. CASE p = q
  <2>1. Users(p)' = Users(p) \ {t} /\ t \in Users(p)
    BY Zenon, <1>1, <1>2 DEF Users, TypeOK
  <2>2. IsFiniteSet(Users(p))
    BY Zenon, UsersCount
  <2>3. Cardinality(Users(p) \ {t}) = Cardinality(Users(p)) - 1
    BY Zenon, <2>1, <2>2, FS_RemoveElement
  <2>4. QED
    BY Zenon, <1>2, <2>1, <2>3
<1>3. CASE p # q
  <2>1. Users(p)' = Users(p)
    BY ZenonT(30), <1>1, <1>3 DEF Users, TypeOK
  <2>2. QED
    BY Zenon, <1>3, <2>1
<1>4. QED
  BY Zenon, <1>2, <1>3

(* A page is installed where there was none.                               *)
LEMMA ViewsAdd ==
  ASSUME TypeOK, NEW v \in Vmas, NEW o \in PgOffs, pte[v][o] = NULL, NEW q \in Pages,
         pte' = [pte EXCEPT ![v] = [@ EXCEPT ![o] = q]], NEW p \in Pages
  PROVE  Cardinality(Views(p)') =
           IF p = q THEN Cardinality(Views(p)) + 1 ELSE Cardinality(Views(p))
<1>1. p # NULL
  BY Zenon, ObjectsAssumption
<1>2. \A w \in Vmas, x \in PgOffs :
        pte'[w][x] = IF w = v /\ x = o THEN q ELSE pte[w][x]
  BY Zenon DEF TypeOK
<1>3. CASE p = q
  <2>1. Views(p)' = Views(p) \cup {<<v, o>>} /\ <<v, o>> \notin Views(p)
    BY <1>1, <1>2, <1>3 DEF Views
  <2>2. QED
    BY <1>3, <2>1, ViewsCount, FS_AddElement, Zenon
<1>4. CASE p # q
  <2>1. Views(p)' = Views(p)
    BY <1>1, <1>2, <1>4 DEF Views
  <2>2. QED
    BY Zenon, <1>4, <2>1
<1>5. QED
  BY Zenon, <1>3, <1>4

(* munmap drops the places of one area.                                    *)
LEMMA ViewsDrop ==
  ASSUME TypeOK, NEW v \in Vmas, pte' = [pte EXCEPT ![v] = [o \in PgOffs |-> NULL]],
         NEW p \in Pages
  PROVE  Cardinality(Views(p)') = Cardinality(Views(p)) - Cardinality(Installed(v, p))
<1> DEFINE D == {v} \X Installed(v, p)
<1>1. p # NULL
  BY Zenon, ObjectsAssumption
<1>2. \A w \in Vmas, x \in PgOffs : pte'[w][x] = IF w = v THEN NULL ELSE pte[w][x]
  BY Zenon DEF TypeOK
<1>3. Views(p)' = Views(p) \ D /\ D \subseteq Views(p)
  BY <1>1, <1>2 DEF Views, Installed
<1>4. IsFiniteSet(Installed(v, p))
  BY Zenon, ObjectsAssumption, FS_Subset DEF Installed
<1>5. Cardinality(D) = 1 * Cardinality(Installed(v, p))
  <2>1. IsFiniteSet({v}) /\ Cardinality({v}) = 1
    BY Zenon, FS_Singleton
  <2>2. Cardinality(D) = Cardinality({v}) * Cardinality(Installed(v, p))
    BY Zenon, <1>4, <2>1, FS_Product
  <2>3. QED
    BY Zenon, <2>1, <2>2
<1>6. Cardinality(Installed(v, p)) \in Nat
  BY Zenon, <1>4, FS_CardinalityType
<1> HIDE DEF D
<1>7. Views(p) \cap D = D
  BY Zenon, <1>3
<1>8. Cardinality(Views(p) \ D) = Cardinality(Views(p)) - Cardinality(D)
  BY <1>7, ViewsCount, FS_Difference, ZenonT(30)
<1>9. QED
  BY <1>3, <1>5, <1>6, <1>8

(* Which steps of a handler move references.                               *)
LEMMA StepRefs ==
  ASSUME IInv, NEW t \in Threads, Step(t)
  PROVE  \/ UNCHANGED <<pg, pte, pageRef>>
         \/ CpHit(t) \/ CpAlloc(t) \/ CpStore(t) \/ MapPage(t) \/ MapPresent(t)
<1>1. CASE LpAllocFail(t) \/ LpPutFail(t)
  <2>1. pg[t] = NULL
    BY ZenonT(30), <1>1 DEF LpAllocFail, LpPutFail, IInv, LocalInv, LocalOK, WithPage
  <2>2. UNCHANGED <<pte, pageRef>> /\ pg' = [pg EXCEPT ![t] = NULL]
    BY ZenonT(30), <1>1 DEF LpAllocFail, LpPutFail, Return, pteVars
  <2>3. pg' = pg
    BY ZenonT(30), <2>1, <2>2 DEF IInv, TypeOK
  <2>4. QED
    BY Zenon, <2>2, <2>3
<1>2. CASE MkFind(t)
  <2>1. Chain(MyCtx(t), MyLpn(t)) # {}
    BY Zenon, <1>2, InvImplies DEF MkFind, MkwriteFindsLp
  <2>2. QED
    BY ZenonT(30), <1>2, <2>1 DEF MkFind, pteVars
<1>3. CASE \/ LpFind(t) \/ LpMiss(t) \/ LpAlloc(t) \/ LpInsert(t) \/ LpInsertLost(t)
           \/ LpCount(t) \/ LpLock(t) \/ CpAllocFail(t) \/ CpCount(t) \/ LpPut(t)
           \/ FaultEnd(t) \/ MkMark(t) \/ MkPut(t) \/ MkEnd(t)
  BY ZenonT(30), <1>3 DEF LpFind, LpMiss, LpAlloc, LpInsert, LpInsertLost, LpCount, LpLock,
       CpAllocFail, CpCount, LpPut, FaultEnd, MkMark, MkPut, MkEnd, pteVars
<1>4. QED
  BY ZenonT(30), <1>1, <1>2, <1>3 DEF Step

(* kdb_fault hands out a cached page with a reference.                     *)
LEMMA HitEffect ==
  ASSUME IInv, NEW t \in Threads, CpHit(t)
  PROVE  /\ pg[t] = NULL /\ pte' = pte
         /\ \E q \in Pages : /\ Cached(q)
                             /\ pg' = [pg EXCEPT ![t] = q]
                             /\ pageRef' = [pageRef EXCEPT ![q] = @ + 1]
<1>a. TypeOK /\ CtxInv /\ LocalInv /\ LpInv
  BY Zenon DEF IInv
<1> DEFINE q == cp[lp[t]][MyCpi(t)]
<1>1. /\ pc[t] = "slot" /\ q # NULL /\ pte' = pte
      /\ pg' = [pg EXCEPT ![t] = q]
      /\ pageRef' = [pageRef EXCEPT ![q] = @ + 1]
  BY Zenon DEF CpHit, pteVars
<1>2. pg[t] = NULL
  BY Zenon, <1>a, <1>1 DEF LocalInv, LocalOK, WithPage
<1>3. MyCtx(t) \in Ctxs /\ MyCpi(t) \in CpIdx
  BY Zenon, <1>a, <1>1, MyTypes
<1>4. lp[t] \in hash[MyCtx(t)]
  BY Zenon, <1>a, <1>1 DEF LpInv, LpOK, Holding
<1>5. Cached(q)
  BY <1>3, <1>4, ZenonT(30) DEF Cached
<1>6. q \in Pages
  BY <1>a, <1>1, <1>3, <1>4, SMTT(20) DEF TypeOK
<1>7. QED
  BY ZenonT(30), <1>1, <1>2, <1>5, <1>6

(* cp_pool_alloc takes a frame that nobody has.                            *)
LEMMA AllocEffect ==
  ASSUME IInv, NEW t \in Threads, CpAlloc(t)
  PROVE  /\ pg[t] = NULL /\ pte' = pte
         /\ \E q \in Pages : /\ pageRef[q] = 0
                             /\ pg' = [pg EXCEPT ![t] = q]
                             /\ pageRef' = [pageRef EXCEPT ![q] = 1]
<1>1. pc[t] = "slot" /\ pte' = pte
  BY Zenon DEF CpAlloc, pteVars
<1>2. pg[t] = NULL
  BY Zenon, <1>1 DEF IInv, LocalInv, LocalOK, WithPage
<1>3. QED
  BY Zenon, <1>1, <1>2 DEF CpAlloc

(* A page on its way to its slot is installed nowhere.                     *)
LEMMA UncachedUnseen ==
  ASSUME IInv, NEW p \in Pages, ~Cached(p)
  PROVE  /\ Views(p) = {} /\ \A v \in Vmas : Installed(v, p) = {}
         /\ \A t \in Threads : pg[t] = p => pc[t] \in {"cpcount", "store"}
<1>1. p # NULL
  BY Zenon, ObjectsAssumption
<1>2. \A v \in Vmas, o \in PgOffs : pte[v][o] # p
  BY Zenon, <1>1, InstalledCached
<1>3. \A t \in Threads : pg[t] = p => pc[t] \in {"cpcount", "store"}
  BY Zenon, <1>1, CarriedCached
<1>4. QED
  BY Zenon, <1>2, <1>3 DEF Views, Installed

(* A frame without references is not cached, and no thread has it.         *)
LEMMA FreeFrame ==
  ASSUME IInv, FreshInv, NEW q \in Pages, RefsOK(q), pageRef[q] = 0
  PROVE  ~Cached(q) /\ \A u \in Threads : pg[u] # q
<1>1. ~Cached(q)
  BY UsersCount, ViewsCount DEF RefsOK
<1>2. QED
  BY <1>1, UncachedUnseen DEF FreshInv

(* Every step of a handler keeps the references of cached pages.           *)
LEMMA RefsStep ==
  ASSUME IInv, NewInv, FreshInv, \A x \in Pages : RefsOK(x),
         NEW t \in Threads, Step(t), NEW p \in Pages
  PROVE  RefsOK(p)'
<1>a. TypeOK
  BY Zenon DEF IInv
<1>b. pageRef \in [Pages -> Int] /\ Cardinality(Users(p)) \in Nat /\ Cardinality(Views(p)) \in Nat
  BY ZenonT(30), <1>a, UsersCount, ViewsCount DEF TypeOK
<1>c. RefsOK(p)
  BY Zenon
<1> SUFFICES ASSUME Cached(p)'
             PROVE  pageRef'[p] = 1 + Cardinality(Users(p)') + Cardinality(Views(p)')
  BY Zenon DEF RefsOK
<1>1. CASE CpStore(t)
  <2>1. /\ pg[t] \in Pages /\ pc[t] = "store" /\ pg' = pg /\ pte' = pte
        /\ pageRef' = [pageRef EXCEPT ![pg[t]] = @ + 1]
    BY <1>1, CarriedPage, Zenon
  <2>2. Users(p)' = Users(p) /\ Views(p)' = Views(p)
    BY Zenon, <2>1 DEF Users, Views
  <2>3. CASE p = pg[t]
    <3>1. ~Cached(p) /\ pageRef[p] = 1 /\ Users(p) = {t}
      BY Zenon, <2>1, <2>3 DEF FreshInv, Users
    <3>2. Views(p) = {}
      BY Zenon, <3>1, UncachedUnseen
    <3>3. Cardinality(Users(p)) = 1 /\ Cardinality(Views(p)) = 0
      BY <3>1, <3>2, FS_Singleton, FS_EmptySet, ZenonT(30)
    <3>4. pageRef'[p] = 2
      BY <1>b, <2>1, <2>3, <3>1
    <3>5. QED
      BY <2>2, <3>3, <3>4
  <2>4. CASE p # pg[t]
    <3>1. Cached(p)
      BY Zenon, <2>4, CachedOrigin
    <3>2. pageRef'[p] = pageRef[p]
      BY Zenon, <1>b, <2>1, <2>4
    <3>3. QED
      BY ZenonT(30), <1>c, <2>2, <3>1, <3>2 DEF RefsOK
  <2>5. QED
    BY Zenon, <2>3, <2>4
<1>2. CASE ~CpStore(t)
  <2>1. Cached(p)
    BY Zenon, <1>2, CachedOrigin
  <2>2. pageRef[p] = 1 + Cardinality(Users(p)) + Cardinality(Views(p))
    BY Zenon, <1>c, <2>1 DEF RefsOK
  <2>3. CASE UNCHANGED <<pg, pte, pageRef>>
    BY ZenonT(30), <2>2, <2>3 DEF Users, Views
  <2>4. CASE CpHit(t)
    <3>1. PICK q \in Pages : /\ pg' = [pg EXCEPT ![t] = q]
                             /\ pageRef' = [pageRef EXCEPT ![q] = @ + 1]
      BY Zenon, <2>4, HitEffect
    <3>2. pg[t] = NULL /\ Views(p)' = Views(p)
      BY Zenon, <2>4, HitEffect DEF Views
    <3>3. Cardinality(Users(p)') =
            IF p = q THEN Cardinality(Users(p)) + 1 ELSE Cardinality(Users(p))
      BY <1>a, <3>1, <3>2, UsersAdd, Zenon
    <3>4. pageRef'[p] = IF p = q THEN pageRef[p] + 1 ELSE pageRef[p]
      BY Zenon, <1>b, <3>1
    <3>5. QED
      BY <1>b, <2>2, <3>2, <3>3, <3>4, SMTT(20)
  <2>5. CASE CpAlloc(t)
    <3>1. PICK q \in Pages : /\ pageRef[q] = 0
                             /\ pg' = [pg EXCEPT ![t] = q]
                             /\ pageRef' = [pageRef EXCEPT ![q] = 1]
      BY Zenon, <2>5, AllocEffect
    <3>2. pg[t] = NULL /\ Views(p)' = Views(p)
      BY Zenon, <2>5, AllocEffect DEF Views
    <3>3. p # q
      BY <1>b, <2>2, <3>1
    <3>4. Cardinality(Users(p)') = Cardinality(Users(p))
      BY <1>a, <3>1, <3>2, <3>3, UsersAdd, ZenonT(30)
    <3>5. pageRef'[p] = pageRef[p]
      BY <1>b, <3>1, <3>3, ZenonT(30)
    <3>6. QED
      BY Zenon, <2>2, <3>2, <3>4, <3>5
  <2>6. CASE MapPage(t)
    <3> DEFINE q == pg[t]
    <3>1. /\ q \in Pages /\ area[t] \in Vmas /\ off[t] \in PgOffs
          /\ pg' = [pg EXCEPT ![t] = NULL]
          /\ pageRef' = pageRef /\ pte[area[t]][off[t]] = NULL
          /\ pte' = [pte EXCEPT ![area[t]] = [@ EXCEPT ![off[t]] = q]]
      BY Zenon, <2>6, CarriedPage
    <3>2. Cardinality(Users(p)') =
            IF p = q THEN Cardinality(Users(p)) - 1 ELSE Cardinality(Users(p))
      BY <1>a, <3>1, UsersDrop, ZenonT(30)
    <3>3. Cardinality(Views(p)') =
            IF p = q THEN Cardinality(Views(p)) + 1 ELSE Cardinality(Views(p))
      BY <1>a, <3>1, ViewsAdd, ZenonT(30)
    <3> HIDE DEF q
    <3>4. QED
      BY <1>b, <2>2, <3>1, <3>2, <3>3, SMTT(20)
  <2>7. CASE MapPresent(t)
    <3> DEFINE q == pg[t]
    <3>1. /\ q \in Pages /\ pg' = [pg EXCEPT ![t] = NULL] /\ pte' = pte
          /\ pageRef' = [pageRef EXCEPT ![q] = @ - 1]
      BY <2>7, CarriedPage, Zenon
    <3>2. Cardinality(Users(p)') =
            IF p = q THEN Cardinality(Users(p)) - 1 ELSE Cardinality(Users(p))
      BY <1>a, <3>1, UsersDrop, ZenonT(30)
    <3>3. Views(p)' = Views(p)
      BY Zenon, <3>1 DEF Views
    <3> HIDE DEF q
    <3>4. pageRef'[p] = IF p = q THEN pageRef[p] - 1 ELSE pageRef[p]
      BY <1>b, <3>1, Zenon
    <3>5. QED
      BY <1>b, <2>2, <3>2, <3>3, <3>4, SMTT(20)
  <2>8. QED
    BY ZenonT(30), <1>2, <2>3, <2>4, <2>5, <2>6, <2>7, StepRefs
<1>3. QED
  BY Zenon, <1>1, <1>2

(* A logical page is new until its thread inserts it.                      *)
LEMMA NewStep ==
  ASSUME IInv, NewInv, NEW t \in Threads, Step(t)
  PROVE  NewInv'
<1>a. TypeOK /\ CtxInv /\ LocalInv /\ LpInv
  BY Zenon DEF IInv
<1>1. ASSUME pc'[t] = "insert"
      PROVE  dirty'[lp'[t]] = {} /\ \A i \in CpIdx : cp'[lp'[t]][i] = NULL
  <2>1. Flow(t)
    BY <1>a, StepFlow, ZenonT(30) DEF TypeOK
  <2>2. pc[t] = "alloc"
    BY Zenon, <1>1, <2>1 DEF Flow
  <2>3. LpAlloc(t)
    <3>1. LpAlloc(t) \/ LpAllocFail(t) \/ pc[t] # "alloc"
      BY ZenonT(30) DEF Step, LpFind, LpMiss, LpInsert, LpInsertLost, LpCount, LpLock,
           CpHit, CpAlloc, CpAllocFail, CpCount, CpStore, LpPut, LpPutFail, FaultEnd,
           MkFind, MkMark, MkPut, MkEnd, MapPage, MapPresent
    <3>2. LpAllocFail(t) => pc'[t] = "idle"
      BY ZenonT(30), <1>a DEF LpAllocFail, Return, Goto, TypeOK
    <3>3. QED
      BY <1>1, <2>2, <3>1, <3>2, ZenonT(30)
  <2>4. QED
    BY <1>a, <2>3, SMTT(20) DEF LpAlloc, TypeOK
<1>2. ASSUME NEW u \in Threads \ {t}, pc'[u] = "insert"
      PROVE  dirty'[lp'[u]] = {} /\ \A i \in CpIdx : cp'[lp'[u]][i] = NULL
  <2>1. Quiet(u)
    BY Zenon, <1>a, StepFrame
  <2>2. pc[u] = "insert" /\ lp'[u] = lp[u]
    BY <1>2, <2>1, ZenonT(30) DEF Quiet
  <2>3. lp[u] \in lpLive /\ lp[u] \in Lps /\ lp[u] # lp[t]
    BY <1>a, <2>2, ZenonT(30) DEF LpInv, LpOK, TypeOK
  <2>4. cp'[lp[u]] = cp[lp[u]]
    BY <1>a, <2>3, StepOtherLp, ZenonT(30)
  <2>5. dirty'[lp[u]] = dirty[lp[u]]
    <3>1. CASE LpAlloc(t)
      BY <1>a, <2>3, <3>1, ZenonT(30) DEF LpAlloc, TypeOK
    <3>2. CASE MkMark(t)
      BY <1>a, <2>3, <3>2, ZenonT(30) DEF MkMark, TypeOK
    <3>3. QED
      BY <3>1, <3>2, StepEffect, ZenonT(30)
  <2>6. QED
    BY <2>2, <2>4, <2>5 DEF NewInv
<1>3. QED
  BY <1>1, <1>2, Zenon DEF NewInv

(* kdb_fault stores a page that no slot has.                               *)
LEMMA AliasStep ==
  ASSUME IInv, NewInv, FreshInv, Unaliased, NEW t \in Threads, Step(t)
  PROVE  Unaliased'
<1>1. SUFFICES ASSUME NEW c \in Ctxs, NEW d \in Ctxs, NEW k \in hash'[c], NEW l \in hash'[d],
                      NEW i \in CpIdx, NEW j \in CpIdx,
                      cp'[k][i] # NULL, cp'[k][i] = cp'[l][j]
               PROVE  k = l /\ i = j
  BY SMTT(20) DEF Unaliased
<1>2. \/ k \in hash[c] /\ cp'[k][i] = cp[k][i]
      \/ CpStore(t) /\ k = lp[t] /\ i = MyCpi(t) /\ cp'[k][i] = pg[t]
  BY <1>1, SlotOrigin, SMTT(20)
<1>3. \/ l \in hash[d] /\ cp'[l][j] = cp[l][j]
      \/ CpStore(t) /\ l = lp[t] /\ j = MyCpi(t) /\ cp'[l][j] = pg[t]
  BY <1>1, SlotOrigin
<1>4. CpStore(t) => ~Cached(pg[t])
  BY CarriedPage, Zenon DEF FreshInv
<1>5. QED
  BY <1>1, <1>2, <1>3, <1>4, SMTT(20) DEF Unaliased, Cached

(* A page on its way to its slot stays with its thread, whatever the       *)
(* others take, store or drop.                                             *)
LEMMA FreshStep ==
  ASSUME IInv, NewInv, FreshInv, \A x \in Pages : RefsOK(x), NEW t \in Threads, Step(t)
  PROVE  FreshInv'
<1>a. TypeOK /\ CtxInv /\ LocalInv
  BY Zenon DEF IInv
<1>b. pageRef \in [Pages -> Int] /\ pg \in [Threads -> Pages \cup {NULL}]
  BY Zenon, <1>a DEF TypeOK
<1> DEFINE Way == {"cpcount", "store"}
<1>1. ASSUME NEW u \in Threads \ {t}, pc'[u] \in Way
      PROVE  /\ ~Cached(pg[u])' /\ pageRef'[pg'[u]] = 1
             /\ \A w \in Threads : pg'[w] = pg'[u] => w = u
  <2>1. /\ pc[u] \in Way /\ pg'[u] = pg[u]
        /\ \A w \in Threads \ {t} : pg'[w] = pg[w]
    BY <1>a, <1>1, StepFrame, Zenon DEF Quiet
  <2>2. /\ ~Cached(pg[u]) /\ pageRef[pg[u]] = 1
        /\ \A w \in Threads : pg[w] = pg[u] => w = u
    BY <2>1, Zenon DEF FreshInv
  <2>3. pg[u] \in Pages
    BY ZenonT(30), <1>a, <1>b, <2>1 DEF LocalInv, LocalOK
  <2>4. ~Cached(pg[u])'
    <3>1. PICK q \in Pages : q = pg[u]
      BY Zenon, <2>3
    <3>2. ~Cached(q)'
      BY <1>1, <2>2, <3>1, CachedOrigin, ZenonT(30)
    <3>3. QED
      BY ZenonT(30), <2>1, <3>1, <3>2 DEF Cached
  <2>5. pageRef'[pg[u]] = 1 /\ pg'[t] # pg[u]
    <3>0. pg[t] # pg[u] /\ pg[u] # NULL
      BY ZenonT(30), <1>1, <2>2, <2>3, ObjectsAssumption
    <3>1. CASE UNCHANGED <<pg, pte, pageRef>>
      BY ZenonT(30), <2>2, <3>0, <3>1
    <3>2. CASE CpHit(t)
      <4>1. PICK q \in Pages : /\ Cached(q) /\ pg' = [pg EXCEPT ![t] = q]
                               /\ pageRef' = [pageRef EXCEPT ![q] = @ + 1]
        BY Zenon, <3>2, HitEffect
      <4>2. q # pg[u]
        BY Zenon, <2>2, <4>1
      <4>3. QED
        BY ZenonT(30), <1>b, <2>2, <2>3, <4>1, <4>2
    <3>3. CASE CpAlloc(t)
      <4>1. PICK q \in Pages : /\ pageRef[q] = 0 /\ pg' = [pg EXCEPT ![t] = q]
                               /\ pageRef' = [pageRef EXCEPT ![q] = 1]
        BY Zenon, <3>3, AllocEffect
      <4>2. q # pg[u]
        BY <2>2, <4>1
      <4>3. QED
        BY ZenonT(30), <1>b, <2>2, <2>3, <4>1, <4>2
    <3>4. CASE CpStore(t)
      <4>1. pg' = pg /\ pageRef' = [pageRef EXCEPT ![pg[t]] = @ + 1]
        BY <3>4, CarriedPage, Zenon
      <4>2. QED
        BY ZenonT(30), <1>b, <2>2, <2>3, <3>0, <4>1
    <3>5. CASE MapPage(t)
      BY <1>b, <2>2, <2>3, <3>0, <3>5, CarriedPage, ZenonT(30)
    <3>6. CASE MapPresent(t)
      BY <1>b, <2>2, <2>3, <3>0, <3>6, CarriedPage, ZenonT(30)
    <3>7. QED
      BY <3>1, <3>2, <3>3, <3>4, <3>5, <3>6, StepRefs, ZenonT(30)
  <2>6. \A w \in Threads : pg'[w] = pg'[u] => w = u
    BY Zenon, <2>1, <2>2, <2>5
  <2>7. QED
    BY ZenonT(30), <2>1, <2>4, <2>5, <2>6 DEF Cached
<1>2. ASSUME pc'[t] \in Way
      PROVE  /\ ~Cached(pg[t])' /\ pageRef'[pg'[t]] = 1
             /\ \A w \in Threads : pg'[w] = pg'[t] => w = t
  <2>1. CpAlloc(t) \/ CpCount(t)
    BY <1>a, <1>2, StepFlow, ZenonT(30) DEF Flow, TypeOK
  <2>2. CASE CpAlloc(t)
    <3>1. PICK q \in Pages : /\ pageRef[q] = 0 /\ pg' = [pg EXCEPT ![t] = q]
                             /\ pageRef' = [pageRef EXCEPT ![q] = 1]
      BY Zenon, <2>2, AllocEffect
    <3>2. ~Cached(q) /\ \A w \in Threads : pg[w] # q
      BY Zenon, <3>1, FreeFrame
    <3>3. pg'[t] = q /\ pageRef'[q] = 1 /\ \A w \in Threads : pg'[w] = q => w = t
      BY ZenonT(30), <1>b, <3>1, <3>2
    <3>4. UNCHANGED <<hash, cp>>
      BY Zenon, <2>2 DEF CpAlloc, ctxVars, lpVars
    <3>5. ~Cached(q)'
      BY ZenonT(30), <3>2, <3>4 DEF Cached
    <3>6. QED
      BY Zenon, <3>3, <3>5 DEF Cached
  <2>3. CASE CpCount(t)
    <3>1. pc[t] = "cpcount" /\ UNCHANGED <<hash, cp, pg, pageRef>>
      BY Zenon, <2>3 DEF CpCount, ctxVars, lpVars
    <3>2. QED
      BY Zenon, <3>1 DEF FreshInv, Cached
  <2>4. QED
    BY <2>1, <2>2, <2>3, ZenonT(30)
<1>3. ASSUME NEW u \in Threads, pc'[u] \in Way
      PROVE  /\ ~Cached(pg[u])' /\ pageRef'[pg'[u]] = 1
             /\ \A w \in Threads : pg'[w] = pg'[u] => w = u
  <2>1. CASE u = t
    BY ZenonT(30), <1>2, <1>3, <2>1 DEF Cached
  <2>2. CASE u # t
    BY ZenonT(30), <1>1, <1>3, <2>2
  <2>3. QED
    BY Zenon, <2>1, <2>2
<1>4. QED
  BY Zenon, <1>3 DEF FreshInv

(* A fault that begins takes a reference only to a page that is installed. *)
LEMMA RefsBegin ==
  ASSUME FullInv, Unaliased, \A x \in Pages : RefsOK(x), NEW t \in Threads, Begin(t)
  PROVE  NewInv' /\ FreshInv' /\ Unaliased' /\ \A p \in Pages : RefsOK(p)'
<1>a. IInv /\ NewInv /\ FreshInv /\ TypeOK /\ CtxInv /\ LocalInv
  BY Zenon DEF FullInv, IInv
<1>b. pageRef \in [Pages -> Int] /\ pg \in [Threads -> Pages \cup {NULL}]
  BY Zenon, <1>a DEF TypeOK
<1>1. UNCHANGED <<hash, cp, dirty, lp, pte>>
  BY <1>a, BeginFrame, ZenonT(30) DEF ctxVars, lpVars, pteVars
<1>2. pc'[t] \in {"find", "mkfind"} /\ \A u \in Threads \ {t} : pc'[u] = pc[u]
  BY ZenonT(30), <1>a DEF Begin, FaultBegin, WpBegin, Goto, TypeOK
<1>3. \A p : Cached(p)' <=> Cached(p)
  BY Zenon, <1>1 DEF Cached
<1>4. NewInv'
  BY <1>a, <1>1, <1>2, ZenonT(30) DEF NewInv
<1>5. Unaliased'
  BY <1>1, SMTT(20) DEF Unaliased
<1>6. \/ UNCHANGED <<pg, pageRef>>
      \/ \E q \in Pages : /\ Cached(q) /\ pg' = [pg EXCEPT ![t] = q]
                         /\ pageRef' = [pageRef EXCEPT ![q] = @ + 1]
  <2>1. PICK v \in Vmas, o \in PgOffs :
          (\E k \in {"read", "write"} : FaultBegin(t, v, o, k)) \/ WpBegin(t, v, o)
    BY Zenon DEF Begin
  <2>2. CASE \E k \in {"read", "write"} : FaultBegin(t, v, o, k)
    BY <2>2, Zenon DEF FaultBegin
  <2>3. CASE WpBegin(t, v, o)
    <3>1. /\ pte[v][o] # NULL
          /\ pg' = [pg EXCEPT ![t] = pte[v][o]]
          /\ pageRef' = [pageRef EXCEPT ![pte[v][o]] = @ + 1]
      BY Zenon, <2>3 DEF WpBegin
    <3>2. pte[v][o] \in Pages /\ Cached(pte[v][o])
      BY <1>a, <3>1, InstalledCached, SMTT(20) DEF TypeOK
    <3>3. QED
      BY Zenon, <3>1, <3>2
  <2>4. QED
    BY Zenon, <2>1, <2>2, <2>3
<1>7. CASE UNCHANGED <<pg, pageRef>>
  <2>1. FreshInv'
    BY ZenonT(30), <1>a, <1>1, <1>2, <1>7 DEF FreshInv, Cached
  <2>2. ASSUME NEW p \in Pages
        PROVE  RefsOK(p)'
    BY Zenon, <1>1, <1>7 DEF RefsOK, Users, Views, Cached
  <2>3. QED
    BY ZenonT(30), <1>4, <1>5, <2>1, <2>2
<1>8. ASSUME NEW q \in Pages, Cached(q), pg' = [pg EXCEPT ![t] = q],
             pageRef' = [pageRef EXCEPT ![q] = @ + 1]
      PROVE  NewInv' /\ FreshInv' /\ Unaliased' /\ \A p \in Pages : RefsOK(p)'
  <2>1. pg[t] = NULL
    BY <1>a, BeginFrame, ZenonT(30) DEF CtxInv
  <2>2. ASSUME NEW p \in Pages
        PROVE  RefsOK(p)'
    <3>1. Views(p)' = Views(p)
      BY Zenon, <1>1 DEF Views
    <3>2. Cardinality(Users(p)') =
            IF p = q THEN Cardinality(Users(p)) + 1 ELSE Cardinality(Users(p))
      BY <1>a, <1>8, <2>1, UsersAdd, ZenonT(30)
    <3>3. pageRef'[p] = IF p = q THEN pageRef[p] + 1 ELSE pageRef[p]
      BY Zenon, <1>b, <1>8
    <3>4. /\ Cardinality(Users(p)) \in Nat /\ Cardinality(Views(p)) \in Nat
          /\ pageRef[p] \in Int
      BY ZenonT(30), <1>b, UsersCount, ViewsCount
    <3>5. ASSUME Cached(p)
          PROVE  pageRef[p] = 1 + Cardinality(Users(p)) + Cardinality(Views(p))
      BY <3>5, Zenon DEF RefsOK
    <3>6. ASSUME Cached(p)
          PROVE  pageRef'[p] = 1 + Cardinality(Users(p)') + Cardinality(Views(p)')
      BY <3>1, <3>2, <3>3, <3>4, <3>5, <3>6, SMTT(20)
    <3>7. QED
      BY ZenonT(30), <1>3, <3>6 DEF RefsOK
  <2>3. ASSUME NEW u \in Threads, pc'[u] \in {"cpcount", "store"}
        PROVE  /\ ~Cached(pg[u])' /\ pageRef'[pg'[u]] = 1
               /\ \A w \in Threads : pg'[w] = pg'[u] => w = u
    <3>1. u # t /\ pc[u] \in {"cpcount", "store"}
      BY Zenon, <1>2, <2>3
    <3>2. /\ ~Cached(pg[u]) /\ pageRef[pg[u]] = 1
          /\ \A w \in Threads : pg[w] = pg[u] => w = u
      BY ZenonT(30), <1>a, <3>1 DEF FreshInv
    <3>3. pg[u] \in Pages /\ pg[u] # q
      BY ZenonT(30), <1>a, <1>b, <1>8, <3>1, <3>2 DEF LocalInv, LocalOK
    <3>4. pg'[u] = pg[u] /\ pageRef'[pg[u]] = 1
          /\ \A w \in Threads : pg'[w] = pg[u] => w = u
      BY <1>b, <1>8, <3>1, <3>2, <3>3, ZenonT(30)
    <3>5. ~Cached(pg[u])'
      BY ZenonT(30), <1>1, <3>2, <3>4 DEF Cached
    <3>6. QED
      BY Zenon, <3>4, <3>5
  <2>4. FreshInv'
    BY Zenon, <2>3 DEF FreshInv
  <2>5. QED
    BY Zenon, <1>4, <1>5, <2>2, <2>4
<1>9. QED
  BY ZenonT(30), <1>6, <1>7, <1>8

(* A user's call links nothing, and munmap drops a reference for each      *)
(* place of the area.                                                      *)
LEMMA RefsUser ==
  ASSUME FullInv, Unaliased, \A x \in Pages : RefsOK(x), User
  PROVE  NewInv' /\ FreshInv' /\ Unaliased' /\ \A p \in Pages : RefsOK(p)'
<1>a. IInv /\ NewInv /\ FreshInv /\ TypeOK /\ CtxInv /\ LocalInv
  BY Zenon DEF FullInv, IInv
<1>b. pageRef \in [Pages -> Int] /\ pg \in [Threads -> Pages \cup {NULL}]
  BY <1>a, ZenonT(30) DEF TypeOK
<1>1. UNCHANGED <<cp, dirty, lp, pg, pc>>
  BY ZenonT(30) DEF User, SetLayout, Mmap, Munmap, lpVars
<1>2. \A c \in Ctxs : hash'[c] \subseteq hash[c]
  <2>1. ASSUME NEW L \in Layouts, SetLayout(L) PROVE hash' = hash
    BY Zenon, <2>1 DEF SetLayout, ctxVars
  <2>2. ASSUME NEW c \in Ctxs, hash' = [hash EXCEPT ![c] = {}]
        PROVE  \A d \in Ctxs : hash'[d] \subseteq hash[d]
    BY ZenonT(30), <1>a, <2>2 DEF TypeOK
  <2>3. ASSUME NEW v \in Vmas, NEW first \in PgOffs, NEW last \in PgOffs, Mmap(v, first, last)
        PROVE  \E c \in Ctxs : hash' = [hash EXCEPT ![c] = {}]
    BY Zenon, <2>3 DEF Mmap
  <2>4. ASSUME NEW v \in Vmas, Munmap(v)
        PROVE  \E c \in Ctxs : hash' = [hash EXCEPT ![c] = {}]
    BY <1>a, <2>4, ZenonT(30) DEF Munmap, TypeOK
  <2>5. QED
    BY <2>1, <2>2, <2>3, <2>4, ZenonT(30) DEF User
<1>3. ASSUME NEW p, Cached(p)' PROVE Cached(p)
  BY ZenonT(30), <1>1, <1>2, <1>3 DEF Cached
<1>4. NewInv'
  BY <1>a, <1>1, ZenonT(30) DEF NewInv
<1>5. Unaliased'
  BY <1>1, <1>2, SMTT(20) DEF Unaliased
<1>6. ASSUME NEW p \in Pages
      PROVE  /\ RefsOK(p)'
             /\ ~Cached(p) => pageRef'[p] = pageRef[p]
  <2>1. Users(p)' = Users(p)
    BY Zenon, <1>1 DEF Users
  <2>2. CASE UNCHANGED <<pte, pageRef>>
    <3>1. Views(p)' = Views(p)
      BY <2>2, Zenon DEF Views
    <3>2. QED
      BY ZenonT(30), <1>3, <2>1, <2>2, <3>1 DEF RefsOK
  <2>3. ASSUME NEW v \in Vmas, Munmap(v)
        PROVE  /\ RefsOK(p)'
               /\ ~Cached(p) => pageRef'[p] = pageRef[p]
    <3>1. /\ pageRef' = [x \in Pages |-> pageRef[x] - Cardinality(Installed(v, x))]
          /\ pte' = [pte EXCEPT ![v] = [o \in PgOffs |-> NULL]]
      BY <2>3, Zenon DEF Munmap
    <3>2. pageRef'[p] = pageRef[p] - Cardinality(Installed(v, p))
      BY Zenon, <3>1
    <3>3. Cardinality(Views(p)') = Cardinality(Views(p)) - Cardinality(Installed(v, p))
      BY <1>a, <3>1, ViewsDrop, ZenonT(30)
    <3>4. /\ Cardinality(Users(p)) \in Nat /\ Cardinality(Views(p)) \in Nat
          /\ pageRef[p] \in Int /\ Cardinality(Installed(v, p)) \in Nat
      BY ZenonT(30), <1>b, UsersCount, ViewsCount, InstalledCount
    <3>5. ~Cached(p) => Cardinality(Installed(v, p)) = 0
      BY ZenonT(30), <1>a, UncachedUnseen, FS_EmptySet
    <3>6. QED
      BY <1>3, <2>1, <3>2, <3>3, <3>4, <3>5, SMTT(20) DEF RefsOK
  <2>4. QED
    BY <2>2, <2>3, ZenonT(30) DEF User, SetLayout, Mmap, pteVars
<1>7. FreshInv'
  <2>1. ASSUME NEW u \in Threads, pc'[u] \in {"cpcount", "store"}
        PROVE  /\ ~Cached(pg[u])' /\ pageRef'[pg'[u]] = 1
               /\ \A w \in Threads : pg'[w] = pg'[u] => w = u
    <3>1. /\ ~Cached(pg[u]) /\ pageRef[pg[u]] = 1
          /\ \A w \in Threads : pg[w] = pg[u] => w = u
      BY ZenonT(30), <1>a, <1>1, <2>1 DEF FreshInv
    <3>2. PICK q \in Pages : q = pg[u]
      BY <1>a, <1>b, <1>1, <2>1, ZenonT(30) DEF LocalInv, LocalOK
    <3>3. ~Cached(q)' /\ pageRef'[q] = 1
      BY ZenonT(30), <1>3, <1>6, <3>1, <3>2
    <3>4. ~Cached(pg[u])'
      BY ZenonT(30), <1>1, <3>2, <3>3 DEF Cached
    <3>5. QED
      BY <1>1, <3>1, <3>2, <3>3, <3>4, ZenonT(30)
  <2>2. QED
    BY Zenon, <2>1 DEF FreshInv
<1>8. QED
  BY ZenonT(30), <1>4, <1>5, <1>6, <1>7

-----------------------------------------------------------------------------
(* Pages counted as allocated.                                             *)

(* The slots of linked logical pages that have a page, and the threads     *)
(* that have counted one and not stored it.                                *)
Full == {s \in Lps \X CpIdx : /\ \E c \in Ctxs : s[1] \in hash[c]
                             /\ cp[s[1]][s[2]] # NULL}
Storing == {t \in Threads : pc[t] = "store"}

(* Both can be counted.                                                    *)
LEMMA FullCount ==
  /\ IsFiniteSet(Full) /\ Cardinality(Full) \in Nat
  /\ IsFiniteSet(Storing) /\ Cardinality(Storing) \in Nat
<1>1. LP_CP_MAX - 1 \in Int /\ 0 \in Int
  BY SizesAssumption
<1>2. IsFiniteSet(CpIdx)
  BY ZenonT(30), <1>1, FS_Interval DEF CpIdx
<1>3. IsFiniteSet(Lps \X CpIdx)
  BY ZenonT(30), <1>2, ObjectsAssumption, FS_Product
<1>4. Full \in SUBSET (Lps \X CpIdx) /\ Storing \in SUBSET Threads
  BY Zenon DEF Full, Storing
<1>5. QED
  BY ZenonT(30), <1>3, <1>4, FiniteAssumption, FS_Subset, FS_CardinalityType

(* A handler fills one slot in CpStore, and no other step fills or empties *)
(* one.                                                                    *)
LEMMA FullStep ==
  ASSUME IInv, NewInv, NEW t \in Threads, Step(t)
  PROVE  /\ ~CpStore(t) => Full' = Full
         /\ CpStore(t) => /\ <<lp[t], MyCpi(t)>> \notin Full
                          /\ Full' = Full \cup {<<lp[t], MyCpi(t)>>}
<1>a. TypeOK /\ CtxInv /\ LocalInv /\ LpInv /\ LockInv
  BY Zenon DEF IInv
<1>b. MyCtx(t) \in Ctxs /\ MyCpi(t) \in CpIdx
  BY <1>a, StepFrame, MyTypes, ZenonT(30)
<1>1. \A c \in Ctxs : hash[c] \subseteq hash'[c]
  <2>1. CASE LpInsert(t)
    BY <1>a, <2>1, ZenonT(30) DEF LpInsert, TypeOK
  <2>2. QED
    BY <2>1, StepEffect, ZenonT(30)
<1>2. ASSUME NEW s \in Full
      PROVE  s \in Full'
  <2>1. /\ s \in Lps \X CpIdx /\ s[1] \in Lps /\ s[2] \in CpIdx
        /\ cp[s[1]][s[2]] # NULL
    BY Zenon DEF Full
  <2>2. PICK c \in Ctxs : s[1] \in hash[c]
    BY Zenon DEF Full
  <2>3. cp'[s[1]][s[2]] = cp[s[1]][s[2]]
    BY <1>a, <2>1, <2>2, SlotKept, ZenonT(30)
  <2>4. QED
    BY <1>1, <2>1, <2>2, <2>3, ZenonT(30) DEF Full
<1>3. ASSUME NEW s \in Full'
      PROVE  s \in Full \/ (CpStore(t) /\ s = <<lp[t], MyCpi(t)>>)
  <2>1. /\ s \in Lps \X CpIdx /\ s[1] \in Lps /\ s[2] \in CpIdx
        /\ cp'[s[1]][s[2]] # NULL /\ s = <<s[1], s[2]>>
    BY DEF Full
  <2>2. PICK c \in Ctxs : s[1] \in hash'[c]
    BY Zenon DEF Full
  <2>3. \/ s[1] \in hash[c] /\ cp'[s[1]][s[2]] = cp[s[1]][s[2]]
        \/ CpStore(t) /\ s[1] = lp[t] /\ s[2] = MyCpi(t)
    BY <2>1, <2>2, SlotOrigin
  <2>4. QED
    BY ZenonT(30), <2>1, <2>3 DEF Full
<1>4. ASSUME CpStore(t)
      PROVE  <<lp[t], MyCpi(t)>> \notin Full /\ <<lp[t], MyCpi(t)>> \in Full'
  <2>1. pc[t] = "store" /\ hash' = hash /\ pg[t] \in Pages /\ pg[t] # NULL
        /\ cp' = [cp EXCEPT ![lp[t]] = [@ EXCEPT ![MyCpi(t)] = pg[t]]]
    BY <1>4, CarriedPage, ObjectsAssumption, ZenonT(30) DEF CpStore, ctxVars
  <2>2. /\ lp[t] \in hash[MyCtx(t)] /\ lp[t] \in Lps
        /\ cp[lp[t]][MyCpi(t)] = NULL
    BY <1>a, <1>b, <2>1, ZenonT(30) DEF LpInv, LpOK, LockInv, LockOK, Holding, TypeOK
  <2>3. cp'[lp[t]][MyCpi(t)] = pg[t]
    BY ZenonT(30), <1>a, <1>b, <2>1, <2>2 DEF TypeOK
  <2>4. PICK l \in Lps, i \in CpIdx : l = lp[t] /\ i = MyCpi(t)
    BY Zenon, <1>b, <2>2
  <2>5. <<l, i>> \notin Full /\ <<l, i>> \in Full'
    BY <1>b, <2>1, <2>2, <2>3, <2>4, ZenonT(30) DEF Full
  <2>6. QED
    BY <2>4, <2>5, ZenonT(30)
<1>5. QED
  BY ZenonT(30), <1>2, <1>3, <1>4

(* Only CpCount and CpStore change which threads are storing a page.       *)
LEMMA StoringStep ==
  ASSUME IInv, NEW t \in Threads, Step(t)
  PROVE  /\ CpCount(t) => t \notin Storing /\ Storing' = Storing \cup {t}
         /\ CpStore(t) => t \in Storing /\ Storing' = Storing \ {t}
         /\ ~CpCount(t) /\ ~CpStore(t) => Storing' = Storing
<1>a. TypeOK /\ pc \in [Threads -> Pcs]
  BY Zenon DEF IInv, TypeOK
<1>1. \A u \in Threads \ {t} : pc'[u] = pc[u]
  BY Zenon, <1>a, StepFrame DEF Quiet
<1>2. ASSUME CpCount(t)
      PROVE  pc[t] # "store" /\ pc'[t] = "store"
  BY ZenonT(30), <1>a, <1>2 DEF CpCount, Goto
<1>3. ASSUME CpStore(t)
      PROVE  pc[t] = "store" /\ pc'[t] # "store"
  BY <1>a, <1>3, ZenonT(30) DEF CpStore, Goto
<1>4. ASSUME ~CpCount(t), ~CpStore(t)
      PROVE  pc[t] # "store" /\ pc'[t] # "store"
  <2>1. Flow(t)
    BY Zenon, <1>a, StepFlow
  <2>2. QED
    BY <1>4, <2>1, ZenonT(30) DEF Flow
<1>5. QED
  BY <1>1, <1>2, <1>3, <1>4, SMTT(20) DEF Storing

(* The counter goes with them.                                             *)
LEMMA CounterStep ==
  ASSUME NEW t \in Threads, Step(t)
  PROVE  cpAllocated' = IF CpCount(t) THEN cpAllocated + 1 ELSE cpAllocated
<1>1. cpAllocated' = cpAllocated \/ CpCount(t)
  BY ZenonT(30) DEF poolVars, Step, LpFind, LpMiss, LpAlloc, LpAllocFail, LpInsert,
       LpInsertLost, LpCount, LpLock, CpHit, CpAlloc, CpAllocFail,
       CpStore, LpPut, LpPutFail, FaultEnd, MkFind, MkMark, MkPut, MkEnd,
       MapPage, MapPresent
<1>2. CpCount(t) => cpAllocated' = cpAllocated + 1
  BY Zenon DEF CpCount
<1>3. QED
  BY <1>1, <1>2, ZenonT(30)

(* vma_ctx_destroy subtracts the slots of the context and no others.       *)
LEMMA FullMunmap ==
  ASSUME IInv, NEW v \in Vmas, Munmap(v)
  PROVE  Cardinality(Full') = Cardinality(Full) - Cardinality(Filled(vmaCtx[v]))
<1>a. TypeOK /\ LpInv
  BY Zenon DEF IInv
<1> DEFINE c == vmaCtx[v]
<1>1. c \in Ctxs /\ hash' = [hash EXCEPT ![c] = {}] /\ cp' = cp
  BY ZenonT(30), <1>a DEF Munmap, TypeOK
<1>2. /\ hash \in [Ctxs -> SUBSET Lps]
      /\ \A d, e \in Ctxs : \A l \in Lps : l \in hash[d] /\ l \in hash[e] => d = e
  BY ZenonT(30), <1>a DEF TypeOK, LpInv
<1> HIDE DEF c
<1>3. \A l \in Lps : (\E d \in Ctxs : l \in hash'[d]) <=>
                     (\E d \in Ctxs : l \in hash[d]) /\ l \notin hash[c]
  BY Zenon, <1>1, <1>2
<1>4. Filled(c) \subseteq Full /\ Full' = Full \ Filled(c)
  BY ZenonT(30), <1>1, <1>2, <1>3 DEF Full, Filled
<1>5. Full \cap Filled(c) = Filled(c)
  BY Zenon, <1>4
<1>6. Cardinality(Full \ Filled(c)) = Cardinality(Full) - Cardinality(Filled(c))
  BY <1>5, FullCount, FS_Difference, ZenonT(30)
<1>7. QED
  BY ZenonT(30), <1>4, <1>6 DEF c

(* Every step keeps the counter in step with the pages.                    *)
LEMMA AllocatedNext ==
  ASSUME IInv, NewInv, AllocatedCountsCached, [Next]_vars
  PROVE  AllocatedCountsCached'
<1>a. TypeOK /\ CtxInv /\ cpAllocated \in Int
  BY Zenon DEF IInv, TypeOK
<1>b. /\ Cardinality(Full) \in Nat /\ IsFiniteSet(Full)
      /\ Cardinality(Storing) \in Nat /\ IsFiniteSet(Storing)
  BY Zenon, FullCount
<1>c. cpAllocated = Cardinality(Full) + Cardinality(Storing)
  BY Zenon DEF AllocatedCountsCached, Full, Storing
<1> SUFFICES cpAllocated' = Cardinality(Full') + Cardinality(Storing')
  BY Zenon DEF AllocatedCountsCached, Full, Storing
<1>1. ASSUME NEW t \in Threads, Step(t)
      PROVE  cpAllocated' = Cardinality(Full') + Cardinality(Storing')
  <2>1. CASE CpStore(t)
    <3>1. ~CpCount(t)
      BY <2>1, Zenon DEF CpStore, CpCount
    <3>2. Cardinality(Full') = Cardinality(Full) + 1
      BY <1>1, <1>b, <2>1, FullStep, FS_AddElement, ZenonT(30)
    <3>3. Cardinality(Storing') = Cardinality(Storing) - 1
      BY ZenonT(30), <1>1, <1>b, <2>1, StoringStep, FS_RemoveElement
    <3>4. cpAllocated' = cpAllocated
      BY <1>1, <3>1, CounterStep, ZenonT(30)
    <3>5. QED
      BY <1>b, <1>c, <3>2, <3>3, <3>4, SMTT(20)
  <2>2. CASE CpCount(t)
    <3>1. ~CpStore(t)
      BY Zenon, <2>2 DEF CpStore, CpCount
    <3>2. Full' = Full
      BY <1>1, <3>1, FullStep, ZenonT(30)
    <3>3. Cardinality(Storing') = Cardinality(Storing) + 1
      BY ZenonT(30), <1>1, <1>b, <2>2, StoringStep, FS_AddElement
    <3>4. cpAllocated' = cpAllocated + 1
      BY <1>1, <2>2, CounterStep, ZenonT(30)
    <3>5. QED
      BY <1>b, <1>c, <3>2, <3>3, <3>4, SMTT(20)
  <2>3. CASE ~CpStore(t) /\ ~CpCount(t)
    BY <1>1, <1>c, <2>3, FullStep, StoringStep, CounterStep, ZenonT(30)
  <2>4. QED
    BY <2>1, <2>2, <2>3, ZenonT(30)
<1>2. ASSUME UNCHANGED <<hash, cp, pc, cpAllocated>>
      PROVE  cpAllocated' = Cardinality(Full') + Cardinality(Storing')
  BY Zenon, <1>c, <1>2 DEF Full, Storing
<1>3. ASSUME NEW t \in Threads, Begin(t)
      PROVE  cpAllocated' = Cardinality(Full') + Cardinality(Storing')
  <2>1. UNCHANGED <<hash, cp, cpAllocated>> /\ \A u \in Threads \ {t} : pc'[u] = pc[u]
    BY <1>a, <1>3, BeginFrame, ZenonT(30) DEF ctxVars, lpVars, poolVars, Quiet
  <2>2. pc[t] # "store" /\ pc'[t] # "store"
    BY <1>a, <1>3, ZenonT(30) DEF Begin, FaultBegin, WpBegin, Goto, TypeOK
  <2>3. Full' = Full /\ Storing' = Storing
    BY <2>1, <2>2, ZenonT(30) DEF Full, Storing
  <2>4. QED
    BY <1>c, <2>1, <2>3, ZenonT(30)
<1>4. ASSUME NEW v \in Vmas, Munmap(v)
      PROVE  cpAllocated' = Cardinality(Full') + Cardinality(Storing')
  <2>1. /\ cpAllocated' = cpAllocated - Cardinality(Filled(vmaCtx[v]))
        /\ vmaCtx[v] \in Ctxs /\ Storing' = Storing
    BY ZenonT(30), <1>a, <1>4 DEF Munmap, TypeOK, Storing
  <2>2. Cardinality(Filled(vmaCtx[v])) \in Nat
    BY <1>a, <2>1, FilledCount, Zenon
  <2>3. QED
    BY <1>b, <1>c, <1>4, <2>1, <2>2, FullMunmap, SMTT(20)
<1>5. ASSUME NEW v \in Vmas, NEW first \in PgOffs, NEW last \in PgOffs, Mmap(v, first, last)
      PROVE  UNCHANGED <<hash, cp, pc, cpAllocated>>
  <2>1. PICK c \in Ctxs : ctxLayout[c] = NULL /\ hash' = [hash EXCEPT ![c] = {}]
    BY ZenonT(30), <1>5 DEF Mmap
  <2>2. hash' = hash
    BY <1>a, <2>1, SMTT(20) DEF CtxInv, Allocated, TypeOK
  <2>3. QED
    BY <1>5, <2>2, Zenon DEF Mmap, lpVars, poolVars
<1>6. CASE User
  BY ZenonT(30), <1>2, <1>4, <1>5, <1>6 DEF User, SetLayout, ctxVars, lpVars, poolVars
<1>7. CASE UNCHANGED vars
  BY Zenon, <1>2, <1>7 DEF vars, ctxVars, lpVars, poolVars
<1>8. QED
  BY ZenonT(30), <1>1, <1>3, <1>6, <1>7 DEF Next
=============================================================================
