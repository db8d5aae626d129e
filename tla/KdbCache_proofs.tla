-------------------------- MODULE KdbCache_proofs ---------------------------
(***************************************************************************)
(* The theorems about the cache, alone and in the life of its module.      *)
(***************************************************************************)
EXTENDS KdbModule, KdbCacheRefs_proofs

-----------------------------------------------------------------------------
(* Type correctness.                                                       *)

(* KDB_SET_LAYOUT, mmap and munmap keep the types.                         *)
LEMMA TypeUser == TypeOK /\ User => TypeOK'
<1> SUFFICES ASSUME TypeOK, User
             PROVE  TypeOK'
  BY Zenon
<1>1. ASSUME NEW L \in Layouts, SetLayout(L)
      PROVE  TypeOK'
  BY ZenonT(30), <1>1 DEF TypeOK, SetLayout, vmaVars, pteVars, ctxVars, lpVars, poolVars,
              reqVars
<1>2. ASSUME NEW v \in Vmas, NEW first \in PgOffs, NEW last \in PgOffs,
             Mmap(v, first, last)
      PROVE  TypeOK'
  BY <1>2 DEF TypeOK, Mmap, devVars, pteVars, lpVars, poolVars, reqVars
<1>3. ASSUME NEW v \in Vmas, Munmap(v)
      PROVE  TypeOK'
  <2>1. vmaCtx[v] \in Ctxs
    BY Zenon, <1>3 DEF TypeOK, Munmap
  <2>2. Cardinality(Filled(vmaCtx[v])) \in Nat
    BY ZenonT(30), <2>1, FilledCount
  <2>3. pageRef' \in [Pages -> Int]
    BY <1>3, InstalledCount, SMTT(20) DEF TypeOK, Munmap
  <2>4. cpAllocated' \in Int /\ cpTotalFrees' \in Int
    BY <1>3, <2>2, SMTT(20) DEF TypeOK, Munmap
  <2>5. QED
    BY ZenonT(30), <1>3, <2>1, <2>3, <2>4 DEF TypeOK, Munmap, devVars, reqVars
<1>4. QED
  BY Zenon, <1>1, <1>2, <1>3 DEF User

-----------------------------------------------------------------------------
(* The inductive invariant.                                                *)

(* The inductive invariant holds initially.                                *)
LEMMA InvInit == Init => IInv
BY TypeInit, CtxInit, LocalInit, LpInit, LockInit, PageInit, DirtyInit, ZenonT(30) DEF IInv

(* Every step, of the user, of the kernel or of a handler, preserves the   *)
(* inductive invariant.                                                    *)
LEMMA InvNext == IInv /\ [Next]_vars => IInv'
<1> SUFFICES ASSUME IInv, [Next]_vars
             PROVE  IInv'
  BY Zenon
<1>a. TypeOK /\ CtxInv /\ LocalInv /\ LpInv /\ LockInv /\ PageInv /\ DirtyInv
  BY Zenon DEF IInv
<1>1. CASE User
  <2>1. TypeOK' /\ CtxInv' /\ LocalInv' /\ LpInv' /\ LockInv' /\ PageInv' /\ DirtyInv'
    BY ZenonT(30), <1>a, <1>1, TypeUser, CtxUser, LocalUser, LpUser, LockUser, PageUser, DirtyUser
  <2>2. QED
    BY Zenon, <2>1 DEF IInv
<1>2. ASSUME NEW t \in Threads, Begin(t)
      PROVE  IInv'
  <2>1. TypeOK' /\ CtxInv' /\ LocalInv' /\ LpInv' /\ LockInv' /\ PageInv' /\ DirtyInv'
    BY ZenonT(30), <1>a, <1>2, TypeBegin, CtxBegin, LocalBegin, LpBegin, LockBegin, PageBegin,
       DirtyBegin
  <2>2. QED
    BY Zenon, <2>1 DEF IInv
<1>3. ASSUME NEW t \in Threads, Step(t)
      PROVE  IInv'
  <2>1. TypeOK' /\ LocalInv'
    BY ZenonT(30), <1>a, <1>3, TypeStep, LocalStep
  <2>2. CtxInv' /\ LpInv' /\ LockInv' /\ PageInv' /\ DirtyInv'
    BY <1>a, <1>3, <2>1, CtxStep, LpStep, LockStep, PageStep, DirtyStep, ZenonT(30)
  <2>3. QED
    BY ZenonT(30), <2>1, <2>2 DEF IInv
<1>4. CASE UNCHANGED vars
  <2>1. UNCHANGED <<layout, vmaCtx, vmaOffs, pte, pteWritable, ctxLayout, hash,
                    totalCreated, lpLive, lpn, cp, dirty, refcount, lock, pageRef,
                    cpAllocated, cpTotalAllocs, cpTotalFrees, pc, area, off, kind,
                    lp, pg>>
    BY Zenon, <1>4 DEF vars, devVars, vmaVars, pteVars, ctxVars, lpVars, poolVars, reqVars
  <2>2. TypeOK'
    BY ZenonT(30), <1>a, <2>1 DEF TypeOK
  <2>3. CtxInv'
    <3>1. Mapped' = Mapped /\ Allocated' = Allocated
      BY Zenon, <2>1 DEF Mapped, Allocated
    <3>2. QED
      BY <1>a, <2>1, <3>1, ZenonT(30) DEF CtxInv
  <2>a. \A u \in Threads :
          MyCtx(u)' = MyCtx(u) /\ MyLpn(u)' = MyLpn(u) /\ MyCpi(u)' = MyCpi(u)
    BY Zenon, <2>1 DEF MyCtx, MyLpn, MyCpi, LpnOf, CpiOf, CpPerLp
  <2>4. LocalInv' /\ LockInv'
    BY ZenonT(30), <1>a, <2>1, <2>a DEF LocalInv, LocalOK, LockInv, LockOK
  <2>5. LpInv'
    BY ZenonT(30), <1>a, <2>1, <2>a DEF LpInv, LpOK, OneLpPerLpn
  <2>6. PageInv'
    <3>1. \A c, o, p : HasPage(c, o, p) => HasPage(c, o, p)'
      BY ZenonT(30), <2>1 DEF HasPage, Chain, LpnOf, CpiOf, CpPerLp
    <3>2. QED
      BY ZenonT(30), <1>a, <2>1, <2>a, <3>1 DEF PageInv, Mapped
  <2>7. DirtyInv'
    <3>1. \A c, o : DirtyAt(c, o) => DirtyAt(c, o)'
      BY ZenonT(30), <2>1 DEF DirtyAt, Chain, LpnOf, CpiOf, CpPerLp
    <3>2. QED
      BY Zenon, <1>a, <2>1, <2>a, <3>1 DEF DirtyInv, WritableIsDirty, Mapped
  <2>8. QED
    BY <2>2, <2>3, <2>4, <2>5, <2>6, <2>7, ZenonT(30) DEF IInv
<1>5. QED
  BY <1>1, <1>2, <1>3, <1>4, ZenonT(30) DEF Next

(* All variables keep their types for every instance of the cache.         *)
THEOREM TypeCorrect == Spec => []TypeOK
<1>1. IInv => TypeOK
  BY Zenon, InvImplies
<1>2. QED
  BY <1>1, InvInit, InvNext, PTL DEF Spec

(* lp_get_or_create never links two logical pages of one number in one     *)
(* context, however many threads race through it.                          *)
THEOREM OneLp == Spec => []OneLpPerLpn
<1>1. IInv => OneLpPerLpn
  BY ZenonT(30), InvImplies
<1>2. QED
  BY <1>1, InvInit, InvNext, PTL DEF Spec

(* kdb_fault, kdb_page_mkwrite and vma_ctx_destroy never leave a thread, a *)
(* hash table or a mapped area with freed memory.                          *)
THEOREM NoDanglingUse == Spec => []NoUseAfterFree
<1>1. IInv => NoUseAfterFree
  BY Zenon, InvImplies
<1>2. QED
  BY <1>1, InvInit, InvNext, PTL DEF Spec

(* Every thread and every area sees, at an offset, the one canonical page  *)
(* that the cache has there.                                               *)
THEOREM OnePage == Spec => []OnePagePerOffset
<1>1. IInv => OnePagePerOffset
  BY InvImplies, ZenonT(30)
<1>2. QED
  BY <1>1, InvInit, InvNext, PTL DEF Spec

(* kdb_page_mkwrite has set the dirty bit of every page that can be        *)
(* written.                                                                *)
THEOREM DirtyBeforeWrite == Spec => []WritableIsDirty
<1>1. IInv => WritableIsDirty
  BY ZenonT(30), InvImplies
<1>2. QED
  BY <1>1, InvInit, InvNext, PTL DEF Spec

(* The lookup of kdb_page_mkwrite never fails.                             *)
THEOREM MkwriteLookup == Spec => []MkwriteFindsLp
<1>1. IInv => MkwriteFindsLp
  BY Zenon, InvImplies
<1>2. QED
  BY <1>1, InvInit, InvNext, PTL DEF Spec

(* No step replaces a canonical page, or clears a dirty bit, of a logical  *)
(* page that stays linked.                                                 *)
THEOREM Stable == Spec => SlotsAreStable
<1> DEFINE Kept == \A c \in Ctxs : \A l \in hash[c] \cap hash'[c], i \in CpIdx :
                     /\ cp[l][i] # NULL => cp'[l][i] = cp[l][i]
                     /\ i \in dirty[l] => i \in dirty'[l]
<1>1. ASSUME IInv, [Next]_vars
      PROVE  [Kept]_vars
  <2>a. TypeOK /\ CtxInv /\ LocalInv /\ LpInv /\ LockInv
    BY Zenon, <1>1 DEF IInv
  <2>1. CASE cp' = cp /\ dirty' = dirty
    BY Zenon, <2>1
  <2>2. ASSUME NEW t \in Threads, Step(t)
        PROVE  Kept
    <3>1. ASSUME NEW c \in Ctxs, NEW l \in hash[c], NEW i \in CpIdx, cp[l][i] # NULL
          PROVE  cp'[l][i] = cp[l][i]
      BY ZenonT(30), <2>a, <2>2, <3>1, SlotKept
    <3>2. ASSUME NEW c \in Ctxs, NEW l \in hash[c]
          PROVE  dirty[l] \subseteq dirty'[l]
      BY <2>a, <2>2, <3>2, BitKept, ZenonT(30)
    <3>3. QED
      BY Zenon, <3>1, <3>2
  <2>3. CASE User
    BY Zenon, <2>1, <2>3 DEF User, SetLayout, Mmap, Munmap, lpVars
  <2>4. CASE \E t \in Threads : Begin(t)
    BY ZenonT(30), <2>a, <2>1, <2>4, BeginFrame DEF lpVars
  <2>5. QED
    BY <1>1, <2>2, <2>3, <2>4, ZenonT(30) DEF Next
<1>2. QED
  BY <1>1, InvInit, InvNext, PTL DEF Spec, SlotsAreStable

(* The refcount of a logical page is the number of threads between         *)
(* lp_get_or_create, or lp_lookup, and lp_put, on every path.              *)
THEOREM HoldersCounted == Spec => []RefcountIsHolders
<1>1. Init => RefcountIsHolders
  BY Zenon DEF Init, RefcountIsHolders
<1>2. IInv /\ RefcountIsHolders /\ [Next]_vars => RefcountIsHolders'
  BY Zenon, HoldersNext
<1>3. QED
  BY <1>1, <1>2, InvInit, InvNext, PTL DEF Spec

-----------------------------------------------------------------------------
(* References and frames.                                                  *)

(* FullInv in terms of pages and slots.                                    *)
SlotForm == IInv /\ NewInv /\ FreshInv /\ Unaliased /\ \A p \in Pages : RefsOK(p)

(* The two forms of the invariant agree.                                   *)
LEMMA FullForms == FullInv <=> SlotForm
BY Zenon, RefsForms, AliasForms DEF FullInv, SlotForm, IInv

(* It holds of the empty cache.                                            *)
LEMMA FullInit == Init => FullInv
<1> SUFFICES ASSUME Init
             PROVE  FullInv
  BY Zenon
<1>1. IInv
  BY Zenon, InvInit
<1>2. /\ \A c \in Ctxs : hash[c] = {}
      /\ \A t \in Threads : pc[t] = "idle"
  BY Zenon DEF Init
<1>3. NewInv /\ FreshInv /\ Unaliased /\ \A p \in Pages : RefsOK(p)
  BY Zenon, <1>2 DEF NewInv, FreshInv, Unaliased, RefsOK, Cached
<1>4. QED
  BY ZenonT(30), <1>1, <1>3, FullForms DEF SlotForm

(* Every step preserves it.                                                *)
LEMMA FullNext == FullInv /\ [Next]_vars => FullInv'
<1> SUFFICES ASSUME FullInv, [Next]_vars
             PROVE  FullInv'
  BY Zenon
<1>1. IInv /\ NewInv /\ FreshInv /\ Unaliased /\ \A p \in Pages : RefsOK(p)
  BY Zenon, FullForms DEF SlotForm
<1>2. IInv'
  BY Zenon, <1>1, InvNext
<1>3. NewInv' /\ FreshInv' /\ Unaliased' /\ \A p \in Pages : RefsOK(p)'
  <2>1. CASE User
    BY <1>1, <2>1, RefsUser, ZenonT(30)
  <2>2. ASSUME NEW t \in Threads, Begin(t)
        PROVE  NewInv' /\ FreshInv' /\ Unaliased' /\ \A p \in Pages : RefsOK(p)'
    BY ZenonT(30), <1>1, <2>2, RefsBegin
  <2>3. ASSUME NEW t \in Threads, Step(t)
        PROVE  NewInv' /\ FreshInv' /\ Unaliased' /\ \A p \in Pages : RefsOK(p)'
    BY <1>1, <2>3, NewStep, FreshStep, AliasStep, RefsStep, ZenonT(30)
  <2>4. CASE UNCHANGED vars
    <3>1. UNCHANGED <<hash, cp, dirty, lp, pg, pc, pte, pageRef>>
      BY ZenonT(30), <2>4 DEF vars, ctxVars, lpVars, pteVars
    <3>2. NewInv' /\ FreshInv'
      BY <1>1, <3>1, SMTT(20) DEF NewInv, FreshInv, Cached
    <3>3. Unaliased'
      BY <1>1, <3>1 DEF Unaliased
    <3>4. \A p \in Pages : RefsOK(p)'
      BY Zenon, <1>1, <3>1 DEF RefsOK, Cached, Users, Views
    <3>5. QED
      BY <3>2, <3>3, <3>4, ZenonT(30)
  <2>5. QED
    BY ZenonT(30), <2>1, <2>2, <2>3, <2>4 DEF Next
<1>4. SlotForm'
  BY ZenonT(30), <1>2, <1>3 DEF SlotForm
<1>5. QED
  BY <1>4, FullForms, PTL

(* What the handlers, the table and the pool keep true at every step of    *)
(* every thread: each page on its way, in a slot or installed is known to  *)
(* those that should know it, and counted once for each.                   *)
THEOREM Inductive == Spec => []FullInv
BY FullInit, FullNext, PTL DEF Spec

(* Two slots never get one frame from cp_pool_alloc, however many faults   *)
(* of however many areas run.                                              *)
THEOREM FramesDiffer == Spec => []PagesNotAliased
<1>1. FullInv => PagesNotAliased
  BY ZenonT(30) DEF FullInv
<1>2. QED
  BY <1>1, Inductive, PTL

(* The references of a cached page are its slot, the threads that carry it *)
(* and the places it is installed at: kdb_fault and kdb_page_mkwrite       *)
(* neither leak one nor drop one too many.                                 *)
THEOREM RefsCounted == Spec => []CachedPageRefs
<1>1. FullInv => CachedPageRefs
  BY Zenon DEF FullInv
<1>2. QED
  BY <1>1, Inductive, PTL

(* cp_pool_stats reports the pages in the slots of live mappings and those *)
(* on their way there, through every interleaving of faults and unmaps.    *)
THEOREM AllocatedCounted == Spec => []AllocatedCountsCached
<1>1. Init => AllocatedCountsCached
  <2> SUFFICES ASSUME Init
               PROVE  cpAllocated = Cardinality(Full) + Cardinality(Storing)
    BY Zenon DEF AllocatedCountsCached, Full, Storing
  <2>1. Full = {} /\ Storing = {} /\ cpAllocated = 0
    BY Zenon DEF Init, Full, Storing
  <2>2. QED
    BY <2>1, FS_EmptySet
<1>2. IInv /\ NewInv /\ AllocatedCountsCached /\ [Next]_vars => AllocatedCountsCached'
  BY Zenon, AllocatedNext
<1>3. FullInv => IInv /\ NewInv
  BY Zenon DEF FullInv
<1>4. QED
  BY <1>1, <1>2, <1>3, FullInit, FullNext, PTL DEF Spec

(* Whatever the number of threads, areas and pages, the handlers of vma.c  *)
(* and the calls of chrdev.c implement the page map: a process sees each   *)
(* offset get one page, keep it, and become writable only once it is       *)
(* marked.                                                                 *)
THEOREM Refines == Spec => ImplementsPageMap
<1>1. FullInv /\ [Next]_vars => [PageMap!Next]_(PageMap!vars)
  BY Zenon, InvNext, StepMapped DEF FullInv
<1>2. QED
  BY <1>1, FullInit, FullNext, InitMapped, PTL DEF Spec, ImplementsPageMap, PageMap!Spec

-----------------------------------------------------------------------------
(* The life of the module.                                                 *)

(* The caches and their pointers at each step of kdb_init, of its error    *)
(* labels and of kdb_exit; only a module that is live has open descriptors *)
(* or mapped areas.                                                        *)
LifeInv ==
  /\ files \in Nat
  /\ mod # "live" => files = 0 /\ Mapped = {}
  /\ \/ mod \in {"out", "err_lp_state"} /\ caches = {}
     \/ mod = "lp_state_cache" /\ caches = {} /\ ptrs = {}
     \/ mod \in {"vma_ctx_cache", "undo_lp"} /\ caches = {"lp"} /\ ptrs = {"lp"}
     \/ mod = "destroy_lp" /\ caches = {"lp"} /\ ptrs = {"lp", "ctx"}
     \/ /\ mod \in {"misc_register", "live", "destroy_ctx"}
        /\ caches = {"lp", "ctx"} /\ ptrs = {"lp", "ctx"}

(* What holds in every reachable state of the module.                      *)
ModuleInv == IInv /\ OwnersInv /\ AcceptedMappingInRange /\ LifeInv

(* insmod finds no area, so new memory for the module's variables breaks   *)
(* nothing.                                                                *)
LEMMA LoadKeeps ==
  ASSUME IInv, Load
  PROVE  IInv'
<1>a. TypeOK /\ CtxInv /\ LocalInv /\ LpInv /\ LockInv /\ PageInv /\ DirtyInv
  BY Zenon DEF IInv
<1>1. UNCHANGED <<vmaCtx, vmaOffs, pte, pteWritable, ctxLayout, hash,
                  totalCreated, lpLive, lpn, cp, dirty, refcount, lock, pageRef,
                  pc, area, off, kind, lp, pg>>
  BY Zenon DEF Load, vmaVars, pteVars, ctxVars, lpVars, reqVars
<1>2. layout' = NULL /\ cpAllocated' = 0 /\ cpTotalAllocs' = 0 /\ cpTotalFrees' = 0
  BY Zenon DEF Load
<1>3. TypeOK'
  BY SMTT(20), <1>a, <1>1, <1>2 DEF TypeOK
<1>4. CtxInv'
  <2>1. Mapped' = Mapped /\ Allocated' = Allocated
    BY Zenon, <1>1 DEF Mapped, Allocated
  <2>2. QED
    BY ZenonT(30), <1>a, <1>1, <1>2, <2>1 DEF CtxInv
<1>5. \A u \in Threads :
        MyCtx(u)' = MyCtx(u) /\ MyLpn(u)' = MyLpn(u) /\ MyCpi(u)' = MyCpi(u)
  BY Zenon, <1>1 DEF MyCtx, MyLpn, MyCpi, LpnOf, CpiOf, CpPerLp
<1>6. LocalInv' /\ LockInv'
  BY ZenonT(30), <1>a, <1>1, <1>5 DEF LocalInv, LocalOK, LockInv, LockOK
<1>7. LpInv'
  BY <1>a, <1>1, <1>5, ZenonT(30) DEF LpInv, LpOK, OneLpPerLpn
<1>8. PageInv'
  <2>1. \A c, o, p : HasPage(c, o, p) => HasPage(c, o, p)'
    BY ZenonT(30), <1>1 DEF HasPage, Chain, LpnOf, CpiOf, CpPerLp
  <2>2. QED
    BY ZenonT(30), <1>a, <1>1, <1>5, <2>1 DEF PageInv, Mapped
<1>9. DirtyInv'
  <2>1. \A c, o : DirtyAt(c, o) => DirtyAt(c, o)'
    BY ZenonT(30), <1>1 DEF DirtyAt, Chain, LpnOf, CpiOf, CpPerLp
  <2>2. QED
    BY Zenon, <1>a, <1>1, <1>5, <2>1 DEF DirtyInv, WritableIsDirty, Mapped
<1>10. QED
  BY <1>3, <1>4, <1>6, <1>7, <1>8, <1>9, ZenonT(30) DEF IInv

(* Calls on a descriptor, unmaps and faults happen only in a live module.  *)
LEMMA LiveOnly ==
  ASSUME IInv, LifeInv, CacheStep
  PROVE  mod = "live"
<1>a. TypeOK /\ CtxInv
  BY Zenon DEF IInv
<1>1. ASSUME Mapped # {}
      PROVE  mod = "live"
  BY Zenon, <1>1 DEF LifeInv
<1>2. CASE files > 0
  BY <1>2 DEF LifeInv
<1>3. ASSUME NEW v \in Vmas, Munmap(v)
      PROVE  Mapped # {}
  BY Zenon, <1>3 DEF Munmap, Mapped
<1>4. ASSUME NEW t \in Threads, Begin(t)
      PROVE  Mapped # {}
  <2>1. PICK v \in Vmas : vmaOffs[v] # {}
    BY Zenon, <1>4 DEF Begin, FaultBegin, WpBegin
  <2>2. QED
    BY ZenonT(30), <1>a, <2>1 DEF CtxInv
<1>5. ASSUME NEW t \in Threads, Step(t)
      PROVE  Mapped # {}
  BY ZenonT(30), <1>a, <1>5, StepFrame DEF CtxInv
<1>6. QED
  BY ZenonT(30), <1>1, <1>2, <1>3, <1>4, <1>5 DEF CacheStep

(* The invariant holds before the first load.                              *)
LEMMA ModuleInit == InitModule => ModuleInv
<1> SUFFICES ASSUME InitModule PROVE ModuleInv
  BY Zenon
<1>1. Init /\ mod = "out" /\ caches = {} /\ ptrs = {} /\ files = 0
  BY Zenon DEF InitModule
<1>2. IInv
  BY Zenon, <1>1, InvInit
<1>3. Mapped = {} /\ Allocated = {} /\ lpLive = {}
  BY Zenon, <1>1 DEF Init, Mapped, Allocated
<1>4. QED
  BY <1>1, <1>2, <1>3, ZenonT(30) DEF ModuleInv, OwnersInv, AcceptedMappingInRange, LifeInv

(* Every step of the module, of its users and of its handlers keeps it.    *)
LEMMA ModuleNext == ModuleInv /\ [NextModule]_allVars => ModuleInv'
<1> SUFFICES ASSUME ModuleInv, [NextModule]_allVars
             PROVE  ModuleInv'
  BY Zenon
<1>a. IInv /\ OwnersInv /\ AcceptedMappingInRange /\ LifeInv
  BY Zenon DEF ModuleInv
<1>1. CASE CacheStep
  <2>1. Next /\ UNCHANGED <<mod, caches, ptrs, files>>
    BY Zenon, <1>1 DEF CacheStep, Next, User, modVars
  <2>2. IInv' /\ AcceptedMappingInRange'
    BY ZenonT(30), <1>a, <2>1, InvNext, RangeNext
  <2>3. OwnersInv'
    BY <1>a, <2>1, OwnersUser, OwnersBegin, OwnersStep, ZenonT(30) DEF Next
  <2>4. LifeInv'
    BY <1>a, <1>1, <2>1, LiveOnly, ZenonT(30) DEF LifeInv
  <2>5. QED
    BY ZenonT(30), <2>2, <2>3, <2>4 DEF ModuleInv
<1>2. ASSUME UNCHANGED <<vmaCtx, vmaOffs, ctxLayout, hash, lpLive, pc, lp>>
      PROVE  OwnersInv' /\ AcceptedMappingInRange' /\ Mapped' = Mapped
  <2>1. Mapped' = Mapped /\ Allocated' = Allocated
    BY Zenon, <1>2 DEF Mapped, Allocated
  <2>2. OwnersInv'
    BY ZenonT(30), <1>a, <1>2, <2>1 DEF OwnersInv, Linked, Carried
  <2>3. AcceptedMappingInRange'
    BY ZenonT(30), <1>a, <1>2, <2>1 DEF AcceptedMappingInRange, InRange, LpnOf, CpPerLp
  <2>4. QED
    BY Zenon, <2>1, <2>2, <2>3
<1>3. ASSUME UNCHANGED vars
      PROVE  /\ IInv'
             /\ UNCHANGED <<vmaCtx, vmaOffs, ctxLayout, hash, lpLive, pc, lp>>
  BY Zenon, <1>a, <1>3, InvNext DEF vars, vmaVars, ctxVars, lpVars
<1>4. CASE Load
  <2>1. UNCHANGED <<vmaCtx, vmaOffs, ctxLayout, hash, lpLive, pc, lp>>
    BY Zenon, <1>4 DEF Load, vmaVars, ctxVars, lpVars
  <2>2. LifeInv'
    BY ZenonT(30), <1>a, <1>2, <1>4, <2>1 DEF Load, LifeInv
  <2>3. QED
    BY <1>a, <1>2, <1>4, <2>1, <2>2, LoadKeeps, ZenonT(30) DEF ModuleInv
<1>5. CASE UNCHANGED allVars
  BY <1>a, <1>2, <1>3, <1>5, ZenonT(30) DEF allVars, modVars, LifeInv, ModuleInv
<1>6. ASSUME UNCHANGED vars, LifeInv'
      PROVE  ModuleInv'
  BY Zenon, <1>2, <1>3, <1>6 DEF ModuleInv
<1>7. CASE CreateLpCache \/ CreateCtxCache
  <2>1. UNCHANGED vars /\ files' = files
    BY Zenon, <1>7 DEF CreateLpCache, CreateCtxCache, CreateCache
  <2>2. LifeInv'
    BY <1>a, <1>2, <1>3, <1>7, <2>1, SMTT(20)
       DEF CreateLpCache, CreateCtxCache, CreateCache, LifeInv
  <2>3. QED
    BY <1>6, <2>1, <2>2, ZenonT(30)
<1>8. CASE \/ CreateLpCacheFail \/ CreateCtxCacheFail \/ UndoLpCache \/ MiscRegister
           \/ MiscRegisterFail
  <2>1. UNCHANGED vars /\ files' = files
    BY Zenon, <1>8 DEF CreateLpCacheFail, CreateCtxCacheFail, UndoLpCache, MiscRegister,
         MiscRegisterFail, Fails
  <2>2. LifeInv'
    BY <1>a, <1>2, <1>3, <1>8, <2>1, SMTT(20)
       DEF CreateLpCacheFail, CreateCtxCacheFail, UndoLpCache, MiscRegister,
           MiscRegisterFail, Fails, LifeInv
  <2>3. QED
    BY <1>6, <2>1, <2>2, ZenonT(30)
<1>9. CASE Unload \/ DestroyCtxCache \/ DestroyLpCache \/ CpPoolExit
  <2>1. UNCHANGED vars /\ files' = files
    BY Zenon, <1>9 DEF Unload, DestroyCtxCache, DestroyLpCache, CpPoolExit
  <2>2. LifeInv'
    BY <1>a, <1>2, <1>3, <1>9, <2>1, SMTT(20)
       DEF Unload, Pinned, DestroyCtxCache, DestroyLpCache, CpPoolExit, LifeInv
  <2>3. QED
    BY Zenon, <1>6, <2>1, <2>2
<1>10. CASE Open \/ Close
  <2>1. UNCHANGED <<vars, mod, caches, ptrs>>
    BY Zenon, <1>10 DEF Open, Close
  <2>2. LifeInv'
    BY <1>a, <1>2, <1>3, <1>10, <2>1, SMTT(20) DEF Open, Close, LifeInv
  <2>3. QED
    BY <1>6, <2>1, <2>2, ZenonT(30)
<1>11. QED
  BY <1>1, <1>4, <1>5, <1>7, <1>8, <1>9, <1>10, ZenonT(30) DEF NextModule, Lifecycle

-----------------------------------------------------------------------------
(* Objects and mappings of the module.                                     *)

(* kmem_cache_destroy gets a cache that exists and is empty, no handler    *)
(* allocates from a cache that is gone, and a load that fails at any step  *)
(* leaves none: kdb_exit runs only when no object has an owner, and each   *)
(* error label undoes exactly what was done before the jump to it.         *)
THEOREM CachesOutliveObjects == SpecModule => []CachesHoldObjects
<1>1. ASSUME ModuleInv
      PROVE  CachesHoldObjects
  <2>a. IInv /\ OwnersInv /\ LifeInv /\ TypeOK /\ CtxInv
    BY Zenon, <1>1 DEF ModuleInv, IInv
  <2>1. ASSUME Mapped # {}
        PROVE  mod = "live" /\ "lp" \in caches /\ "ctx" \in caches
    BY ZenonT(30), <2>a, <2>1 DEF LifeInv
  <2>2. ASSUME Allocated # {}
        PROVE  Mapped # {}
    BY ZenonT(30), <2>a, <2>2 DEF OwnersInv
  <2>3. ASSUME NEW t \in Threads, pc[t] # "idle"
        PROVE  Mapped # {}
    BY ZenonT(30), <2>a, <2>3 DEF CtxInv
  <2>4. ASSUME NEW l \in lpLive
        PROVE  Mapped # {}
    <3>1. CASE Linked(l)
      <4>1. PICK c \in Ctxs : l \in hash[c]
        BY Zenon, <3>1 DEF Linked
      <4>2. c \in Allocated
        BY ZenonT(30), <2>a, <4>1 DEF CtxInv
      <4>3. QED
        BY Zenon, <2>2, <4>2
    <3>2. CASE Carried(l)
      BY Zenon, <2>3, <3>2 DEF Carried
    <3>3. QED
      BY <2>a, <3>1, <3>2, Zenon DEF OwnersInv
  <2>5. /\ mod = "out" => caches = {}
        /\ mod = "destroy_ctx" => "ctx" \in caches
        /\ mod = "destroy_lp" => "lp" \in caches
    BY <2>a DEF LifeInv
  <2>6. QED
    BY <2>1, <2>2, <2>3, <2>4, <2>5, ZenonT(30) DEF CachesHoldObjects
<1>2. QED
  BY <1>1, ModuleInit, ModuleNext, PTL DEF SpecModule

(* The bound test of kdb_fault never refuses an offset of an area that     *)
(* kdb_mmap accepted from offset 0, for any width of the size computation. *)
THEOREM MappingsInRange == SpecModule => []AcceptedMappingInRange
<1>1. ModuleInv => AcceptedMappingInRange
  BY Zenon DEF ModuleInv
<1>2. QED
  BY <1>1, ModuleInit, ModuleNext, PTL DEF SpecModule

-----------------------------------------------------------------------------
(* The cache in a module that comes and goes.                              *)

(* A step of the module is a step of the cache, insmod, or not seen by it. *)
LEMMA ModuleSteps == ASSUME [NextModule]_allVars PROVE [Next]_vars \/ Load
<1>1. CacheStep => Next
  BY Zenon DEF CacheStep, Next, User
<1>2. Lifecycle => Load \/ UNCHANGED vars
  BY Zenon DEF Lifecycle, CreateLpCache, CreateCtxCache, CreateCache, CreateLpCacheFail,
       CreateCtxCacheFail, UndoLpCache, MiscRegister, MiscRegisterFail, Fails, Unload,
       DestroyCtxCache, DestroyLpCache, CpPoolExit, Open, Close
<1>3. UNCHANGED allVars => UNCHANGED vars
  BY Zenon DEF allVars
<1>4. QED
  BY ZenonT(30), <1>1, <1>2, <1>3 DEF NextModule

(* insmod touches nothing that the references and frames are counted from. *)
LEMMA LoadKeepsFull == ASSUME FullInv, Load PROVE FullInv'
<1>1. IInv /\ NewInv /\ FreshInv /\ Unaliased /\ \A p \in Pages : RefsOK(p)
  BY Zenon, FullForms DEF SlotForm
<1>2. UNCHANGED <<hash, cp, dirty, lp, pg, pc, pte, pageRef>>
  BY Zenon DEF Load, ctxVars, lpVars, pteVars
<1>3. IInv'
  BY Zenon, <1>1, LoadKeeps
<1>4. NewInv' /\ FreshInv'
  BY <1>1, <1>2, SMTT(20) DEF NewInv, FreshInv, Cached
<1>5. Unaliased'
  BY <1>1, <1>2 DEF Unaliased
<1>6. \A p \in Pages : RefsOK(p)'
  BY Zenon, <1>1, <1>2 DEF RefsOK, Cached, Users, Views
<1>7. SlotForm'
  BY ZenonT(30), <1>3, <1>4, <1>5, <1>6 DEF SlotForm
<1>8. QED
  BY <1>7, FullForms, PTL

(* The invariants of the cache hold whatever the module goes through.      *)
LifeFullInv == FullInv /\ ModuleInv

LEMMA LifeInit == InitModule => LifeFullInv
<1>1. InitModule => Init
  BY Zenon DEF InitModule
<1>2. QED
  BY Zenon, <1>1, FullInit, ModuleInit DEF LifeFullInv

LEMMA LifeNext == LifeFullInv /\ [NextModule]_allVars => LifeFullInv'
BY ZenonT(30), ModuleSteps, FullNext, LoadKeepsFull, ModuleNext DEF LifeFullInv

(* A module that is not live has no page in a slot and none on its way.    *)
LEMMA EmptyWhenOut ==
  ASSUME LifeFullInv, mod # "live"
  PROVE  Full = {} /\ Storing = {}
<1>1. OwnersInv /\ TypeOK /\ CtxInv /\ Mapped = {}
  BY Zenon DEF LifeFullInv, ModuleInv, LifeInv, IInv
<1>2. Allocated = {}
  BY ZenonT(30), <1>1 DEF OwnersInv
<1>3. \A c \in Ctxs : hash[c] = {}
  BY ZenonT(30), <1>1, <1>2 DEF CtxInv
<1>4. \A t \in Threads : pc[t] = "idle"
  BY ZenonT(30), <1>1 DEF CtxInv
<1>5. QED
  BY Zenon, <1>3, <1>4 DEF Full, Storing

(* What cp_pool_stats and cp_pool_exit report adds up, and of a module     *)
(* that is not live the pool reports nothing: its pages have all been      *)
(* counted as freed.                                                       *)
PoolSettled ==
  /\ cpAllocated = cpTotalAllocs - cpTotalFrees
  /\ mod # "live" => cpAllocated = 0

(* The three counters move together.                                       *)
LEMMA CountersTogether ==
  ASSUME IInv, [Next]_vars, cpAllocated = cpTotalAllocs - cpTotalFrees
  PROVE  cpAllocated' = cpTotalAllocs' - cpTotalFrees'
<1>a. TypeOK /\ cpAllocated \in Int /\ cpTotalAllocs \in Int /\ cpTotalFrees \in Int
  BY Zenon DEF IInv, TypeOK
<1>1. ASSUME UNCHANGED <<cpAllocated, cpTotalAllocs, cpTotalFrees>>
      PROVE  cpAllocated' = cpTotalAllocs' - cpTotalFrees'
  BY Zenon, <1>1
<1>2. ASSUME NEW t \in Threads, Step(t), ~CpCount(t)
      PROVE  UNCHANGED <<cpAllocated, cpTotalAllocs, cpTotalFrees>>
  BY ZenonT(30), <1>2 DEF poolVars, Step, LpFind, LpMiss, LpAlloc, LpAllocFail, LpInsert,
       LpInsertLost, LpCount, LpLock, CpHit, CpAlloc, CpAllocFail,
       CpStore, LpPut, LpPutFail, FaultEnd, MkFind, MkMark, MkPut, MkEnd,
       MapPage, MapPresent
<1>3. ASSUME NEW t \in Threads, CpCount(t)
      PROVE  cpAllocated' = cpTotalAllocs' - cpTotalFrees'
  <2>1. /\ cpAllocated' = cpAllocated + 1 /\ cpTotalAllocs' = cpTotalAllocs + 1
        /\ cpTotalFrees' = cpTotalFrees
    BY Zenon, <1>3 DEF CpCount
  <2>2. QED
    BY <1>a, <2>1
<1>4. ASSUME NEW t \in Threads, Begin(t)
      PROVE  UNCHANGED <<cpAllocated, cpTotalAllocs, cpTotalFrees>>
  BY Zenon, <1>a, <1>4, BeginFrame DEF poolVars
<1>5. ASSUME NEW v \in Vmas, Munmap(v)
      PROVE  cpAllocated' = cpTotalAllocs' - cpTotalFrees'
  <2> DEFINE n == Cardinality(Filled(vmaCtx[v]))
  <2>1. /\ cpAllocated' = cpAllocated - n /\ cpTotalAllocs' = cpTotalAllocs
        /\ cpTotalFrees' = cpTotalFrees + n /\ vmaCtx[v] \in Ctxs
    BY ZenonT(30), <1>a, <1>5 DEF Munmap, TypeOK
  <2>2. n \in Nat
    BY <1>a, <2>1, FilledCount, Zenon
  <2> HIDE DEF n
  <2>3. QED
    BY <1>a, <2>1, <2>2
<1>6. CASE User
  BY ZenonT(30), <1>1, <1>5, <1>6 DEF User, SetLayout, Mmap, poolVars
<1>7. CASE UNCHANGED vars
  BY Zenon, <1>1, <1>7 DEF vars, poolVars
<1>8. QED
  BY ZenonT(30), <1>1, <1>2, <1>3, <1>4, <1>6, <1>7 DEF Next

LEMMA CountedWhenOut ==
  ASSUME LifeFullInv, mod # "live"
  PROVE  AllocatedCountsCached <=> cpAllocated = 0
<1>1. Cardinality(Full) = 0 /\ Cardinality(Storing) = 0
  BY Zenon, EmptyWhenOut, FS_EmptySet
<1>2. AllocatedCountsCached <=> cpAllocated = Cardinality(Full) + Cardinality(Storing)
  BY Zenon DEF AllocatedCountsCached, Full, Storing
<1>3. QED
  BY <1>1, <1>2, SMTT(20)

(* Whatever loads, failing loads and unloads, the counters of the pool     *)
(* are right after every step.                                             *)
LEMMA PoolNext ==
  ASSUME LifeFullInv, AllocatedCountsCached, cpAllocated = cpTotalAllocs - cpTotalFrees,
         [NextModule]_allVars
  PROVE  AllocatedCountsCached' /\ cpAllocated' = cpTotalAllocs' - cpTotalFrees'
<1>1. IInv /\ NewInv
  BY Zenon DEF LifeFullInv, FullInv
<1>2. CASE [Next]_vars
  BY Zenon, <1>1, <1>2, AllocatedNext, CountersTogether
<1>3. CASE Load
  <2>1. mod = "out" /\ cpAllocated' = 0 /\ cpTotalAllocs' = 0 /\ cpTotalFrees' = 0
    BY Zenon, <1>3 DEF Load
  <2>2. UNCHANGED <<hash, cp, pc>>
    BY Zenon, <1>3 DEF Load, ctxVars, lpVars
  <2>3. Full' = {} /\ Storing' = {}
    BY Zenon, <2>1, <2>2, EmptyWhenOut DEF Full, Storing
  <2>4. cpAllocated' = Cardinality(Full') + Cardinality(Storing')
    BY <2>1, <2>3, FS_EmptySet
  <2>5. AllocatedCountsCached'
    BY Zenon, <2>4 DEF AllocatedCountsCached, Full, Storing
  <2>6. QED
    BY <2>1, <2>5
<1>4. QED
  BY Zenon, <1>2, <1>3, ModuleSteps

(* What kdb_fault, kdb_page_mkwrite and vma_ctx_destroy rely on also holds *)
(* where kdb_init fails at any step and the module is unloaded and loaded  *)
(* again.                                                                  *)
THEOREM InductiveInLife == SpecModule => []FullInv
<1>1. LifeFullInv => FullInv
  BY Zenon DEF LifeFullInv
<1>2. QED
  BY <1>1, LifeInit, LifeNext, PTL DEF SpecModule

(* cp_pool_stats reports the pages in slots and on their way in a module   *)
(* that was loaded again as it does in the first one.                      *)
THEOREM CountedInLife == SpecModule => []AllocatedCountsCached
<1> DEFINE Balanced == cpAllocated = cpTotalAllocs - cpTotalFrees
<1>1. InitModule => AllocatedCountsCached /\ Balanced
  <2> SUFFICES ASSUME InitModule PROVE AllocatedCountsCached /\ Balanced
    BY Zenon
  <2>1. mod # "live" /\ cpAllocated = 0 /\ cpTotalAllocs = 0 /\ cpTotalFrees = 0
    BY Zenon DEF InitModule, Init
  <2>2. AllocatedCountsCached
    BY Zenon, <2>1, LifeInit, CountedWhenOut
  <2>3. QED
    BY <2>1, <2>2
<1>2. LifeFullInv /\ AllocatedCountsCached /\ Balanced /\ [NextModule]_allVars =>
        AllocatedCountsCached' /\ Balanced'
  BY Zenon, PoolNext
<1> HIDE DEF Balanced
<1>3. QED
  BY <1>1, <1>2, LifeInit, LifeNext, PTL DEF SpecModule

(* cp_pool_exit never reports a page: before a module goes every page that *)
(* cp_pool_alloc counted has been counted back by vma_ctx_destroy.         *)
THEOREM PoolSettles == SpecModule => []PoolSettled
<1> DEFINE Balanced == cpAllocated = cpTotalAllocs - cpTotalFrees
<1>1. InitModule => Balanced
  BY DEF InitModule, Init
<1>2. LifeFullInv /\ AllocatedCountsCached /\ Balanced /\ [NextModule]_allVars => Balanced'
  BY Zenon, PoolNext
<1>3. LifeFullInv /\ AllocatedCountsCached /\ Balanced => PoolSettled
  BY Zenon, CountedWhenOut DEF PoolSettled
<1> HIDE DEF Balanced
<1>4. QED
  BY <1>1, <1>2, <1>3, LifeInit, LifeNext, CountedInLife, PTL DEF SpecModule

(* kdb_fault, kdb_page_mkwrite, kdb_mmap and the unmap implement the page  *)
(* map also where kdb_init and kdb_exit run between them: no load or       *)
(* unload changes what a process finds at an offset.                       *)
THEOREM RefinesInLife == SpecModule => ImplementsPageMap
<1>1. LifeFullInv /\ [NextModule]_allVars => [PageMap!Next]_(PageMap!vars)
  <2> SUFFICES ASSUME LifeFullInv, [NextModule]_allVars PROVE [PageMap!Next]_(PageMap!vars)
    BY Zenon
  <2>1. CASE [Next]_vars
    BY Zenon, <2>1, InvNext, StepMapped DEF LifeFullInv, FullInv
  <2>2. CASE Load
    <3>1. UNCHANGED <<vmaCtx, ctxLayout, hash, lpn, cp, dirty, pte, pteWritable>>
      BY Zenon, <2>2 DEF Load, vmaVars, pteVars, ctxVars, lpVars
    <3>2. IInv /\ IInv'
      BY Zenon, <2>2, LoadKeeps DEF LifeFullInv, FullInv
    <3>3. \A w \in Vmas : TableOf(w)' = TableOf(w) /\ DirtyOf(w)' = DirtyOf(w)
      BY Zenon, <3>1, <3>2, AreaKept DEF IInv
    <3>4. QED
      BY Zenon, <3>1, <3>3 DEF PageMap!vars, Mapped
  <2>3. QED
    BY Zenon, <2>1, <2>2, ModuleSteps
<1>2. InitModule => PageMap!Init
  BY Zenon, InitMapped DEF InitModule
<1>3. QED
  BY <1>1, <1>2, LifeInit, LifeNext, PTL DEF SpecModule, ImplementsPageMap, PageMap!Spec
=============================================================================
