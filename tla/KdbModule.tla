----------------------------- MODULE KdbModule ------------------------------
(***************************************************************************)
(* KdbCache in the life of its module: kdb_init and kdb_exit of kdb_main.c *)
(* with cp_pool_init, lp_state_init, kdb_chrdev_init and their exits.  The *)
(* fops name the module as their owner, so an open file keeps it loaded;   *)
(* a mapped area keeps its file open after the descriptor is closed.       *)
(***************************************************************************)
EXTENDS KdbCache

CONSTANT MaxFiles   \* bound on the descriptors open at a time

VARIABLES
  mod,      \* "out", the next step of kdb_init or kdb_exit, or "live"
  caches,   \* slab caches that exist: "lp" for lp_state_cache, "ctx" for vma_ctx_cache
  ptrs,     \* which of the pointers lp_state_cache and vma_ctx_cache are set
  files     \* descriptors open on the device

modVars == <<mod, caches, ptrs, files>>
allVars == <<vars, modVars>>

InitModule ==
  /\ Init
  /\ mod = "out" /\ caches = {} /\ ptrs = {} /\ files = 0
-----------------------------------------------------------------------------
(* insmod.  The memory of the module is new, and cp_pool_init cannot fail. *)
Load ==
  /\ mod = "out"
  /\ mod' = "lp_state_cache"
  /\ ptrs' = {}
  /\ layout' = NULL
  /\ cpAllocated' = 0 /\ cpTotalAllocs' = 0 /\ cpTotalFrees' = 0
  /\ UNCHANGED <<vmaVars, pteVars, ctxVars, lpVars, pageRef, pc, reqVars, lp,
                 pg, caches, files>>

(* kmem_cache_create, and the jump on its failure.                         *)
CreateCache(at, c, next) ==
  /\ mod = at
  /\ mod' = next
  /\ caches' = caches \cup {c}
  /\ ptrs' = ptrs \cup {c}
  /\ UNCHANGED <<vars, files>>
Fails(at, label) ==
  /\ mod = at
  /\ mod' = label
  /\ UNCHANGED <<vars, caches, ptrs, files>>

(* lp_state_init makes one cache ...                                       *)
CreateLpCache     == CreateCache("lp_state_cache", "lp", "vma_ctx_cache")
CreateLpCacheFail == Fails("lp_state_cache", "err_lp_state")

(* ... and then the other.                                                 *)
CreateCtxCache     == CreateCache("vma_ctx_cache", "ctx", "misc_register")
CreateCtxCacheFail == Fails("vma_ctx_cache", "undo_lp")

(* Mutant: UndoLpCache left to kdb_init.                                   *)
UndoLpCacheNot ==
  /\ mod = "undo_lp"
  /\ mod' = "err_lp_state"
  /\ UNCHANGED <<vars, caches, ptrs, files>>

(* Without the second, lp_state_init itself destroys the first; its        *)
(* pointer stays set.                                                      *)
UndoLpCache ==
  /\ mod = "undo_lp"
  /\ mod' = "err_lp_state"
  /\ caches' = caches \ {"lp"}
  /\ UNCHANGED <<vars, ptrs, files>>

MiscRegister ==
  /\ mod = "misc_register"
  /\ mod' = "live"
  /\ UNCHANGED <<vars, caches, ptrs, files>>

(* err_chrdev is lp_state_exit, then what is at err_lp_state.              *)
MiscRegisterFail == Fails("misc_register", "destroy_ctx")

Pinned == files # 0 \/ Mapped # {}

(* rmmod, which the kernel refuses while the module is in use.  Nobody can *)
(* open the device from here on, and misc_deregister removes it.           *)
Unload ==
  /\ mod = "live" /\ ~Pinned
  /\ mod' = "destroy_ctx"
  /\ UNCHANGED <<vars, caches, ptrs, files>>

(* lp_state_exit, of kdb_exit and of err_chrdev.                           *)
DestroyCtxCache ==
  /\ mod = "destroy_ctx"
  /\ mod' = "destroy_lp"
  /\ caches' = caches \ (ptrs \cap {"ctx"})
  /\ UNCHANGED <<vars, ptrs, files>>

DestroyLpCache ==
  /\ mod = "destroy_lp"
  /\ mod' = "err_lp_state"
  /\ caches' = caches \ (ptrs \cap {"lp"})
  /\ UNCHANGED <<vars, ptrs, files>>

(* cp_pool_exit, of kdb_exit and of err_lp_state, only reports.            *)
CpPoolExit ==
  /\ mod = "err_lp_state"
  /\ mod' = "out"
  /\ UNCHANGED <<vars, caches, ptrs, files>>

Open ==
  /\ mod = "live" /\ files < MaxFiles
  /\ files' = files + 1
  /\ UNCHANGED <<vars, mod, caches, ptrs>>

Close ==
  /\ files > 0
  /\ files' = files - 1
  /\ UNCHANGED <<vars, mod, caches, ptrs>>

(* SetLayout and Mmap are calls on an open descriptor; a mapped area needs *)
(* none to fault or to be unmapped.                                        *)
CacheStep ==
  /\ \/ /\ files > 0
        /\ \/ \E L \in Layouts : SetLayout(L)
           \/ \E v \in Vmas, first, last \in PgOffs : Mmap(v, first, last)
     \/ \E v \in Vmas : Munmap(v)
     \/ \E t \in Threads : Begin(t) \/ Step(t)
  /\ UNCHANGED modVars

Lifecycle ==
  \/ Load \/ CreateLpCache \/ CreateLpCacheFail
  \/ CreateCtxCache \/ CreateCtxCacheFail \/ UndoLpCache
  \/ MiscRegister \/ MiscRegisterFail
  \/ Unload \/ DestroyCtxCache \/ DestroyLpCache \/ CpPoolExit
  \/ Open \/ Close

NextModule == Lifecycle \/ CacheStep

SpecModule == InitModule /\ [][NextModule]_allVars /\ Fairness
-----------------------------------------------------------------------------
(* Objects live in caches that exist: however loading, failing loads,      *)
(* unloading, mappings that outlive their descriptor and faults interleave,*)
(* no handler allocates from a cache that is gone, kmem_cache_destroy gets *)
(* a cache that exists and is empty, and the error labels of kdb_init and  *)
(* of lp_state_init, wherever loading fails, leave no cache behind.        *)
CachesHoldObjects ==
  /\ lpLive # {} => "lp" \in caches
  /\ Allocated # {} => "ctx" \in caches
  /\ (\E t \in Threads : pc[t] # "idle") => mod = "live"
  /\ mod = "destroy_ctx" /\ "ctx" \in ptrs => "ctx" \in caches
  /\ mod = "destroy_lp" /\ "lp" \in ptrs => "lp" \in caches
  /\ mod = "out" => caches = {}
=============================================================================
