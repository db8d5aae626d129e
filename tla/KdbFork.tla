------------------------------ MODULE KdbFork -------------------------------
(***************************************************************************)
(* KdbCache with areas that the kernel duplicates: fork copies an area     *)
(* into the child, and a partial munmap or mprotect splits one.  The copy  *)
(* has the vm_private_data of the original and kdb_vma_open, called for    *)
(* it, takes no reference to the context.                                  *)
(***************************************************************************)
EXTENDS KdbCache

(* A shared area with VM_MIXEDMAP is copied with its installed pages, each *)
(* with one more reference.                                                *)
VmaOpen(v, w) ==
  /\ vmaCtx[v] # NULL /\ vmaCtx[w] = NULL
  /\ vmaCtx' = [vmaCtx EXCEPT ![w] = vmaCtx[v]]
  /\ vmaOffs' = [vmaOffs EXCEPT ![w] = vmaOffs[v]]
  /\ pte' = [pte EXCEPT ![w] = pte[v]]
  /\ pteWritable' = [pteWritable EXCEPT ![w] = pteWritable[v]]
  /\ pageRef' = [p \in Pages |-> pageRef[p] + Cardinality(Installed(v, p))]
  /\ UNCHANGED <<devVars, ctxVars, lpVars, poolVars, pc, reqVars, lp, pg>>

NextFork == Next \/ \E v, w \in Vmas : VmaOpen(v, w)

SpecFork == Init /\ [][NextFork]_vars

(* vma_ctx_destroy clears "our pointers to avoid use-after-free": after an *)
(* area is closed no area that is still mapped leads to a freed context.   *)
NoDanglingContext == \A v \in Mapped : vmaCtx[v] \in Allocated
=============================================================================
