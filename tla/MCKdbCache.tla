----------------------------- MODULE MCKdbCache -----------------------------
(* Instances of KdbCache for TLC.                                          *)
EXTENDS KdbCacheInv, TLC

Layout(cpSize, lpSize, n) == [cp_size |-> cpSize, lp_size |-> lpSize, n_lpn |-> n]

(* One layout, of one logical page of two page frames (of 2 bytes) each.   *)
OneLayout == {Layout(2, 4, 1)}
(* The same two frames as one logical page, and as two.                    *)
TwoLayouts == {Layout(2, 4, 1), Layout(2, 2, 2)}
TwoPgOffs == 0 .. 1
OnePgOff == {0}

Symmetry ==
  Permutations(Threads) \cup Permutations(Vmas) \cup Permutations(Ctxs)
    \cup Permutations(Lps) \cup Permutations(Pages)
=============================================================================
