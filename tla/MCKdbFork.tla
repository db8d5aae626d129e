----------------------------- MODULE MCKdbFork ------------------------------
(* The instance of KdbFork for TLC: one page, one layout.                  *)
EXTENDS KdbFork

ForkLayouts == {[cp_size |-> 2, lp_size |-> 4, n_lpn |-> 1]}
ForkPgOffs == {0}
=============================================================================
