---------------------------- MODULE MCKdbModule -----------------------------
(* Instances of KdbModule for TLC.                                         *)
EXTENDS KdbModule

Layout(cpSize, lpSize, n) == [cp_size |-> cpSize, lp_size |-> lpSize, n_lpn |-> n]

(* A single page; nine logical pages of two frames, whose 36 bytes wrap at *)
(* 16 to the size of one of them; a layout that is refused.                *)
LiveLayouts == {Layout(2, 2, 1), Layout(2, 4, 9), Layout(2, 3, 1)}
TwoPgOffs == 0 .. 1
=============================================================================
