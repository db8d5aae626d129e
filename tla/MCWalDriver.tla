---------------------------- MODULE MCWalDriver ----------------------------
(* Instances of WalDriver for TLC.                                         *)
EXTENDS WalDriver, TLC

BioShapes == {<<2>>, <<1, 1>>}
ThreadSymmetry == Permutations(Threads)
=============================================================================
