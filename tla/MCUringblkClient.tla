-------------------------- MODULE MCUringblkClient --------------------------
(* Instances of UringblkClient for TLC.                                    *)
EXTENDS UringblkClient

One == {0}
Two == 0 .. 1
Three == 0 .. 2
=============================================================================
