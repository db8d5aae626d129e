-------------------------- MODULE MCUringblkQueue --------------------------
(* Instances of UringblkQueue for TLC.                                     *)
EXTENDS UringblkQueue

(* One segment of one sector, one of two, and two segments.                *)
AnyShape == {<<1>>, <<2>>, <<1, 1>>}

(* What the device backend transfers whole: one segment within a page.     *)
PageShapes == {<<1>>, <<2>>}

(* One logical block of two sectors, and two of them.                      *)
BlockShapes == {<<2>>, <<4>>}
=============================================================================
