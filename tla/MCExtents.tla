----------------------------- MODULE MCExtents -----------------------------
(* Address spaces for the TLC instances of Extents. *)
EXTENDS Extents

(* Two chunks side by side: coalescing can run from one file to the next. *)
TwoPageChunks   == {0, 2}
ThreePageChunks == {0, 3}
=============================================================================
