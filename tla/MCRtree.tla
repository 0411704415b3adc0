------------------------------ MODULE MCRtree ------------------------------
(* Addresses, cache slots and callers for the TLC instance of Rtree. *)
EXTENDS Rtree

CONSTANTS worker, helper   \* threads

(* Two addresses share a leaf, and all leaves share the one slot of L1.     *)
TwoInLeafOne == [k \in Keys |-> IF k = 0 THEN 1 ELSE k]
OneSlot      == [lk \in LeafKeys |-> 0]

(* The worker does everything to one page, writes to pages of other leaves, *)
(* so that its caches overflow, and looks at one of them; the helper works  *)
(* on the other page of the shared leaf and reads the worker's.             *)
Callers ==
  [t \in Threads |->
     IF t = worker
     THEN (Ops \X {1}) \union ({"rtree_write"} \X (Keys \ {0, 1})) \union {<<"probe", 2>>}
     ELSE {<<"rtree_write", 0>>, <<"rtree_clear", 0>>, <<"read", 1>>}]
=============================================================================
