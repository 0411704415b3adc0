------------------------------ MODULE PageHeap ------------------------------
(***************************************************************************)
(* What the extent layer of an arena promises its two clients (the large   *)
(* path of pmalloc_malloc_to and the slab layer): an allocation returns a  *)
(* run of pages that shares no page with any run still allocated, and the  *)
(* run keeps its place and length until it is freed.  Nothing else is      *)
(* promised: neither where the run lies nor when its pages are used again. *)
(***************************************************************************)
EXTENDS Integers

CONSTANTS
  NPages,    \* pages of address space the arena's files may be mapped at
  Sizes      \* lengths, in pages, a client may ask for

Pages == 0 .. NPages - 1

VARIABLE heap   \* heap[p] = length of the run that starts at p, 0 if none

Init == heap = [p \in Pages |-> 0]

(* The runs starting at p (n pages long) and at q (m pages long) are apart. *)
Apart(p, n, q, m) == p + n <= q \/ q + m <= p

Alloc(p, n) ==
  /\ heap[p] = 0
  /\ p + n <= NPages
  /\ \A q \in Pages : heap[q] > 0 => Apart(p, n, q, heap[q])
  /\ heap' = [heap EXCEPT ![p] = n]

Free(p) ==
  /\ heap[p] > 0
  /\ heap' = [heap EXCEPT ![p] = 0]

Next ==
  \E p \in Pages : Free(p) \/ \E n \in Sizes : Alloc(p, n)

Spec == Init /\ [][Next]_heap
=============================================================================
