------------------------------ MODULE MCSlabs ------------------------------
(* Classes, threads and homes for the TLC instances of Slabs. *)
EXTENDS Slabs

CONSTANTS owner, owner2, near, far   \* threads, named for where they start

OneSize  == [c \in {0} |-> 1]
TwoSizes == [c \in {0, 1} |-> c + 1]
HomeOf   ==
  [t \in Threads |-> IF t = near THEN "near" ELSE IF t = far THEN "far" ELSE "own"]
=============================================================================
