----------------------------- MODULE MCBookLog -----------------------------
(* The TLC instances of BookLog. *)
EXTENDS BookLog, TLC

(* Extents that are no files, and the threads, are interchangeable.         *)
Interchangeable == Permutations(Addrs \ Files) \cup Permutations(Threads)
=============================================================================
