--------------------------- MODULE DurableRecords ---------------------------
(***************************************************************************)
(* What the bookkeeping log of an arena promises: at every moment the      *)
(* persistent memory holds a record of every extent that is held.  Records *)
(* of extents that were released may linger; they only ever go away, and   *)
(* nothing but a release adds one.                                         *)
(***************************************************************************)
EXTENDS Naturals

CONSTANTS
  Addrs,
  Files     \* those that are never released; the first one is held from the start

VARIABLES
  held,       \* extents that are logged and not released
  lingering   \* records in persistent memory beyond one for each held extent

Init ==
  /\ \E f \in Files : held = {f}
  /\ lingering = [a \in Addrs |-> 0]

Log(a) ==
  /\ a \notin held
  /\ held' = held \cup {a}
  /\ UNCHANGED lingering

Release(a) ==
  /\ a \in held \ Files
  /\ held' = held \ {a}
  /\ lingering' = [lingering EXCEPT ![a] = @ + 1]

Fade ==
  /\ UNCHANGED held
  /\ lingering' \in [Addrs -> Nat]
  /\ \A a \in Addrs : lingering'[a] <= lingering[a]

Next == (\E a \in Addrs : Log(a) \/ Release(a)) \/ Fade

Spec == Init /\ [][Next]_<<held, lingering>>
=============================================================================
