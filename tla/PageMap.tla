------------------------------ MODULE PageMap ------------------------------
(***************************************************************************)
(* What the radix tree promises the threads that use it: one map from page *)
(* addresses to words, shared by all of them.  A thread asks for one       *)
(* operation at a time; the map changes only at the page a thread asked to *)
(* change, to the word it gave, and the answer to a lookup is the word of  *)
(* the page asked for at a moment between the question and the answer.     *)
(***************************************************************************)
CONSTANTS
  Threads,
  Keys,      \* page addresses
  Words,     \* what a page may map to
  Zero,      \* the word of a page nobody has written
  Part(_, _) \* Part(w, x): w with a part of it taken from x

NoQuestion == [op |-> "none", key |-> CHOOSE k \in Keys : TRUE, word |-> Zero]
Questions  == [op : {"store", "look"}, key : Keys, word : Words]

VARIABLES
  map,
  asked,   \* what each thread waits for
  said     \* the answer each thread got, until it asks again

vars == <<map, asked, said>>

Init ==
  /\ map = [k \in Keys |-> Zero]
  /\ asked = [t \in Threads |-> NoQuestion]
  /\ said = [t \in Threads |-> Zero]

Ask(t) ==
  /\ asked[t] = NoQuestion
  /\ \E q \in Questions : asked' = [asked EXCEPT ![t] = q]
  /\ said' = [said EXCEPT ![t] = Zero]
  /\ UNCHANGED map

(* Only lookups may come at any time: who stores is alone with the page.    *)
Begin(t) ==
  /\ asked[t].op = "store"
  /\ map' = [map EXCEPT ![asked[t].key] = Part(@, asked[t].word)]
  /\ UNCHANGED <<asked, said>>

Store(t) ==
  /\ asked[t].op = "store"
  /\ map' = [map EXCEPT ![asked[t].key] = asked[t].word]
  /\ asked' = [asked EXCEPT ![t] = NoQuestion]
  /\ UNCHANGED said

Answer(t) ==
  /\ asked[t].op = "look"
  /\ said' = [said EXCEPT ![t] = map[asked[t].key]]
  /\ asked' = [asked EXCEPT ![t] = NoQuestion]
  /\ UNCHANGED map

Next == \E t \in Threads : Ask(t) \/ Begin(t) \/ Store(t) \/ Answer(t)

Spec == Init /\ [][Next]_vars
=============================================================================
