--------------------------- MODULE Rtree_proofs ---------------------------
(***************************************************************************)
(* Proofs about Rtree, for any number of threads, addresses, leaves and    *)
(* cache sizes.                                                            *)
(***************************************************************************)
EXTENDS Rtree, SequenceTheorems, TLAPS

-----------------------------------------------------------------------------
(* The inductive invariant *)

Made == 1 .. Len(elm)

(* Each leaf that was made is the child of one root element.                *)
TreeOK ==
  /\ \A lk \in LeafKeys : root[lk] # NoLeaf => root[lk] \in Made
  /\ \A a, b \in LeafKeys : a # b /\ root[a] = root[b] => root[a] = NoLeaf
  /\ \A n \in Made : \E lk \in LeafKeys : root[lk] = n

(* A leaf lies in the slot of L1 its key maps to.                           *)
Placed == \A t \in Threads, s \in Slots :
            l1[t][s].key # NoKey => Slot[l1[t][s].key] = s

(* A leaf is cached in one place only.                                      *)
OncePlaced ==
  \A t \in Threads :
    /\ \A s \in Slots, i \in L2Range : l1[t][s].key # NoKey => l1[t][s].key # l2[t][i].key
    /\ \A i, j \in L2Range : i # j /\ l2[t][i].key # NoKey => l2[t][i].key # l2[t][j].key

(* A thread on its way to the tree has not got the leaf in its caches.      *)
Missed == \A t \in Threads : pc[t] \in {"child", "lock", "make"} =>
  /\ ~HitL1(t, Leafkey[my[t].key])
  /\ HitL2(t, Leafkey[my[t].key]) = {}

(* A thread that has its element has the one of the tree.                   *)
Acting == \A t \in Threads :
  /\ pc[t] \in {"act", "class"} =>
       /\ my[t].leaf = root[Leafkey[my[t].key]]
       /\ my[t].leaf # NoLeaf
  /\ pc[t] = "class" => my[t].op = "szind_slab_update"
  /\ pc[t] \in {"lock", "make"} => Inits(my[t].op)

(* Who stores to a page shares it with nobody but extent_lock_from_addr.    *)
Alone == \A t, u \in Threads :
  /\ t # u /\ pc[t] # "idle" /\ pc[u] # "idle"
  /\ my[t].key = my[u].key /\ my[t].op \in Stores
  => my[u].op = "probe"

(* What a call in progress relies on.                                       *)
ReliesOn(stage, call, w) ==
  /\ call.op = "rtree_write" => w.ext = Null
  /\ Dependent(call.op) => w.ext # Null
  /\ call.op = "szind_slab_update" => call.word.ext = w.ext
  /\ stage = "class" => call.word.slab = w.slab
Relied == \A t \in Threads, k \in Keys :
  pc[t] # "idle" /\ my[t].key = k => ReliesOn(pc[t], my[t], WordOf(k))

IndInv ==
  /\ TypeOK /\ TreeOK /\ CachesAgree /\ Placed /\ OncePlaced /\ Missed
  /\ Acting /\ Alone /\ Relied /\ ~failed

LEMMA WordTypes == Zero \in Words /\ Cleared \in Words /\ Given \subseteq Words
BY DEF Zero, Cleared, Words, Given, Classes

LEMMA NoCallTypes == NoCall \in Calls /\ NoCall.op = "read" /\ NoCall.leaf = 0
<1>1. (CHOOSE k \in Keys : TRUE) \in Keys
  BY RtreeAssumption
<1>2. QED BY <1>1, WordTypes DEF NoCall, Calls, Ops, NoLeaf

LEMMA ExceptHere ==
  ASSUME NEW S, NEW seq \in Seq(S), NEW i \in 1 .. Len(seq), NEW e \in S, NEW new,
         new = [seq EXCEPT ![i] = e]
  PROVE  /\ new \in Seq(S) /\ Len(new) = Len(seq) /\ new[i] = e
         /\ \A j \in 1 .. Len(seq) : j # i => new[j] = seq[j]
BY ExceptSeq

LEMMA Initially == Init => IndInv
<1> SUFFICES ASSUME Init PROVE IndInv
  OBVIOUS
<1> USE RtreeAssumption, WordTypes, NoCallTypes DEF Init
<1>1. elm = <<>> /\ Len(elm) = 0 /\ Made = {}
  BY DEF Made
<1>2. Empty \in Entries
  BY DEF Empty, Entries, NoLeaf
<1>3. TypeOK
  <2>1. root \in [LeafKeys -> Nat] /\ elm \in Seq([Keys -> Words])
    BY DEF NoLeaf
  <2>2. l1 \in [Threads -> [Slots -> Entries]] /\ l2 \in [Threads -> [L2Range -> Entries]]
    BY <1>2
  <2>3. my \in [Threads -> Calls] /\ said \in [Threads -> Words]
    OBVIOUS
  <2>4. QED BY <2>1, <2>2, <2>3 DEF TypeOK
<1>4. TreeOK
  BY <1>1 DEF TreeOK
<1>5. CachesAgree /\ Placed /\ OncePlaced
  BY DEF CachesAgree, Agrees, Placed, OncePlaced, Empty
<1>6. Missed /\ Acting /\ Alone /\ Relied
  BY DEF Missed, Acting, Alone, Relied
<1>7. QED BY <1>3, <1>4, <1>5, <1>6 DEF IndInv

-----------------------------------------------------------------------------
(* Facts used by several steps *)

(* What a store into an element does to the map.                            *)
LEMMA StoreElement ==
  ASSUME TypeOK, TreeOK, NEW k \in Keys, NEW w \in Words,
         root[Leafkey[k]] # NoLeaf,
         elm' = [elm EXCEPT ![root[Leafkey[k]]][k] = w],
         UNCHANGED root
  PROVE  /\ elm' \in Seq([Keys -> Words]) /\ Len(elm') = Len(elm)
         /\ WordOf(k) \in Words
         /\ WordOf(k)' = w
         /\ \A j \in Keys : j # k => WordOf(j)' = WordOf(j)
<1> DEFINE n == root[Leafkey[k]]
<1>1. \A j \in Keys : Leafkey[j] \in LeafKeys
  BY RtreeAssumption
<1>2. n \in 1 .. Len(elm) /\ elm[n] \in [Keys -> Words]
  BY <1>1 DEF TypeOK, TreeOK, Made
<1>3. /\ elm' \in Seq([Keys -> Words]) /\ Len(elm') = Len(elm)
      /\ elm'[n] = [elm[n] EXCEPT ![k] = w]
      /\ \A m \in 1 .. Len(elm) : m # n => elm'[m] = elm[m]
  <2> DEFINE e == [elm[n] EXCEPT ![k] = w]
  <2>1. elm' = [elm EXCEPT ![n] = e]
    OBVIOUS
  <2>2. e \in [Keys -> Words]
    BY <1>2
  <2> HIDE DEF e, n
  <2>3. n \in 1 .. Len(elm) /\ elm \in Seq([Keys -> Words])
    BY <1>2 DEF TypeOK
  <2>4. e = [elm[n] EXCEPT ![k] = w]
    BY DEF e
  <2>5. QED BY ONLY <2>1, <2>2, <2>3, <2>4, ExceptHere
<1>4. WordOf(k) \in Words /\ WordOf(k)' = w
  BY <1>2, <1>3 DEF WordOf
<1>5. ASSUME NEW j \in Keys, j # k PROVE WordOf(j)' = WordOf(j)
  <2>1. CASE root[Leafkey[j]] = NoLeaf
    BY <2>1 DEF WordOf
  <2>2. CASE root[Leafkey[j]] = n
    BY <2>2, <1>2, <1>3, <1>5 DEF WordOf
  <2>3. CASE root[Leafkey[j]] # n /\ root[Leafkey[j]] # NoLeaf
    BY <2>3, <1>1, <1>3 DEF WordOf, TreeOK, Made
  <2>4. QED BY <2>1, <2>2, <2>3
<1>6. QED BY <1>3, <1>4, <1>5

LEMMA WordType == TypeOK /\ TreeOK => \A k \in Keys : WordOf(k) \in Words
<1> SUFFICES ASSUME TypeOK, TreeOK, NEW k \in Keys PROVE WordOf(k) \in Words
  OBVIOUS
<1>1. Leafkey[k] \in LeafKeys
  BY RtreeAssumption
<1>2. CASE root[Leafkey[k]] = NoLeaf
  BY <1>2, WordTypes DEF WordOf
<1>3. CASE root[Leafkey[k]] # NoLeaf
  BY <1>1, <1>3 DEF WordOf, TypeOK, TreeOK, Made
<1>4. QED BY <1>2, <1>3

(* Steps that leave the tree and the caches alone.                          *)
LEMMA CachesKept ==
  ASSUME IndInv, UNCHANGED <<root, l1, l2>>, Len(elm') = Len(elm),
         \A t \in Threads : pc'[t] \in {"child", "lock", "make"} =>
           pc[t] \in {"child", "lock", "make"} /\ my'[t].key = my[t].key
  PROVE  TreeOK' /\ CachesAgree' /\ Placed' /\ OncePlaced' /\ Missed'
<1>1. TreeOK' /\ CachesAgree' /\ Placed' /\ OncePlaced'
  BY DEF IndInv, TreeOK, Made, CachesAgree, Agrees, Placed, OncePlaced
<1>2. Missed'
  BY DEF IndInv, Missed, HitL1, HitL2, Holds
<1>3. QED BY <1>1, <1>2

(* Calls that are over or go on as they were keep to the rules of sharing.  *)
LEMMA SharingKept ==
  ASSUME IndInv, NEW t \in Threads,
         \A u \in Threads : pc'[u] # "idle" =>
           /\ pc[u] # "idle"
           /\ my'[u].key = my[u].key /\ my'[u].op = my[u].op
  PROVE  Alone'
BY DEF IndInv, Alone

-----------------------------------------------------------------------------
(* The steps that act on the element *)

LEMMA LookStep ==
  ASSUME IndInv, NEW t \in Threads, Look(t)
  PROVE  IndInv' /\ said'[t] = WordOf(my[t].key)
<1> USE NoCallTypes DEF Look, Answer, treeVars, cacheVars
<1>0. TypeOK /\ TreeOK /\ my[t].key \in Keys /\ pc[t] = "act"
  BY DEF IndInv, TypeOK, Calls
<1>1. elm[my[t].leaf][my[t].key] = WordOf(my[t].key)
  BY <1>0 DEF IndInv, Acting, WordOf
<1>2. WordOf(my[t].key) \in Words
  BY <1>0, WordType
<1>3. TypeOK'
  BY <1>0, <1>1, <1>2 DEF TypeOK
<1>4. TreeOK' /\ CachesAgree' /\ Placed' /\ OncePlaced' /\ Missed'
  BY <1>0, CachesKept DEF TypeOK
<1>5. Acting' /\ Alone' /\ Relied'
  <2>1. \A u \in Threads : pc'[u] # "idle" => u # t /\ pc'[u] = pc[u] /\ my'[u] = my[u]
    BY <1>0 DEF TypeOK
  <2>2. \A k : WordOf(k)' = WordOf(k)
    BY DEF WordOf
  <2>3. QED BY <2>1, <2>2 DEF IndInv, Acting, Alone, Relied
<1>6. QED BY <1>0, <1>1, <1>3, <1>4, <1>5 DEF IndInv, TypeOK

(* A store by a thread that is alone with the page, after which it is done  *)
(* or in the middle of an update.                                           *)
LEMMA StoreStep ==
  ASSUME IndInv, NEW t \in Threads, NEW w \in Words, NEW k \in Keys,
         my[t].key = k, pc[t] \in {"act", "class"}, my[t].op \in Stores,
         Put(t, w), UNCHANGED <<root, initLock, l1, l2, said>>, failed' = FALSE,
         \/ Finish(t)
         \/ /\ my[t].op = "szind_slab_update" /\ w.ext = my[t].word.ext
            /\ w.slab = my[t].word.slab
            /\ pc' = [pc EXCEPT ![t] = "class"] /\ UNCHANGED my
  PROVE  /\ IndInv'
         /\ WordOf(k)' = w
         /\ \A j \in Keys : j # k => WordOf(j)' = WordOf(j)
<1> USE NoCallTypes DEF Finish
<1>0. TypeOK /\ TreeOK
  BY DEF IndInv
<1>1. root[Leafkey[k]] # NoLeaf /\ elm' = [elm EXCEPT ![root[Leafkey[k]]][k] = w]
  BY DEF IndInv, Acting, Put
<1>2. /\ elm' \in Seq([Keys -> Words]) /\ Len(elm') = Len(elm)
      /\ WordOf(k)' = w
      /\ \A j \in Keys : j # k => WordOf(j)' = WordOf(j)
  <2>1. UNCHANGED root
    OBVIOUS
  <2> HIDE DEF Finish
  <2>2. QED BY ONLY <1>0, <1>1, <2>1, StoreElement, k \in Keys, w \in Words
<1>3. TypeOK'
  <2>1. pc' \in [Threads -> {"idle", "child", "lock", "make", "act", "class"}]
    BY <1>0 DEF TypeOK
  <2>2. my' \in [Threads -> Calls]
    BY <1>0 DEF TypeOK
  <2>3. initLock' # Unlocked => pc'[initLock'] = "make"
    BY <1>0 DEF TypeOK
  <2>4. QED BY <1>0, <1>2, <2>1, <2>2, <2>3 DEF TypeOK
<1>4. \A u \in Threads : u # t => pc'[u] = pc[u] /\ my'[u] = my[u]
  BY <1>0 DEF TypeOK
<1>5. pc'[t] # "idle" => /\ pc'[t] = "class" /\ my' = my
                         /\ my[t].op = "szind_slab_update"
                         /\ w.ext = my[t].word.ext /\ w.slab = my[t].word.slab
  BY <1>0 DEF TypeOK
<1>6. TreeOK' /\ CachesAgree' /\ Placed' /\ OncePlaced' /\ Missed'
  BY <1>2, <1>4, <1>5, CachesKept
<1>7. Acting'
  BY <1>4, <1>5 DEF IndInv, Acting
<1>8. Alone'
  BY <1>4, <1>5, SharingKept
<1>9. Relied'
  <2>1. SUFFICES ASSUME NEW u \in Threads, NEW j \in Keys, pc'[u] # "idle", my'[u].key = j
                 PROVE  ReliesOn(pc'[u], my'[u], WordOf(j)')
    BY DEF Relied
  <2>2. CASE u = t
    BY <1>2, <1>5, <2>1, <2>2 DEF IndInv, Relied, ReliesOn, Dependent
  <2>3. CASE u # t /\ j # k
    BY <1>2, <1>4, <2>1, <2>3 DEF IndInv, Relied
  <2>4. CASE u # t /\ j = k
    <3>1. pc'[u] = pc[u] /\ my'[u] = my[u]
      BY <1>4, <2>4
    <3>2. my[u].op = "probe"
      BY <2>1, <2>4, <3>1 DEF IndInv, Alone
    <3>3. pc[u] # "class"
      BY <3>2 DEF IndInv, Acting
    <3>4. QED BY <3>1, <3>2, <3>3 DEF ReliesOn, Dependent
  <2>5. QED BY <2>2, <2>3, <2>4
<1>10. QED BY <1>2, <1>3, <1>6, <1>7, <1>8, <1>9 DEF IndInv

LEMMA WriteStep ==
  ASSUME IndInv, NEW t \in Threads, Write(t)
  PROVE  /\ IndInv'
         /\ \A j \in Keys : WordOf(j)' = IF j = my[t].key THEN my[t].word ELSE WordOf(j)
<1>1. my[t] \in Calls /\ my[t].key \in Keys /\ my[t].word \in Words
  BY DEF IndInv, TypeOK, Calls
<1>k. PICK k \in Keys : my[t].key = k
  BY <1>1
<1>2. elm[my[t].leaf][k] = WordOf(k)
  BY <1>1, <1>k DEF IndInv, Acting, WordOf, Write
<1>3. ReliesOn(pc[t], my[t], WordOf(k))
  BY <1>1, <1>k DEF IndInv, Relied, Write
<1>4. failed' = FALSE
  BY <1>k, <1>2, <1>3 DEF Write, ReliesOn, Dependent
<1>5. /\ my[t].key = k /\ pc[t] \in {"act", "class"} /\ my[t].op \in Stores
      /\ Put(t, my[t].word) /\ UNCHANGED <<root, initLock, l1, l2, said>> /\ Finish(t)
  BY <1>k DEF Write, cacheVars
<1>6. IndInv' /\ WordOf(k)' = my[t].word /\ \A j \in Keys : j # k => WordOf(j)' = WordOf(j)
  BY <1>1, <1>4, <1>5, StoreStep
<1>7. QED BY <1>k, <1>6

LEMMA UpdateSlabStep ==
  ASSUME IndInv, NEW t \in Threads, UpdateSlab(t)
  PROVE  /\ IndInv'
         /\ \A j \in Keys : WordOf(j)' =
              IF j = my[t].key THEN TakeSlab(WordOf(j), my[t].word) ELSE WordOf(j)
<1>1. my[t] \in Calls /\ my[t].key \in Keys /\ my[t].word \in Words
  BY DEF IndInv, TypeOK, Calls
<1>k. PICK k \in Keys : my[t].key = k
  BY <1>1
<1>w. PICK w : w = TakeSlab(WordOf(k), my[t].word)
  OBVIOUS
<1>2. elm[my[t].leaf][k] = WordOf(k)
  BY <1>1, <1>k DEF IndInv, Acting, WordOf, UpdateSlab
<1>3. ReliesOn(pc[t], my[t], WordOf(k)) /\ WordOf(k) \in Words
  BY <1>1, <1>k, WordType DEF IndInv, Relied, UpdateSlab
<1>4. w \in Words /\ w.slab = my[t].word.slab /\ w.ext = my[t].word.ext
  BY <1>1, <1>3, <1>w DEF TakeSlab, Words, UpdateSlab, ReliesOn
<1>5. /\ my[t].key = k /\ pc[t] \in {"act", "class"} /\ my[t].op \in Stores
      /\ Put(t, w) /\ UNCHANGED <<root, initLock, l1, l2, said>> /\ failed' = FALSE
      /\ my[t].op = "szind_slab_update" /\ pc' = [pc EXCEPT ![t] = "class"] /\ UNCHANGED my
  BY <1>2, <1>k, <1>w DEF UpdateSlab, cacheVars, Stores, Ops
<1>6. IndInv' /\ WordOf(k)' = w /\ \A j \in Keys : j # k => WordOf(j)' = WordOf(j)
  BY <1>1, <1>4, <1>5, StoreStep
<1>7. QED BY <1>k, <1>w, <1>6

(* The second half of the update leaves the word the caller gave.           *)
LEMMA UpdateClassStep ==
  ASSUME IndInv, NEW t \in Threads, UpdateClass(t)
  PROVE  /\ IndInv' /\ my[t].op \in Stores
         /\ \A j \in Keys : WordOf(j)' = IF j = my[t].key THEN my[t].word ELSE WordOf(j)
<1>1. my[t] \in Calls /\ my[t].key \in Keys /\ my[t].word \in Words
  BY DEF IndInv, TypeOK, Calls
<1>k. PICK k \in Keys : my[t].key = k
  BY <1>1
<1>w. PICK w : w = TakeClass(WordOf(k), my[t].word)
  OBVIOUS
<1>2. elm[my[t].leaf][k] = WordOf(k)
  BY <1>1, <1>k DEF IndInv, Acting, WordOf, UpdateClass
<1>3. ReliesOn(pc[t], my[t], WordOf(k)) /\ WordOf(k) \in Words /\ my[t].op = "szind_slab_update"
  BY <1>1, <1>k, WordType DEF IndInv, Relied, Acting, UpdateClass
<1>4. w = my[t].word
  BY <1>1, <1>3, <1>w DEF TakeClass, Words, UpdateClass, ReliesOn
<1>5. /\ my[t].key = k /\ pc[t] \in {"act", "class"} /\ my[t].op \in Stores
      /\ Put(t, my[t].word) /\ UNCHANGED <<root, initLock, l1, l2, said>> /\ failed' = FALSE
      /\ Finish(t)
  BY <1>2, <1>3, <1>4, <1>k, <1>w DEF UpdateClass, cacheVars, Stores, Ops
<1>6. IndInv' /\ WordOf(k)' = my[t].word /\ \A j \in Keys : j # k => WordOf(j)' = WordOf(j)
  BY <1>1, <1>5, StoreStep
<1>7. QED BY <1>k, <1>5, <1>6

-----------------------------------------------------------------------------
(* The steps that change the caches *)

(* What may become of L2 when lk goes to L1: the entry old that leaves L1   *)
(* and the entries L2 had, but for lk, each at one place.                   *)
NextL2(t, lk, q) ==
  /\ q \in [L2Range -> Entries]
  /\ \A i \in L2Range :
       \/ q[i] = l1[t][Slot[lk]]
       \/ \E m \in L2Range : q[i] = l2[t][m] /\ l2[t][m].key # lk
  /\ \A i, j \in L2Range : i # j /\ q[i].key # NoKey => q[i].key # q[j].key

LEMMA CacheStep ==
  ASSUME TypeOK, CachesAgree, Placed, OncePlaced,
         NEW t \in Threads, NEW lk \in LeafKeys, NEW leaf \in Nat \ {NoLeaf}, NEW q,
         ~HitL1(t, lk), NextL2(t, lk, q), Cache(t, lk, leaf, q),
         root'[lk] = leaf, \A k \in LeafKeys : root[k] # NoLeaf => root'[k] = root[k]
  PROVE  /\ l1' \in [Threads -> [Slots -> Entries]] /\ l2' \in [Threads -> [L2Range -> Entries]]
         /\ CachesAgree' /\ Placed' /\ OncePlaced'
         /\ \A u \in Threads : u # t => l1'[u] = l1[u] /\ l2'[u] = l2[u]
<1> DEFINE old == l1[t][Slot[lk]]
           new == [key |-> lk, leaf |-> leaf]
<1>1. Slot[lk] \in Slots /\ lk # NoKey
  BY RtreeAssumption DEF NoKey
<1>2. old \in Entries /\ new \in Entries /\ old.key # lk
  BY <1>1 DEF TypeOK, Entries, NoLeaf, HitL1, Holds
<1>3. /\ l1' = [l1 EXCEPT ![t][Slot[lk]] = new] /\ l2' = [l2 EXCEPT ![t] = q]
  BY DEF Cache
<1> HIDE DEF new
<1>4. /\ l1'[t][Slot[lk]] = new
      /\ \A s \in Slots : s # Slot[lk] => l1'[t][s] = l1[t][s]
      /\ l2'[t] = q
      /\ \A u \in Threads : u # t => l1'[u] = l1[u] /\ l2'[u] = l2[u]
  BY <1>1, <1>3 DEF TypeOK
<1>5. new.key = lk /\ new.leaf = leaf
  BY DEF new
<1>6. l1' \in [Threads -> [Slots -> Entries]] /\ l2' \in [Threads -> [L2Range -> Entries]]
  BY <1>1, <1>2, <1>3 DEF TypeOK, NextL2
<1>7. CachesAgree'
  <2>1. \A e \in Entries : Agrees(e) => Agrees(e)'
    BY DEF Agrees, Entries
  <2>2. Agrees(new)'
    BY <1>5 DEF Agrees
  <2>3. ASSUME NEW u \in Threads, NEW s \in Slots
        PROVE  \/ l1'[u][s] = new
               \/ l1'[u][s] \in Entries /\ Agrees(l1[u][s]) /\ l1'[u][s] = l1[u][s]
    <3>1. l1'[u][s] = new \/ l1'[u][s] = l1[u][s]
      BY <1>4
    <3>2. l1'[u][s] \in Entries
      BY <1>6
    <3>3. Agrees(l1[u][s])
      BY DEF CachesAgree
    <3>4. QED BY <3>1, <3>2, <3>3
  <2>4. \A u \in Threads, i \in L2Range : \E e \in Entries : l2'[u][i] = e /\ Agrees(e)
    BY <1>1, <1>2, <1>4, <1>6 DEF CachesAgree, TypeOK, NextL2
  <2>5. QED BY <2>1, <2>2, <2>3, <2>4 DEF CachesAgree
<1>8. Placed'
  BY <1>1, <1>4, <1>5 DEF Placed
<1>9. OncePlaced'
  <2>1. ASSUME NEW i \in L2Range PROVE q[i].key # lk
    BY <1>2 DEF NextL2
  <2>2. ASSUME NEW i \in L2Range, NEW s \in Slots, s # Slot[lk], l1[t][s].key # NoKey
        PROVE  l1[t][s].key # q[i].key
    <3>1. Slot[l1[t][s].key] = s
      BY <2>2 DEF Placed
    <3>2. CASE q[i] = old
      BY <1>1, <2>2, <3>1, <3>2 DEF Placed
    <3>3. CASE \E m \in L2Range : q[i] = l2[t][m]
      BY <2>2, <3>3 DEF OncePlaced
    <3>4. QED BY <3>2, <3>3 DEF NextL2
  <2>3. QED BY <1>1, <1>4, <1>5, <2>1, <2>2 DEF OncePlaced, NextL2
<1>10. QED BY <1>4, <1>6, <1>7, <1>8, <1>9

LEMMA PushNext ==
  ASSUME TypeOK, Placed, OncePlaced, NEW t \in Threads, NEW lk \in LeafKeys,
         ~HitL1(t, lk), HitL2(t, lk) = {}
  PROVE  NextL2(t, lk, Push(l2[t], l1[t][Slot[lk]]))
<1> DEFINE old == l1[t][Slot[lk]]
           q == Push(l2[t], old)
<1>1. Slot[lk] \in Slots /\ NL2 \in Nat \ {0}
  BY RtreeAssumption
<1>2. old \in Entries /\ old.key # NoKey => \A m \in L2Range : old.key # l2[t][m].key
  BY <1>1 DEF TypeOK, OncePlaced
<1>3. \A m \in L2Range : l2[t][m] \in Entries /\ l2[t][m].key # lk
  BY DEF TypeOK, HitL2, Holds
<1>4. \A i \in L2Range : q[i] = IF i = 0 THEN old ELSE l2[t][i - 1]
  BY DEF Push
<1>5. \A i \in L2Range : i # 0 => i - 1 \in L2Range
  BY <1>1 DEF L2Range
<1>6. old \in Entries
  BY <1>1 DEF TypeOK
<1>7. q \in [L2Range -> Entries]
  BY <1>3, <1>5, <1>6 DEF Push
<1> HIDE DEF q, old
<1>8. ASSUME NEW i \in L2Range, NEW j \in L2Range, i # j, q[i].key # NoKey PROVE q[i].key # q[j].key
  <2>1. CASE i = 0
    BY <1>2, <1>4, <1>5, <1>6, <1>8, <2>1
  <2>2. CASE j = 0
    BY <1>2, <1>4, <1>5, <1>6, <1>8, <2>2
  <2>3. CASE i # 0 /\ j # 0
    <3>1. i - 1 # j - 1
      BY <1>1, <1>8 DEF L2Range
    <3>2. QED BY <1>4, <1>5, <1>8, <2>3, <3>1 DEF OncePlaced
  <2>4. QED BY <2>1, <2>2, <2>3
<1>9. \A i \in L2Range : q[i] = old \/ \E m \in L2Range : q[i] = l2[t][m] /\ l2[t][m].key # lk
  BY <1>3, <1>4, <1>5
<1>10. QED BY <1>7, <1>8, <1>9 DEF NextL2, q, old

LEMMA BubbleNext ==
  ASSUME TypeOK, Placed, OncePlaced, NEW t \in Threads, NEW lk \in LeafKeys,
         ~HitL1(t, lk), NEW i \in HitL2(t, lk)
  PROVE  NextL2(t, lk, Bubble(l2[t], i, l1[t][Slot[lk]]))
<1> DEFINE old == l1[t][Slot[lk]]
           q == Bubble(l2[t], i, old)
<1>1. Slot[lk] \in Slots /\ NL2 \in Nat \ {0} /\ lk # NoKey
  BY RtreeAssumption DEF NoKey
<1>2. old.key # NoKey => \A m \in L2Range : old.key # l2[t][m].key
  BY <1>1 DEF OncePlaced
<1>3. i \in L2Range /\ l2[t][i].key = lk
  BY DEF HitL2, Holds
<1>4. old \in Entries /\ \A m \in L2Range : l2[t][m] \in Entries
  BY <1>1 DEF TypeOK
<1>5. \A m \in L2Range : m # i => l2[t][m].key # lk
  BY <1>1, <1>3 DEF OncePlaced
<1>6. i # 0 => i - 1 \in L2Range /\ i - 1 # i
  BY <1>1, <1>3 DEF L2Range
<1>7. l2[t] \in [L2Range -> Entries]
  BY DEF TypeOK
<1>8. \A m \in L2Range : q[m] =
        IF i = 0 THEN IF m = 0 THEN old ELSE l2[t][m]
        ELSE IF m = i - 1 THEN old ELSE IF m = i THEN l2[t][i - 1] ELSE l2[t][m]
  BY <1>3, <1>6, <1>7 DEF Bubble
<1>9. q \in [L2Range -> Entries]
  BY <1>4, <1>6, <1>7 DEF Bubble
<1> HIDE DEF q, old
<1>10. \A m \in L2Range : q[m] = old \/ \E n \in L2Range : q[m] = l2[t][n] /\ l2[t][n].key # lk
  BY <1>3, <1>5, <1>6, <1>8
<1>11. ASSUME NEW a \in L2Range, NEW b \in L2Range, a # b, q[a].key # NoKey PROVE q[a].key # q[b].key
  <2>1. CASE i = 0
    BY <1>2, <1>8, <1>11, <2>1 DEF OncePlaced
  <2>2. CASE i # 0
    BY <1>2, <1>3, <1>6, <1>8, <1>11, <2>2 DEF OncePlaced
  <2>3. QED BY <2>1, <2>2
<1>12. QED BY <1>9, <1>10, <1>11 DEF NextL2, q, old

-----------------------------------------------------------------------------
(* Calls *)

(* A call that may begin relies on what it finds and shares its page        *)
(* rightly.                                                                 *)
LEMMA MayBegin ==
  ASSUME IndInv, NEW t \in Threads, NEW op \in Ops, NEW k \in Keys, NEW w \in Carries(op, k),
         May(op, k), pc[t] = "idle"
  PROVE  /\ w \in Words
         /\ \A c \in Calls, stage \in {"child", "act"} :
              c.op = op /\ c.key = k /\ c.word = w => ReliesOn(stage, c, WordOf(k))
         /\ \A u \in Threads : pc[u] # "idle" /\ my[u].key = k =>
              /\ op \in Stores => my[u].op = "probe"
              /\ my[u].op \in Stores => op = "probe"
<1>1. \A u \in Threads : my[u].op \in Ops
  BY DEF IndInv, TypeOK, Calls
<1>2. w \in Words
  BY WordTypes DEF Carries
<1>3. ASSUME NEW c \in Calls, NEW stage \in {"child", "act"}, c.op = op, c.key = k, c.word = w
      PROVE  ReliesOn(stage, c, WordOf(k))
  BY <1>3 DEF ReliesOn, Dependent, May, Carries, Stores, Ops
<1>4. ASSUME NEW u \in Threads, pc[u] # "idle", my[u].key = k
      PROVE  (op \in Stores => my[u].op = "probe") /\ (my[u].op \in Stores => op = "probe")
  BY <1>1, <1>4 DEF May, Storing, Relying, At, Stores, Ops
<1>5. QED BY <1>2, <1>3, <1>4

LEMMA CallStep ==
  ASSUME IndInv, NEW t \in Threads, NEW op \in Ops, NEW k \in Keys, NEW w \in Carries(op, k),
         Call(t, op, k, w)
  PROVE  /\ IndInv'
         /\ my'[t].op = op /\ my'[t].key = k /\ my'[t].word = w /\ my'[t] \in Calls
         /\ my' = [my EXCEPT ![t] = my'[t]] /\ pc' = [pc EXCEPT ![t] = pc'[t]]
         /\ pc'[t] # "idle"
<1> DEFINE lk == Leafkey[k]
           i  == CHOOSE j \in HitL2(t, lk) : \A h \in HitL2(t, lk) : j <= h
           leaf == CASE HitL1(t, lk) -> l1[t][Slot[lk]].leaf
                     [] (HitL1(t, lk) \/ HitL2(t, lk) # {}) /\ ~HitL1(t, lk) -> l2[t][i].leaf
                     [] OTHER -> NoLeaf
<1>0. /\ TypeOK /\ TreeOK /\ CachesAgree /\ Placed /\ OncePlaced
      /\ lk \in LeafKeys /\ Slot[lk] \in Slots /\ lk # NoKey
  <2>1. TypeOK /\ TreeOK /\ CachesAgree /\ Placed /\ OncePlaced
    BY DEF IndInv
  <2>2. lk \in LeafKeys
    BY RtreeAssumption
  <2> HIDE DEF lk
  <2>3. Slot[lk] \in Slots /\ lk # NoKey
    BY <2>2, RtreeAssumption DEF NoKey
  <2>4. QED BY <2>1, <2>2, <2>3
<1>1. pc[t] = "idle" /\ May(op, k)
  BY DEF Call
<1>2. w \in Words
  BY <1>1, MayBegin
<1>5. \A j \in HitL2(t, lk) : j \in L2Range /\ l2[t][j].key = lk
  BY DEF HitL2, Holds
<1>6. HitL2(t, lk) # {} => i \in HitL2(t, lk)
  <2>1. ASSUME NEW j \in HitL2(t, lk), NEW h \in HitL2(t, lk) PROVE j = h
    BY <1>0, <1>5 DEF OncePlaced
  <2>2. ASSUME HitL2(t, lk) # {} PROVE \E j \in HitL2(t, lk) : \A h \in HitL2(t, lk) : j <= h
    BY <1>5, <2>1, <2>2, RtreeAssumption DEF L2Range
  <2>3. QED BY <2>2
<1>7. ASSUME HitL1(t, lk) \/ HitL2(t, lk) # {}
      PROVE  leaf = root[lk] /\ leaf # NoLeaf /\ leaf \in Nat
  <2>1. root[lk] \in Nat
    BY <1>0 DEF TypeOK
  <2>2. CASE HitL1(t, lk)
    BY <1>0, <2>1, <2>2 DEF CachesAgree, Agrees, HitL1, Holds
  <2>3. CASE ~HitL1(t, lk)
    <3>1. i \in L2Range /\ l2[t][i].key = lk
      BY <1>5, <1>6, <1>7, <2>3
    <3>2. l2[t][i].leaf # NoLeaf /\ root[lk] = l2[t][i].leaf
      BY <1>0, <3>1 DEF CachesAgree, Agrees
    <3>3. QED BY <1>7, <2>1, <2>3, <3>2
  <2>4. QED BY <2>2, <2>3
<1> HIDE DEF i, leaf, lk
<1>8. /\ failed' = FALSE /\ said' = [said EXCEPT ![t] = Zero]
      /\ UNCHANGED <<root, elm, initLock>>
      /\ my' = [my EXCEPT ![t] = my'[t]] /\ pc' = [pc EXCEPT ![t] = pc'[t]]
      /\ \/ /\ pc'[t] = "act"
            /\ my'[t] = [op |-> op, key |-> k, leaf |-> root[lk], word |-> w]
            /\ root[lk] # NoLeaf
         \/ /\ pc'[t] = "child" /\ my'[t] = [op |-> op, key |-> k, leaf |-> 0, word |-> w]
            /\ ~HitL1(t, lk) /\ HitL2(t, lk) = {}
            /\ UNCHANGED cacheVars
  <2>1. CASE HitL1(t, lk) \/ HitL2(t, lk) # {}
    <3>1. my' = [my EXCEPT ![t] = [op |-> op, key |-> k, leaf |-> leaf, word |-> w]]
          /\ pc' = [pc EXCEPT ![t] = "act"]
          /\ failed' = (leaf = NoLeaf) /\ said' = [said EXCEPT ![t] = Zero] /\ UNCHANGED treeVars
      BY <2>1 DEF Call, i, leaf, lk
    <3>2. my'[t] = [op |-> op, key |-> k, leaf |-> leaf, word |-> w] /\ pc'[t] = "act"
      BY <1>0, <3>1 DEF TypeOK
    <3>3. QED BY <1>7, <2>1, <3>1, <3>2 DEF treeVars
  <2>2. CASE ~HitL1(t, lk) /\ HitL2(t, lk) = {}
    <3>1. my' = [my EXCEPT ![t] = [op |-> op, key |-> k, leaf |-> 0, word |-> w]]
          /\ pc' = [pc EXCEPT ![t] = "child"]
          /\ failed' = FALSE /\ said' = [said EXCEPT ![t] = Zero] /\ UNCHANGED treeVars
          /\ UNCHANGED cacheVars
      BY <2>2 DEF Call, i, leaf, lk, NoLeaf
    <3>2. my'[t] = [op |-> op, key |-> k, leaf |-> 0, word |-> w] /\ pc'[t] = "child"
      BY <1>0, <3>1 DEF TypeOK
    <3>3. QED BY <2>2, <3>1, <3>2 DEF treeVars
  <2>3. QED BY <2>1, <2>2
<1>9. /\ l1' \in [Threads -> [Slots -> Entries]] /\ l2' \in [Threads -> [L2Range -> Entries]]
      /\ CachesAgree' /\ Placed' /\ OncePlaced'
      /\ \A u \in Threads : u # t => l1'[u] = l1[u] /\ l2'[u] = l2[u]
  <2>1. CASE ~HitL1(t, lk) /\ HitL2(t, lk) # {}
    <3>1. Cache(t, lk, leaf, Bubble(l2[t], i, l1[t][Slot[lk]]))
      BY <2>1 DEF Call, i, leaf, lk
    <3>2. NextL2(t, lk, Bubble(l2[t], i, l1[t][Slot[lk]]))
      BY <1>0, <1>6, <2>1, BubbleNext
    <3>3. root'[lk] = leaf /\ (\A j \in LeafKeys : root[j] # NoLeaf => root'[j] = root[j]) /\ leaf \in Nat \ {NoLeaf}
      BY <1>7, <1>8, <2>1
    <3>4. QED BY ONLY <1>0, <2>1, <3>1, <3>2, <3>3, CacheStep, t \in Threads
  <2>2. CASE ~(~HitL1(t, lk) /\ HitL2(t, lk) # {})
    <3>1. UNCHANGED cacheVars
      BY <2>2 DEF Call, lk
    <3>2. QED BY <1>0, <1>8, <3>1 DEF cacheVars, TypeOK, CachesAgree, Agrees, Placed, OncePlaced
  <2>3. QED BY <2>1, <2>2
<1>10. my'[t] \in Calls /\ my'[t].op = op /\ my'[t].key = k /\ my'[t].word = w
  BY <1>0, <1>2, <1>8 DEF TypeOK, Calls
<1>11. \A u \in Threads : u # t => my'[u] = my[u] /\ pc'[u] = pc[u]
  BY <1>0, <1>8 DEF TypeOK
<1>12. pc'[t] \in {"act", "child"}
  BY <1>8
<1>13. TypeOK'
  <2>1. my' \in [Threads -> Calls] /\ said' \in [Threads -> Words]
    BY <1>0, <1>8, <1>10, WordTypes DEF TypeOK
  <2>2. pc' \in [Threads -> {"idle", "child", "lock", "make", "act", "class"}]
    BY <1>0, <1>8, <1>12 DEF TypeOK
  <2>3. initLock' # Unlocked => pc'[initLock'] = "make"
    BY <1>0, <1>1, <1>8, <1>11 DEF TypeOK
  <2>4. QED BY <1>0, <1>8, <1>9, <2>1, <2>2, <2>3 DEF TypeOK
<1>14. TreeOK'
  BY <1>0, <1>8 DEF TreeOK, Made
<1>15. Missed'
  BY <1>8, <1>9, <1>10, <1>11 DEF IndInv, Missed, HitL1, HitL2, Holds, cacheVars, lk
<1>16. Acting'
  BY <1>8, <1>10, <1>11, <1>12 DEF IndInv, Acting, lk
<1>17. Alone'
  <2>1. \A u \in Threads : pc[u] # "idle" /\ my[u].key = k =>
              /\ op \in Stores => my[u].op = "probe"
              /\ my[u].op \in Stores => op = "probe"
    BY <1>1, MayBegin
  <2>2. QED BY <2>1, <1>10, <1>11 DEF IndInv, Alone
<1>18. Relied'
  <2>1. \A j : WordOf(j)' = WordOf(j)
    BY <1>8 DEF WordOf
  <2>2. ReliesOn(pc'[t], my'[t], WordOf(k))
    BY <1>1, <1>10, <1>12, MayBegin
  <2>3. QED BY <1>10, <1>11, <2>1, <2>2 DEF IndInv, Relied
<1>19. QED
  BY <1>8, <1>9, <1>10, <1>12, <1>13, <1>14, <1>15, <1>16, <1>17, <1>18 DEF IndInv

-----------------------------------------------------------------------------
(* The way through the tree *)

(* A thread that got its leaf, and cached it, may act on it.  The tree has  *)
(* grown by this leaf, or not at all.                                       *)
LEMMA LeafStep ==
  ASSUME IndInv, NEW t \in Threads, NEW lk \in LeafKeys, NEW leaf \in Nat \ {NoLeaf},
         lk = Leafkey[my[t].key], pc[t] \in {"child", "make"},
         Cache(t, lk, leaf, Push(l2[t], l1[t][Slot[lk]])),
         my' = [my EXCEPT ![t].leaf = leaf], pc' = [pc EXCEPT ![t] = "act"],
         initLock' = (IF pc[t] = "make" THEN Unlocked ELSE initLock), failed' = FALSE,
         UNCHANGED said,
         \/ root[lk] = leaf /\ UNCHANGED <<root, elm>>
         \/ /\ root[lk] = NoLeaf /\ leaf = Len(elm) + 1
            /\ root' = [root EXCEPT ![lk] = leaf]
            /\ elm' = Append(elm, [k \in Keys |-> Zero])
  PROVE  /\ IndInv'
         /\ \A k \in Keys : WordOf(k)' = WordOf(k)
<1>0. TypeOK /\ TreeOK /\ CachesAgree /\ Placed /\ OncePlaced
  BY DEF IndInv
<1>1. ~HitL1(t, lk) /\ HitL2(t, lk) = {}
  BY DEF IndInv, Missed
<1>2. root'[lk] = leaf /\ \A k \in LeafKeys : k # lk => root'[k] = root[k]
  BY <1>0 DEF TypeOK
<1>3. \A k \in LeafKeys : root[k] # NoLeaf => root'[k] = root[k]
  BY <1>2
<1>4. NextL2(t, lk, Push(l2[t], l1[t][Slot[lk]]))
  BY <1>0, <1>1, PushNext
<1>5. /\ l1' \in [Threads -> [Slots -> Entries]] /\ l2' \in [Threads -> [L2Range -> Entries]]
      /\ CachesAgree' /\ Placed' /\ OncePlaced'
      /\ \A u \in Threads : u # t => l1'[u] = l1[u] /\ l2'[u] = l2[u]
  BY <1>0, <1>1, <1>2, <1>3, <1>4, CacheStep
<1>6. \A u \in Threads : u # t => my'[u] = my[u] /\ pc'[u] = pc[u]
  BY <1>0 DEF TypeOK
<1>7. /\ my[t] \in Calls /\ my'[t] = [my[t] EXCEPT !.leaf = leaf] /\ pc'[t] = "act"
  BY <1>0 DEF TypeOK
<1>8. /\ my'[t] \in Calls /\ my'[t].leaf = leaf /\ my'[t].op = my[t].op
      /\ my'[t].key = my[t].key /\ my'[t].word = my[t].word
  BY <1>7 DEF Calls
<1>9. /\ root' \in [LeafKeys -> Nat] /\ elm' \in Seq([Keys -> Words])
      /\ Len(elm) \in Nat /\ Len(elm') \in {Len(elm), Len(elm) + 1}
      /\ leaf \in 1 .. Len(elm')
      /\ \A n \in 1 .. Len(elm) : elm'[n] = elm[n]
      /\ root[lk] = NoLeaf => leaf = Len(elm) + 1 /\ Len(elm') = leaf
                              /\ elm'[leaf] = [k \in Keys |-> Zero]
      /\ root[lk] # NoLeaf => UNCHANGED <<root, elm>>
  <2>1. elm \in Seq([Keys -> Words]) /\ Len(elm) \in Nat /\ [k \in Keys |-> Zero] \in [Keys -> Words]
    BY <1>0, WordTypes DEF TypeOK
  <2>2. CASE root[lk] = leaf /\ UNCHANGED <<root, elm>>
    BY <1>0, <2>1, <2>2 DEF TypeOK, TreeOK, Made
  <2>3. CASE /\ root[lk] = NoLeaf /\ leaf = Len(elm) + 1
             /\ root' = [root EXCEPT ![lk] = leaf]
             /\ elm' = Append(elm, [k \in Keys |-> Zero])
    <3>1. /\ elm' \in Seq([Keys -> Words]) /\ Len(elm') = Len(elm) + 1
          /\ \A n \in 1 .. Len(elm) : elm'[n] = elm[n]
          /\ elm'[Len(elm) + 1] = [k \in Keys |-> Zero]
      BY <2>1, <2>3, AppendProperties
    <3>2. root' \in [LeafKeys -> Nat]
      BY <1>0, <2>1, <2>3 DEF TypeOK
    <3>3. QED BY <2>1, <2>3, <3>1, <3>2
  <2>4. QED BY <2>2, <2>3
<1>10. TreeOK'
  <2>1. \A k \in LeafKeys : root'[k] # NoLeaf => root'[k] \in 1 .. Len(elm')
    BY <1>0, <1>2, <1>9 DEF TreeOK, Made
  <2>2. \A a, b \in LeafKeys : a # b /\ root'[a] = root'[b] => root'[a] = NoLeaf
    <3>1. CASE root[lk] # NoLeaf
      BY <1>0, <1>9, <3>1 DEF TreeOK
    <3>2. CASE root[lk] = NoLeaf
      <4>1. \A k \in LeafKeys : k # lk => root'[k] # leaf
        BY <1>0, <1>2, <1>9, <3>2 DEF TreeOK, Made, NoLeaf
      <4>2. QED BY <1>0, <1>2, <4>1 DEF TreeOK
    <3>3. QED BY <3>1, <3>2
  <2>3. \A n \in 1 .. Len(elm') : \E k \in LeafKeys : root'[k] = n
    <3>1. CASE root[lk] # NoLeaf
      BY <1>0, <1>9, <3>1 DEF TreeOK, Made
    <3>2. CASE root[lk] = NoLeaf
      <4>1. ASSUME NEW n \in 1 .. Len(elm) PROVE \E k \in LeafKeys : root'[k] = n
        <5>1. PICK k \in LeafKeys : root[k] = n
          BY <1>0 DEF TreeOK, Made
        <5>2. root[k] # NoLeaf
          BY <1>9, <5>1 DEF NoLeaf
        <5>3. QED BY <1>3, <5>1, <5>2
      <4>2. QED BY <1>2, <1>9, <3>2, <4>1
    <3>3. QED BY <3>1, <3>2
  <2>4. QED BY <2>1, <2>2, <2>3 DEF TreeOK, Made
<1>11. \A k \in Keys : WordOf(k)' = WordOf(k)
  <2>1. SUFFICES ASSUME NEW k \in Keys PROVE WordOf(k)' = WordOf(k)
    OBVIOUS
  <2>2. Leafkey[k] \in LeafKeys
    BY RtreeAssumption
  <2>3. CASE root[lk] = NoLeaf /\ Leafkey[k] = lk
    BY SMTT(30), <1>2, <1>9, <2>3 DEF WordOf
  <2>4. CASE root[lk] # NoLeaf
    BY <1>9, <2>4 DEF WordOf
  <2>5. CASE root[lk] = NoLeaf /\ Leafkey[k] # lk
    BY <1>0, <1>2, <1>9, <2>2, <2>5 DEF WordOf, TreeOK, Made
  <2>6. QED BY <2>3, <2>4, <2>5
<1>12. TypeOK'
  <2>1. my' \in [Threads -> Calls]
    BY <1>0, <1>6, <1>8 DEF TypeOK
  <2>2. pc' \in [Threads -> {"idle", "child", "lock", "make", "act", "class"}]
    BY <1>0 DEF TypeOK
  <2>3. initLock' # Unlocked => pc'[initLock'] = "make"
    BY <1>0, <1>6 DEF TypeOK
  <2>4. initLock' \in Threads \union {Unlocked}
    BY <1>0 DEF TypeOK
  <2>5. QED BY <1>0, <1>5, <1>9, <2>1, <2>2, <2>3, <2>4 DEF TypeOK
<1>13. Missed'
  <2>1. SUFFICES ASSUME NEW u \in Threads, pc'[u] \in {"child", "lock", "make"}
                 PROVE  ~HitL1(u, Leafkey[my[u].key])' /\ HitL2(u, Leafkey[my[u].key])' = {}
    BY DEF Missed
  <2>2. u # t
    BY <1>7, <2>1
  <2>3. pc'[u] = pc[u] /\ my'[u] = my[u] /\ l1'[u] = l1[u] /\ l2'[u] = l2[u]
    BY <1>5, <1>6, <2>2
  <2>4. QED BY ZenonT(60), <2>1, <2>3 DEF IndInv, Missed, HitL1, HitL2, Holds
<1>14. Acting'
  <2>1. \A u \in Threads : Leafkey[my[u].key] \in LeafKeys
    BY <1>0, RtreeAssumption DEF TypeOK, Calls
  <2>2. QED BY SMTT(30), <1>2, <1>3, <1>6, <1>7, <1>8, <2>1 DEF IndInv, Acting
<1>15. Alone'
  <2>1. \A u \in Threads : pc'[u] # "idle" =>
          pc[u] # "idle" /\ my'[u].key = my[u].key /\ my'[u].op = my[u].op
    BY <1>6, <1>8
  <2>2. QED BY <2>1, SharingKept
<1>16. Relied'
  <2>1. \A c, d, w : (c.op = d.op /\ c.word = d.word /\ ReliesOn(pc[t], c, w)) => ReliesOn("act", d, w)
    BY DEF ReliesOn
  <2>2. SUFFICES ASSUME NEW u \in Threads, NEW j \in Keys, pc'[u] # "idle", my'[u].key = j
                 PROVE  ReliesOn(pc'[u], my'[u], WordOf(j))
    BY <1>11 DEF Relied
  <2>3. CASE u = t
    <3>1. ReliesOn(pc[t], my[t], WordOf(j))
      BY <1>8, <2>2, <2>3 DEF IndInv, Relied
    <3>2. ReliesOn("act", my'[t], WordOf(j))
      BY <1>8, <2>1, <3>1
    <3>3. QED BY <1>7, <2>3, <3>2
  <2>4. CASE u # t
    BY <1>6, <2>2, <2>4 DEF IndInv, Relied
  <2>5. QED BY <2>3, <2>4
<1>17. QED
  BY <1>5, <1>10, <1>11, <1>12, <1>13, <1>14, <1>15, <1>16 DEF IndInv

(* A step that only takes a thread further on its way to the tree.          *)
LEMMA QuietStep ==
  ASSUME IndInv, NEW t \in Threads, NEW stage \in {"lock", "make"},
         pc[t] \in {"child", "lock"}, Inits(my[t].op), pc' = [pc EXCEPT ![t] = stage],
         \/ stage = "lock" /\ UNCHANGED initLock
         \/ stage = "make" /\ initLock' = t /\ initLock = Unlocked,
         failed' = FALSE, UNCHANGED <<root, elm, l1, l2, my, said>>
  PROVE  IndInv' /\ \A k \in Keys : WordOf(k)' = WordOf(k)
<1>0. TypeOK /\ TreeOK
  BY DEF IndInv
<1>1. pc'[t] = stage /\ \A u \in Threads : u # t => pc'[u] = pc[u]
  BY <1>0 DEF TypeOK
<1>2. TypeOK'
  <2>1. pc' \in [Threads -> {"idle", "child", "lock", "make", "act", "class"}]
    BY <1>0 DEF TypeOK
  <2>2. initLock' \in Threads \union {Unlocked} /\ (initLock' # Unlocked => pc'[initLock'] = "make")
    BY <1>0, <1>1 DEF TypeOK
  <2>3. QED BY <1>0, <2>1, <2>2 DEF TypeOK
<1>3. TreeOK' /\ CachesAgree' /\ Placed' /\ OncePlaced' /\ Missed'
  <2>1. \A u \in Threads : pc'[u] \in {"child", "lock", "make"} =>
          pc[u] \in {"child", "lock", "make"} /\ my'[u].key = my[u].key
    BY <1>1
  <2>2. QED BY <2>1, CachesKept
<1>4. \A k : WordOf(k)' = WordOf(k)
  BY DEF WordOf
<1>5. Acting' /\ Alone'
  BY <1>1 DEF IndInv, Acting, Alone
<1>6. Relied'
  <2>1. SUFFICES ASSUME NEW u \in Threads, NEW j \in Keys, pc'[u] # "idle", my[u].key = j
                 PROVE  ReliesOn(pc'[u], my[u], WordOf(j))
    BY <1>4 DEF Relied
  <2>2. ReliesOn(pc[u], my[u], WordOf(j))
    BY <1>1, <2>1 DEF IndInv, Relied
  <2>3. QED BY <1>1, <2>2 DEF ReliesOn
<1>7. QED BY <1>2, <1>3, <1>4, <1>5, <1>6 DEF IndInv

(* A look that finds no leaf is over, and only a probe may find none.       *)
LEMMA NoLeafStep ==
  ASSUME IndInv, NEW t \in Threads, Child(t), root[Leafkey[my[t].key]] = NoLeaf, ~Inits(my[t].op)
  PROVE  /\ IndInv' /\ Answer(t, Zero) /\ my[t].op = "probe"
         /\ WordOf(my[t].key) = Zero /\ UNCHANGED <<treeVars, cacheVars>>
<1>0. TypeOK /\ my[t] \in Calls /\ my[t].key \in Keys /\ pc[t] = "child"
  BY DEF IndInv, TypeOK, Child, Calls
<1>1. Answer(t, Zero) /\ UNCHANGED <<treeVars, cacheVars>>
  BY DEF Child, GiveUp, treeVars
<1>2. WordOf(my[t].key) = Zero
  BY DEF WordOf
<1>3. my[t].op = "probe" /\ failed' = FALSE
  <2>1. ReliesOn(pc[t], my[t], WordOf(my[t].key))
    BY <1>0 DEF IndInv, Relied
  <2>2. ~Dependent(my[t].op)
    BY <1>2, <2>1 DEF ReliesOn, Zero
  <2>3. QED BY <1>0, <2>2 DEF Dependent, Inits, Calls, Ops, Child
<1>4. \A u \in Threads : u # t => pc'[u] = pc[u] /\ my'[u] = my[u]
  BY <1>0, <1>1 DEF TypeOK, Answer
<1>5. pc'[t] = "idle"
  BY <1>0, <1>1 DEF TypeOK, Answer
<1>6. TypeOK'
  BY <1>0, <1>1, <1>3, <1>5, NoCallTypes, WordTypes DEF TypeOK, Answer, treeVars, cacheVars
<1>7. TreeOK' /\ CachesAgree' /\ Placed' /\ OncePlaced' /\ Missed'
  BY <1>1, <1>4, <1>5, CachesKept DEF treeVars, cacheVars
<1>8. Acting' /\ Alone'
  BY <1>1, <1>4, <1>5 DEF IndInv, Acting, Alone, treeVars
<1>9. Relied'
  <2>1. \A k : WordOf(k)' = WordOf(k)
    BY <1>1 DEF WordOf, treeVars
  <2>2. QED BY <1>4, <1>5, <2>1 DEF IndInv, Relied
<1>10. QED BY <1>1, <1>2, <1>3, <1>6, <1>7, <1>8, <1>9 DEF IndInv

LEMMA GetLeaf ==
  ASSUME IndInv, NEW t \in Threads,
         \/ Child(t) /\ root[Leafkey[my[t].key]] # NoLeaf
         \/ MakeLeaf(t)
  PROVE  /\ IndInv' /\ \A k \in Keys : WordOf(k)' = WordOf(k)
         /\ \E n : my' = [my EXCEPT ![t].leaf = n]
         /\ pc' = [pc EXCEPT ![t] = "act"] /\ pc[t] # "idle" /\ UNCHANGED said
<1>0. TypeOK /\ TreeOK /\ my[t] \in Calls /\ my[t].key \in Keys /\ Leafkey[my[t].key] \in LeafKeys
  BY RtreeAssumption DEF IndInv, TypeOK, Calls
<1>1. PICK lk \in LeafKeys : lk = Leafkey[my[t].key]
  BY <1>0
<1>2. Len(elm) \in Nat /\ root[lk] \in Nat
  BY <1>0 DEF TypeOK
<1>3. CASE Child(t) /\ root[lk] # NoLeaf
  <2>1. /\ Cache(t, lk, root[lk], Push(l2[t], l1[t][Slot[lk]]))
        /\ my' = [my EXCEPT ![t].leaf = root[lk]] /\ pc' = [pc EXCEPT ![t] = "act"]
        /\ pc[t] = "child" /\ failed' = FALSE /\ UNCHANGED said /\ UNCHANGED <<root, elm, initLock>>
    BY <1>1, <1>3 DEF Child, treeVars
  <2>2. PICK leaf \in Nat \ {NoLeaf} : leaf = root[lk]
    BY <1>2, <1>3
  <2>3. IndInv' /\ \A k \in Keys : WordOf(k)' = WordOf(k)
    BY <1>1, <2>1, <2>2, LeafStep
  <2>4. QED BY <2>1, <2>3
<1>4. CASE MakeLeaf(t)
  <2>1. PICK leaf : leaf = IF root[lk] = NoLeaf THEN Len(elm) + 1 ELSE root[lk]
    OBVIOUS
  <2>2. leaf \in Nat \ {NoLeaf}
    BY <1>2, <2>1 DEF NoLeaf
  <2>3. /\ Cache(t, lk, leaf, Push(l2[t], l1[t][Slot[lk]]))
        /\ my' = [my EXCEPT ![t].leaf = leaf] /\ pc' = [pc EXCEPT ![t] = "act"]
        /\ pc[t] = "make" /\ failed' = FALSE /\ UNCHANGED said /\ initLock' = Unlocked
        /\ elm' = (IF root[lk] = NoLeaf THEN Append(elm, [k \in Keys |-> Zero]) ELSE elm)
        /\ root' = [root EXCEPT ![lk] = leaf]
    BY <1>1, <1>4, <2>1 DEF MakeLeaf, Make, UnlockInit
  <2>4. \/ root[lk] = leaf /\ UNCHANGED <<root, elm>>
        \/ /\ root[lk] = NoLeaf /\ leaf = Len(elm) + 1
           /\ root' = [root EXCEPT ![lk] = leaf]
           /\ elm' = Append(elm, [k \in Keys |-> Zero])
    BY <1>0, <2>1, <2>3 DEF TypeOK
  <2>5. IndInv' /\ \A k \in Keys : WordOf(k)' = WordOf(k)
    BY <1>1, <2>2, <2>3, <2>4, LeafStep
  <2>6. QED BY <2>3, <2>5
<1>5. QED BY <1>1, <1>3, <1>4

-----------------------------------------------------------------------------
(* The steps as steps of the map *)

mapNow   == [k \in Keys |-> WordOf(k)]
askedNow == [t \in Threads |-> Question(t)]

SameMap == mapNow' = mapNow
Changed(t, w) == mapNow' = [mapNow EXCEPT ![my[t].key] = w]

MapStep ==
  \/ UNCHANGED <<mapNow, askedNow, said>>
  \/ \E t \in Threads :
       \/ /\ askedNow[t] = Map!NoQuestion
          /\ \E q \in Map!Questions : askedNow' = [askedNow EXCEPT ![t] = q]
          /\ said' = [said EXCEPT ![t] = Zero] /\ SameMap
       \/ /\ askedNow[t].op = "store" /\ UNCHANGED <<askedNow, said>>
          /\ mapNow' = [mapNow EXCEPT ![askedNow[t].key] =
                          TakeSlab(mapNow[askedNow[t].key], askedNow[t].word)]
       \/ /\ askedNow[t].op = "store" /\ UNCHANGED said
          /\ mapNow' = [mapNow EXCEPT ![askedNow[t].key] = askedNow[t].word]
          /\ askedNow' = [askedNow EXCEPT ![t] = Map!NoQuestion]
       \/ /\ askedNow[t].op = "look" /\ SameMap
          /\ said' = [said EXCEPT ![t] = mapNow[askedNow[t].key]]
          /\ askedNow' = [askedNow EXCEPT ![t] = Map!NoQuestion]

LEMMA Asked ==
  ASSUME TypeOK, NEW t \in Threads, \A u \in Threads : u # t => pc'[u] = pc[u] /\ my'[u] = my[u]
  PROVE  askedNow' = [askedNow EXCEPT ![t] = Question(t)']
<1>1. \A u \in Threads : u # t => Question(u)' = Question(u)
  BY DEF Question
<1>2. QED BY <1>1 DEF askedNow

LEMMA IdleAsks == \A t \in Threads : pc[t] = "idle" => Question(t) = Map!NoQuestion
BY DEF Question, Map!NoQuestion, NoCall

LEMMA BusyAsks ==
  ASSUME TypeOK, NEW t \in Threads, pc[t] # "idle"
  PROVE  /\ askedNow[t].op = IF my[t].op \in Stores THEN "store" ELSE "look"
         /\ askedNow[t].key = my[t].key /\ askedNow[t].word = my[t].word
         /\ my[t].key \in Keys /\ mapNow[my[t].key] = WordOf(my[t].key)
BY DEF askedNow, Question, TypeOK, Calls, mapNow

LEMMA CallAsks ==
  ASSUME IndInv, NEW t \in Threads, NEW op \in Ops, NEW k \in Keys, NEW w \in Carries(op, k),
         Call(t, op, k, w)
  PROVE  MapStep
<1>1. /\ my'[t].op = op /\ my'[t].key = k /\ my'[t].word = w /\ my'[t] \in Calls
      /\ my' = [my EXCEPT ![t] = my'[t]] /\ pc' = [pc EXCEPT ![t] = pc'[t]]
      /\ pc'[t] # "idle"
  BY CallStep
<1>2. pc[t] = "idle" /\ UNCHANGED <<root, elm>> /\ said' = [said EXCEPT ![t] = Zero] /\ TypeOK
  BY DEF Call, treeVars, IndInv
<1>3. SameMap
  BY <1>2 DEF SameMap, mapNow, WordOf
<1>4. Question(t)' \in Map!Questions
  BY <1>1 DEF Question, Map!Questions, Calls
<1>5. askedNow' = [askedNow EXCEPT ![t] = Question(t)']
  BY <1>1, <1>2, Asked DEF TypeOK
<1>6. askedNow[t] = Map!NoQuestion
  BY <1>2, IdleAsks DEF askedNow
<1>7. QED BY <1>2, <1>3, <1>4, <1>5, <1>6 DEF MapStep

(* A thread on its way to the tree changes nothing anybody can see.         *)
LEMMA WayUnseen ==
  ASSUME IndInv, NEW t \in Threads, pc[t] # "idle",
         \/ UNCHANGED my
         \/ \E n : my' = [my EXCEPT ![t].leaf = n],
         \E stage \in {"lock", "make", "act"} : pc' = [pc EXCEPT ![t] = stage],
         \A k \in Keys : WordOf(k)' = WordOf(k), UNCHANGED said
  PROVE  MapStep
<1>0. TypeOK /\ my[t] \in Calls
  BY DEF IndInv, TypeOK
<1>1. my'[t].op = my[t].op /\ my'[t].key = my[t].key /\ my'[t].word = my[t].word
  <2>1. CASE UNCHANGED my
    BY <2>1
  <2>2. ASSUME NEW n, my' = [my EXCEPT ![t].leaf = n]
        PROVE  my'[t].op = my[t].op /\ my'[t].key = my[t].key /\ my'[t].word = my[t].word
    <3>1. my'[t] = [my[t] EXCEPT !.leaf = n]
      BY <1>0, <2>2 DEF TypeOK
    <3>2. QED BY <1>0, <3>1 DEF Calls
  <2>3. QED BY <2>1, <2>2
<1>2. \A u \in Threads : u # t => pc'[u] = pc[u] /\ my'[u] = my[u]
  BY <1>0 DEF TypeOK
<1>3. pc'[t] # "idle"
  BY <1>0 DEF TypeOK
<1>4. \A u \in Threads : Question(u)' = Question(u)
  BY <1>1, <1>2, <1>3 DEF Question
<1>5. UNCHANGED <<mapNow, askedNow>>
  BY <1>4 DEF mapNow, askedNow
<1>6. QED BY <1>5 DEF MapStep

(* A store that replaces the word of its page, after which the call is over.*)
LEMMA StoreSeen ==
  ASSUME IndInv, NEW t \in Threads, pc[t] # "idle", my[t].op \in Stores,
         Finish(t), UNCHANGED said,
         \A j \in Keys : WordOf(j)' = IF j = my[t].key THEN my[t].word ELSE WordOf(j)
  PROVE  MapStep
<1>0. TypeOK
  BY DEF IndInv
<1>1. pc'[t] = "idle" /\ \A u \in Threads : u # t => pc'[u] = pc[u] /\ my'[u] = my[u]
  BY <1>0 DEF TypeOK, Finish
<1>2. Question(t)' = Map!NoQuestion
  BY <1>1 DEF Question, Map!NoQuestion, NoCall
<1>3. askedNow' = [askedNow EXCEPT ![t] = Map!NoQuestion]
  BY <1>0, <1>1, <1>2, Asked
<1>4. mapNow' = [mapNow EXCEPT ![my[t].key] = my[t].word]
  BY DEF mapNow
<1>5. QED BY <1>0, <1>3, <1>4, BusyAsks DEF MapStep

LEMMA AnswerSeen ==
  ASSUME IndInv, NEW t \in Threads, pc[t] # "idle", my[t].op \notin Stores,
         Answer(t, WordOf(my[t].key)), UNCHANGED treeVars
  PROVE  MapStep
<1>0. TypeOK
  BY DEF IndInv
<1>1. pc'[t] = "idle" /\ \A u \in Threads : u # t => pc'[u] = pc[u] /\ my'[u] = my[u]
  BY <1>0 DEF TypeOK, Answer
<1>2. Question(t)' = Map!NoQuestion
  BY <1>1 DEF Question, Map!NoQuestion, NoCall
<1>3. askedNow' = [askedNow EXCEPT ![t] = Map!NoQuestion]
  BY <1>0, <1>1, <1>2, Asked
<1>4. SameMap
  BY DEF SameMap, mapNow, WordOf, treeVars
<1>5. said' = [said EXCEPT ![t] = mapNow[my[t].key]]
  BY <1>0, BusyAsks DEF Answer
<1>6. QED BY <1>0, <1>3, <1>4, <1>5, BusyAsks DEF MapStep

LEMMA UpdateBegins ==
  ASSUME IndInv, NEW t \in Threads, UpdateSlab(t)
  PROVE  MapStep
<1>0. TypeOK /\ pc[t] # "idle" /\ my[t].op \in Stores /\ UNCHANGED <<my, said>>
  BY DEF IndInv, UpdateSlab, Stores, Ops
<1>1. \A u \in Threads : Question(u)' = Question(u)
  BY <1>0 DEF Question, UpdateSlab, TypeOK
<1>2. UNCHANGED askedNow
  BY <1>1 DEF askedNow
<1>3. \A j \in Keys : WordOf(j)' =
        IF j = my[t].key THEN TakeSlab(WordOf(j), my[t].word) ELSE WordOf(j)
  BY UpdateSlabStep
<1>4. mapNow' = [mapNow EXCEPT ![my[t].key] = TakeSlab(mapNow[my[t].key], my[t].word)]
  BY <1>3 DEF mapNow
<1>5. QED BY <1>0, <1>2, <1>4, BusyAsks DEF MapStep

LEMMA Steps == IndInv /\ [Next]_vars => IndInv' /\ MapStep
<1> SUFFICES ASSUME IndInv, [Next]_vars PROVE IndInv' /\ MapStep
  OBVIOUS
<1>1. CASE UNCHANGED vars
  <2>1. UNCHANGED <<mapNow, askedNow, said>>
    BY <1>1 DEF vars, mapNow, askedNow, WordOf, Question
  <2>2. IndInv'
    BY <1>1 DEF vars, IndInv, TypeOK, TreeOK, Made, CachesAgree, Agrees, Placed, OncePlaced,
         Missed, HitL1, HitL2, Holds, Acting, Alone, Relied, WordOf
  <2>3. QED BY <2>1, <2>2 DEF MapStep
<1>2. ASSUME NEW t \in Threads, NEW use \in Uses[t], NEW w \in Carries(use[1], use[2]),
             Call(t, use[1], use[2], w)
      PROVE  IndInv' /\ MapStep
  <2>1. use[1] \in Ops /\ use[2] \in Keys
    BY RtreeAssumption
  <2>2. QED BY <1>2, <2>1, CallStep, CallAsks
<1>3. ASSUME NEW t \in Threads, Child(t) PROVE IndInv' /\ MapStep
  <2>1. CASE root[Leafkey[my[t].key]] # NoLeaf
    BY <1>3, <2>1, GetLeaf, WayUnseen
  <2>2. CASE root[Leafkey[my[t].key]] = NoLeaf /\ Inits(my[t].op)
    <3>1. /\ pc[t] = "child" /\ pc' = [pc EXCEPT ![t] = "lock"] /\ failed' = FALSE
          /\ UNCHANGED <<root, elm, initLock, l1, l2, my, said>>
      BY <1>3, <2>2 DEF Child, treeVars, cacheVars, Dependent, Inits
    <3>2. IndInv' /\ \A k \in Keys : WordOf(k)' = WordOf(k)
      BY <2>2, <3>1, QuietStep
    <3>3. QED BY <3>1, <3>2, WayUnseen
  <2>3. CASE root[Leafkey[my[t].key]] = NoLeaf /\ ~Inits(my[t].op)
    <3>1. /\ IndInv' /\ Answer(t, Zero) /\ my[t].op = "probe"
          /\ WordOf(my[t].key) = Zero /\ UNCHANGED treeVars /\ pc[t] # "idle"
      BY <1>3, <2>3, NoLeafStep DEF Child
    <3>2. QED BY <3>1, AnswerSeen DEF Stores
  <2>4. QED BY <2>1, <2>2, <2>3
<1>4. ASSUME NEW t \in Threads, LockInit(t) PROVE IndInv' /\ MapStep
  <2>1. /\ pc[t] = "lock" /\ pc' = [pc EXCEPT ![t] = "make"] /\ failed' = FALSE
        /\ initLock' = t /\ initLock = Unlocked /\ UNCHANGED <<root, elm, l1, l2, my, said>>
        /\ Inits(my[t].op)
    BY <1>4 DEF LockInit, cacheVars, IndInv, Acting
  <2>2. IndInv' /\ \A k \in Keys : WordOf(k)' = WordOf(k)
    BY <2>1, QuietStep
  <2>3. QED BY <2>1, <2>2, WayUnseen
<1>5. ASSUME NEW t \in Threads, MakeLeaf(t) PROVE IndInv' /\ MapStep
  BY <1>5, GetLeaf, WayUnseen
<1>6. ASSUME NEW t \in Threads, Look(t) PROVE IndInv' /\ MapStep
  <2>1. my[t].key \in Keys /\ pc[t] # "idle" /\ my[t].op \notin Stores /\ UNCHANGED treeVars
    BY <1>6 DEF IndInv, TypeOK, Calls, Look, Stores
  <2>2. elm[my[t].leaf][my[t].key] = WordOf(my[t].key)
    BY <1>6 DEF IndInv, Acting, WordOf, Look
  <2>3. QED BY <1>6, <2>1, <2>2, LookStep, AnswerSeen DEF Look
<1>7. ASSUME NEW t \in Threads, Write(t) PROVE IndInv' /\ MapStep
  <2>1. pc[t] # "idle" /\ my[t].op \in Stores /\ Finish(t) /\ UNCHANGED said
    BY <1>7 DEF Write
  <2>2. QED BY <1>7, <2>1, WriteStep, StoreSeen
<1>8. ASSUME NEW t \in Threads, UpdateSlab(t) PROVE IndInv' /\ MapStep
  BY <1>8, UpdateSlabStep, UpdateBegins
<1>9. ASSUME NEW t \in Threads, UpdateClass(t) PROVE IndInv' /\ MapStep
  <2>1. pc[t] # "idle" /\ Finish(t) /\ UNCHANGED said
    BY <1>9 DEF UpdateClass
  <2>2. QED BY <1>9, <2>1, UpdateClassStep, StoreSeen
<1>10. QED
  BY <1>1, <1>2, <1>3, <1>4, <1>5, <1>6, <1>7, <1>8, <1>9 DEF Next, Step, Inside

-----------------------------------------------------------------------------
(* The theorems *)

LEMMA Inductive == Spec => []IndInv
<1>1. QED BY Initially, Steps, PTL DEF Spec

(* The variables keep their types: in particular init_lock is held only by  *)
(* a thread inside rtree_leaf_init.                                         *)
THEOREM Types == Spec => []TypeOK
<1>1. IndInv => TypeOK
  BY DEF IndInv
<1>2. QED BY <1>1, Inductive, PTL

(* No assert of rtree.h or rtree.c can fail, for any number of threads.     *)
THEOREM Asserts == Spec => []AssertsHold
<1>1. IndInv => AssertsHold
  BY DEF IndInv, AssertsHold
<1>2. QED BY <1>1, Inductive, PTL

(* A cached leaf is the leaf of the tree: nothing is ever invalidated.      *)
THEOREM Coherence == Spec => []CachesAgree
<1>1. IndInv => CachesAgree
  BY DEF IndInv
<1>2. QED BY <1>1, Inductive, PTL

(* A leaf lies at one place of a thread's two caches.                       *)
THEOREM Uniqueness == Spec => []CachedOnce
<1>1. IndInv => CachedOnce
  <2>1. ASSUME IndInv, NEW t \in Threads, NEW r \in Slots, NEW s \in Slots,
               r # s, l1[t][r].key # NoKey
        PROVE  l1[t][r].key # l1[t][s].key
    BY <2>1 DEF IndInv, Placed
  <2>2. QED BY <2>1 DEF IndInv, CachedOnce, OncePlaced
<1>2. QED BY <1>1, Inductive, PTL

(* What a lookup does to the set of leaves a thread has cached.             *)
LEMMA PushKeeps ==
  ASSUME TypeOK, NEW t \in Threads, NEW lk \in LeafKeys, NEW leaf,
         Cache(t, lk, leaf, Push(l2[t], l1[t][Slot[lk]]))
  PROVE  /\ Cached(t) \ Cached(t)' \subseteq {l2[t][NL2 - 1].key}
         /\ \A u \in Threads : u # t => Cached(u)' = Cached(u)
<1> DEFINE s == Slot[lk]
           q == Push(l2[t], l1[t][s])
<1>1. s \in Slots /\ NL2 \in Nat \ {0}
  BY RtreeAssumption
<1>2. /\ l1' = [l1 EXCEPT ![t][s] = [key |-> lk, leaf |-> leaf]]
      /\ l2' = [l2 EXCEPT ![t] = q]
  BY DEF Cache
<1>3. /\ \A r \in Slots : r # s => l1'[t][r] = l1[t][r]
      /\ l2'[t] = q
      /\ \A u \in Threads : u # t => l1'[u] = l1[u] /\ l2'[u] = l2[u]
  BY <1>1, <1>2 DEF TypeOK
<1>4. /\ q[0] = l1[t][s]
      /\ \A i \in L2Range : i # NL2 - 1 => i + 1 \in L2Range /\ q[i + 1] = l2[t][i]
      /\ 0 \in L2Range
  BY <1>1 DEF Push, L2Range
<1>5. ASSUME NEW k \in Cached(t), k # l2[t][NL2 - 1].key PROVE k \in Cached(t)'
  <2>1. CASE \E r \in Slots : k = l1[t][r].key
    BY <2>1, <1>3, <1>4 DEF Cached
  <2>2. CASE \E i \in L2Range : k = l2[t][i].key
    BY <2>2, <1>3, <1>4, <1>5 DEF Cached
  <2>3. QED BY <1>5, <2>1, <2>2 DEF Cached
<1>6. Cached(t) \ Cached(t)' \subseteq {l2[t][NL2 - 1].key}
  BY <1>5
<1>7. \A u \in Threads : u # t => Cached(u)' = Cached(u)
  BY <1>3 DEF Cached
<1>8. QED BY <1>6, <1>7

LEMMA BubbleKeeps ==
  ASSUME TypeOK, NEW t \in Threads, NEW lk \in LeafKeys, NEW leaf,
         NEW i \in HitL2(t, lk),
         Cache(t, lk, leaf, Bubble(l2[t], i, l1[t][Slot[lk]]))
  PROVE  \A u \in Threads : Cached(u) \subseteq Cached(u)'
<1> DEFINE s == Slot[lk]
           q == Bubble(l2[t], i, l1[t][s])
<1>1. s \in Slots /\ NL2 \in Nat \ {0} /\ i \in L2Range /\ l2[t][i].key = lk
  BY RtreeAssumption DEF HitL2, Holds
<1>2. /\ l1' = [l1 EXCEPT ![t][s] = [key |-> lk, leaf |-> leaf]]
      /\ l2' = [l2 EXCEPT ![t] = q]
  BY DEF Cache
<1>3. /\ l1'[t][s].key = lk
      /\ \A r \in Slots : r # s => l1'[t][r] = l1[t][r]
      /\ l2'[t] = q
      /\ \A u \in Threads : u # t => l1'[u] = l1[u] /\ l2'[u] = l2[u]
  BY <1>1, <1>2 DEF TypeOK
<1>4. \E j \in L2Range : q[j] = l1[t][s]
  <2>1. CASE i = 0
    BY <2>1, <1>1 DEF Bubble, TypeOK
  <2>2. CASE i # 0
    <3>1. i - 1 \in L2Range /\ i - 1 # i
      BY <2>2, <1>1 DEF L2Range
    <3>2. q[i - 1] = l1[t][s]
      BY <2>2, <3>1, <1>1 DEF Bubble, TypeOK
    <3>3. QED BY <3>1, <3>2
  <2>3. QED BY <2>1, <2>2
<1>5. \A j \in L2Range : j # i => \E h \in L2Range : q[h] = l2[t][j]
  <2>1. CASE i = 0
    BY <2>1, <1>1 DEF Bubble, TypeOK
  <2>2. CASE i # 0
    <3>1. i - 1 \in L2Range /\ i - 1 # i
      BY <2>2, <1>1 DEF L2Range
    <3>2. /\ q[i] = l2[t][i - 1]
          /\ \A j \in L2Range : j # i /\ j # i - 1 => q[j] = l2[t][j]
      BY <2>2, <3>1, <1>1 DEF Bubble, TypeOK
    <3>3. QED BY <1>1, <3>1, <3>2
  <2>3. QED BY <2>1, <2>2
<1>6. ASSUME NEW k \in Cached(t) PROVE k \in Cached(t)'
  <2>1. CASE \E r \in Slots : k = l1[t][r].key
    BY <2>1, <1>3, <1>4 DEF Cached
  <2>2. CASE \E j \in L2Range : k = l2[t][j].key
    BY <2>2, <1>1, <1>3, <1>5 DEF Cached
  <2>3. QED BY <1>6, <2>1, <2>2 DEF Cached
<1>7. QED BY SMTT(30), <1>3, <1>6 DEF Cached

(* What OnlyLastEvicted says of one step.                                   *)
EvictsLast ==
  \A t \in Threads :
    Cached(t) \ Cached(t)' \subseteq {NoKey, IF pc[t] = "idle" THEN NoKey ELSE l2[t][NL2 - 1].key}

LEMMA CallEvicts ==
  ASSUME IndInv, NEW t \in Threads, NEW op \in Ops, NEW k \in Keys, NEW w, Call(t, op, k, w)
  PROVE  EvictsLast
<1> DEFINE lk == Leafkey[k]
           i == CHOOSE j \in HitL2(t, lk) : \A h \in HitL2(t, lk) : j <= h
<1>0. lk \in LeafKeys /\ lk # NoKey /\ TypeOK /\ OncePlaced
  BY RtreeAssumption DEF IndInv, NoKey
<1>1. CASE UNCHANGED cacheVars
  BY <1>1 DEF EvictsLast, Cached, cacheVars
<1>2. CASE HitL2(t, lk) # {} /\ ~HitL1(t, lk)
  <2>1. \A j \in HitL2(t, lk) : j \in L2Range /\ l2[t][j].key = lk /\ j <= j
    BY RtreeAssumption DEF HitL2, Holds, L2Range
  <2>2. ASSUME NEW j \in HitL2(t, lk), NEW h \in HitL2(t, lk) PROVE j = h
    BY <1>0, <2>1 DEF OncePlaced
  <2>3. i \in HitL2(t, lk)
    BY <1>2, <2>1, <2>2
  <2>4. Cache(t, lk, l2[t][i].leaf, Bubble(l2[t], i, l1[t][Slot[lk]]))
    BY <1>2 DEF Call
  <2>5. QED BY <1>0, <2>3, <2>4, BubbleKeeps DEF EvictsLast
<1>3. QED BY <1>1, <1>2 DEF Call

LEMMA StepEvicts == IndInv /\ [Next]_vars => EvictsLast
<1> SUFFICES ASSUME IndInv, [Next]_vars PROVE EvictsLast
  OBVIOUS
<1>0. TypeOK /\ Acting
  BY DEF IndInv
<1>1. CASE UNCHANGED cacheVars
  BY <1>1 DEF EvictsLast, Cached, cacheVars
<1>2. ASSUME NEW t \in Threads, NEW use \in Uses[t], NEW w \in Carries(use[1], use[2]),
             Call(t, use[1], use[2], w)
      PROVE  EvictsLast
  <2>1. use[1] \in Ops /\ use[2] \in Keys
    BY RtreeAssumption
  <2>2. QED BY <1>2, <2>1, CallEvicts
<1>3. ASSUME NEW t \in Threads, NEW leaf, pc[t] # "idle",
             Cache(t, Leafkey[my[t].key], leaf,
                   Push(l2[t], l1[t][Slot[Leafkey[my[t].key]]]))
      PROVE  EvictsLast
  <2>1. Leafkey[my[t].key] \in LeafKeys
    BY <1>0, RtreeAssumption DEF TypeOK, Calls
  <2>2. QED BY <1>0, <1>3, <2>1, PushKeeps DEF EvictsLast
<1>4. ASSUME NEW t \in Threads, Child(t) PROVE EvictsLast
  BY <1>1, <1>3, <1>4 DEF Child
<1>5. ASSUME NEW t \in Threads, MakeLeaf(t) PROVE EvictsLast
  BY <1>3, <1>5 DEF MakeLeaf
<1>6. ASSUME NEW t \in Threads,
             LockInit(t) \/ Look(t) \/ Write(t) \/ UpdateSlab(t) \/ UpdateClass(t)
      PROVE  UNCHANGED cacheVars
  BY <1>6 DEF LockInit, Look, Write, UpdateSlab, UpdateClass, cacheVars
<1>7. CASE UNCHANGED vars
  BY <1>1, <1>7 DEF vars, cacheVars
<1>8. QED BY <1>1, <1>2, <1>4, <1>5, <1>6, <1>7 DEF Next, Step, Inside

(* A lookup that hits evicts nothing; one that misses at most the last      *)
(* entry of L2.                                                             *)
THEOREM Eviction == Spec => OnlyLastEvicted
<1>1. QED BY StepEvicts, Inductive, PTL DEF Spec, OnlyLastEvicted, EvictsLast

(* No leaf is lost when several threads miss it at once.                    *)
THEOREM Leaves == Spec => []LeavesKept
<1>1. IndInv => LeavesKept
  BY DEF IndInv, TreeOK, Made, LeavesKept, NoLeaf
<1>2. QED BY <1>1, Inductive, PTL

(* The tree, its lazily made leaves and the threads' caches implement one   *)
(* map that all threads share.                                              *)
THEOREM Refinement == Spec => MapSpec
<1>1. Init => Map!Init
  <2>1. SUFFICES ASSUME Init PROVE Map!Init
    OBVIOUS
  <2>2. /\ root = [lk \in LeafKeys |-> NoLeaf] /\ pc = [t \in Threads |-> "idle"]
        /\ said = [t \in Threads |-> Zero]
    BY <2>1 DEF Init
  <2>3. \A k \in Keys : root[Leafkey[k]] = NoLeaf
    BY <2>2, RtreeAssumption
  <2>4. \A k \in Keys : WordOf(k) = Zero
    BY <2>3 DEF WordOf
  <2>5. \A t \in Threads : Question(t) = Map!NoQuestion
    BY <2>2, IdleAsks
  <2>6. QED BY <2>2, <2>4, <2>5 DEF Map!Init
<1>2. MapStep => [Map!Next]_<<mapNow, askedNow, said>>
  BY DEF MapStep, Map!Next, Map!Ask, Map!Begin, Map!Store, Map!Answer, SameMap, mapNow, askedNow
<1>3. QED BY <1>1, <1>2, Steps, Inductive, PTL
          DEF MapSpec, Map!Spec, Map!vars, Spec, mapNow, askedNow
=============================================================================
