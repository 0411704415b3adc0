--------------------------- MODULE Extents_proofs ---------------------------
(***************************************************************************)
(* Proofs about Extents, for any number of threads, pages, chunks and size *)
(* classes, provided no request is longer than a chunk.                    *)
(***************************************************************************)
EXTENDS Extents, TLAPS

-----------------------------------------------------------------------------
(* The lists of a pool and of a decaying thread. *)

LEMMA AppendList ==
  ASSUME NEW S, NEW s \in Seq(S), NEW x \in S, Distinct(s), x \notin Elems(s)
  PROVE  /\ Append(s, x) \in Seq(S)
         /\ Distinct(Append(s, x))
         /\ Elems(Append(s, x)) = Elems(s) \cup {x}
<1> DEFINE a == Append(s, x)
<1>1. /\ a \in Seq(S) /\ Len(a) = Len(s) + 1 /\ Len(s) \in Nat
      /\ \A i \in 1 .. Len(s) : a[i] = s[i]
      /\ a[Len(s) + 1] = x
      /\ DOMAIN a = 1 .. Len(s) + 1 /\ DOMAIN s = 1 .. Len(s)
  OBVIOUS
<1>2. Distinct(a)
  BY <1>1 DEF Distinct, Elems
<1>3. Elems(a) = Elems(s) \cup {x}
  <2>1. \A i \in DOMAIN a : a[i] \in Elems(s) \cup {x}
    BY <1>1 DEF Elems
  <2>2. \A i \in DOMAIN s : s[i] \in Elems(a)
    BY <1>1 DEF Elems
  <2>3. x \in Elems(a)
    BY <1>1 DEF Elems
  <2>4. QED BY <2>1, <2>2, <2>3 DEF Elems
<1>4. QED BY <1>1, <1>2, <1>3

LEMMA UnlinkList ==
  ASSUME NEW S, NEW s \in Seq(S), NEW x \in Elems(s), Distinct(s)
  PROVE  /\ Unlink(s, x) \in Seq(S)
         /\ Distinct(Unlink(s, x))
         /\ Elems(Unlink(s, x)) = Elems(s) \ {x}
<1> DEFINE k == CHOOSE j \in 1 .. Len(s) : s[j] = x
           n == Len(s)
           u == [j \in 1 .. n - 1 |-> IF j < k THEN s[j] ELSE s[j + 1]]
<1>0. DOMAIN s = 1 .. n /\ n \in Nat
  OBVIOUS
<1>1. k \in 1 .. n /\ s[k] = x
  <2>1. \E j \in 1 .. n : s[j] = x
    BY <1>0 DEF Elems
  <2>2. QED BY <2>1
<1>2. Unlink(s, x) = u
  BY DEF Unlink
<1> HIDE DEF k
<1>3. u \in Seq(S) /\ DOMAIN u = 1 .. n - 1
  BY <1>0, <1>1
<1>4. \A j \in 1 .. n - 1 : u[j] = IF j < k THEN s[j] ELSE s[j + 1]
  OBVIOUS
<1> HIDE DEF u
<1>5. Distinct(u)
  <2>1. SUFFICES ASSUME NEW i \in 1 .. n - 1, NEW j \in 1 .. n - 1, u[i] = u[j]
                 PROVE  i = j
    BY <1>3 DEF Distinct
  <2> DEFINE m(a) == IF a < k THEN a ELSE a + 1
  <2>2. m(i) \in 1 .. n /\ m(j) \in 1 .. n
    BY <1>0, <1>1
  <2>3. s[m(i)] = u[i] /\ s[m(j)] = u[j]
    BY <1>4
  <2>4. m(i) = m(j)
    BY <2>1, <2>2, <2>3, <1>0 DEF Distinct
  <2>5. QED BY <2>4, <1>0, <1>1
<1>6. \A j \in 1 .. n - 1 : u[j] \in Elems(s) \ {x}
  BY <1>0, <1>1, <1>4 DEF Distinct, Elems
<1>7. \A i \in 1 .. n : i # k => s[i] \in Elems(u)
  <2> TAKE i \in 1 .. n
  <2>1. CASE i < k
    <3>1. i \in 1 .. n - 1 /\ u[i] = s[i]
      BY <2>1, <1>0, <1>1, <1>4
    <3>2. QED BY <3>1, <1>3 DEF Elems
  <2>2. CASE i > k
    <3>1. i - 1 \in 1 .. n - 1 /\ ~(i - 1 < k) /\ u[i - 1] = s[i]
      BY <2>2, <1>0, <1>1, <1>4
    <3>2. QED BY <3>1, <1>3 DEF Elems
  <2>3. QED BY <2>1, <2>2, <1>0, <1>1
<1>8. Elems(u) = Elems(s) \ {x}
  BY <1>0, <1>1, <1>3, <1>6, <1>7 DEF Elems
<1>9. QED BY <1>2, <1>3, <1>5, <1>8

LEMMA TailList ==
  ASSUME NEW S, NEW s \in Seq(S), s # <<>>, Distinct(s)
  PROVE  /\ Head(s) \in Elems(s) /\ Head(s) \in S
         /\ Tail(s) \in Seq(S)
         /\ Distinct(Tail(s))
         /\ Elems(Tail(s)) = Elems(s) \ {Head(s)}
<1> DEFINE n == Len(s)
<1>1. /\ n \in Nat /\ n >= 1 /\ DOMAIN s = 1 .. n /\ Head(s) = s[1]
      /\ Tail(s) \in Seq(S) /\ DOMAIN Tail(s) = 1 .. n - 1
      /\ \A i \in 1 .. n - 1 : Tail(s)[i] = s[i + 1]
  OBVIOUS
<1>2. Head(s) \in Elems(s) /\ Head(s) \in S
  BY <1>1 DEF Elems
<1>3. Distinct(Tail(s))
  BY <1>1 DEF Distinct
<1>4. \A i \in 1 .. n - 1 : Tail(s)[i] \in Elems(s) \ {Head(s)}
  BY <1>1 DEF Distinct, Elems
<1>5. \A i \in 1 .. n : i # 1 => s[i] \in Elems(Tail(s))
  <2> TAKE i \in 1 .. n
  <2> HAVE i # 1
  <2>1. i - 1 \in 1 .. n - 1 /\ Tail(s)[i - 1] = s[i]
    BY <1>1
  <2>2. QED BY <2>1, <1>1 DEF Elems
<1>6. Elems(Tail(s)) = Elems(s) \ {Head(s)}
  BY <1>1, <1>4, <1>5 DEF Elems
<1>7. QED BY <1>1, <1>2, <1>3, <1>6

-----------------------------------------------------------------------------
(* What one thread's step leaves of the others' assumptions. *)

OthersKeep(t) ==
  \A u \in Threads \ {t} :
    /\ cur'[u] = cur[u] /\ oth'[u] = oth[u] /\ stash'[u] = stash[u]
    /\ pc'[u] = pc[u] /\ want'[u] = want[u]

LEMMA HeldIsPage ==
  ASSUME TypeOK, NEW t \in Threads, NEW x \in Held(t)
  PROVE  x \in Pages
<1>1. cur[t] \in Pages \cup {Nil} /\ oth[t] \in Pages \cup {Nil}
  BY DEF TypeOK
<1>2. stash[t] \in Seq(Pages)
  BY DEF TypeOK
<1>3. \A i \in DOMAIN stash[t] : stash[t][i] \in Pages
  BY <1>2
<1>4. QED BY <1>1, <1>3 DEF Held, Elems

LEMMA HeldKept ==
  ASSUME TypeOK, HeldAlone, NEW t \in Threads, OthersKeep(t),
         \A x \in Held(t)' : /\ state'[x] = "active" /\ x \notin allocated'
                             /\ x \in Held(t) \/ state[x] # "active" \/ x \in allocated,
         \A x \in Pages : state[x] = "active" /\ x \notin Held(t) /\ x \notin allocated
                            => state'[x] = "active" /\ x \notin allocated'
  PROVE  HeldAlone'
<1>1. \A u \in Threads \ {t} : Held(u)' = Held(u)
  BY DEF OthersKeep, Held
<1>2. ASSUME NEW u \in Threads \ {t}, NEW x \in Held(u)
      PROVE  /\ x \in Pages /\ state[x] = "active" /\ x \notin allocated
             /\ x \notin Held(t)
             /\ state'[x] = "active" /\ x \notin allocated'
             /\ x \notin Held(t)'
  <2>1. x \in Pages
    BY HeldIsPage, u \in Threads
  <2>2. state[x] = "active" /\ x \notin allocated /\ x \notin Held(t)
    BY DEF HeldAlone
  <2>3. QED BY <2>1, <2>2
<1>3. ASSUME NEW u \in Threads, NEW x \in Held(u)'
      PROVE  /\ state'[x] = "active" /\ x \notin allocated'
             /\ \A v \in Threads \ {u} : x \notin Held(v)'
  <2>1. CASE u = t
    <3>1. \A v \in Threads \ {t} : x \notin Held(v)'
      BY <1>1, <1>2, <2>1
    <3>2. QED BY <2>1, <3>1
  <2>2. CASE u # t
    <3>1. x \in Held(u)
      BY <2>2, <1>1
    <3>2. \A v \in Threads \ {u} : x \notin Held(v)
      BY <3>1 DEF HeldAlone
    <3>3. \A v \in Threads \ {u} : x \notin Held(v)'
      BY <1>1, <1>2, <2>2, <3>1, <3>2
    <3>4. QED BY <1>2, <2>2, <3>1, <3>3
  <2>3. QED BY <2>1, <2>2
<1>4. QED BY <1>3 DEF HeldAlone

LEMMA LocalsKept ==
  ASSUME TypeOK, HeldAlone, LocalsOK, NEW t \in Threads, OthersKeep(t), LocalOK(t)',
         \A x \in Pages : state[x] = "active" /\ x \notin Held(t) /\ x \notin allocated
                            => size'[x] = size[x]
  PROVE  LocalsOK'
<1>1. SUFFICES ASSUME NEW u \in Threads \ {t} PROVE LocalOK(u)'
  BY DEF LocalsOK
<1>2. LocalOK(u)
  BY DEF LocalsOK
<1>3. \A x \in Held(u) : size'[x] = size[x]
  <2> TAKE x \in Held(u)
  <2>1. x \in Pages
    BY HeldIsPage, u \in Threads
  <2>2. QED BY <2>1 DEF HeldAlone
<1>4. /\ cur[u] # Nil => size'[cur[u]] = size[cur[u]]
      /\ oth[u] # Nil => size'[oth[u]] = size[oth[u]]
  BY <1>3 DEF Held
<1>5. /\ cur'[u] = cur[u] /\ oth'[u] = oth[u] /\ stash'[u] = stash[u]
      /\ pc'[u] = pc[u] /\ want'[u] = want[u]
  BY DEF OthersKeep
<1>6. QED BY <1>2, <1>4, <1>5 DEF LocalOK, WithCur, WithOth

-----------------------------------------------------------------------------
(* The parts of IndInv that speak of lengths and addresses only. *)

Geometry == Live /\ Fenced /\ Disjoint /\ NewFree /\ NewMapped /\ AllMapped

LEMMA GeometryKept ==
  ASSUME Geometry, UNCHANGED <<memVars, size>>,
         \A x \in Pages : state'[x] = "none" <=> state[x] = "none"
  PROVE  Geometry'
<1>1. Live' /\ Fenced' /\ Disjoint'
  BY DEF Geometry, Live, Fenced, Disjoint
<1>2. NewFree' /\ NewMapped'
  BY DEF Geometry, NewFree, NewMapped, memVars
<1>3. AllMapped'
  BY DEF Geometry, AllMapped, InMapped, memVars
<1>4. QED BY <1>1, <1>2, <1>3 DEF Geometry

LEMMA LeafNamesKept ==
  ASSUME TypeOK, LeafNames, UNCHANGED size,
         \A q \in Pages : leaf'[q].tag = "extent" =>
            \/ leaf[q].tag = "extent" /\ leaf'[q].id = leaf[q].id
            \/ /\ leaf'[q].id \in Pages
               /\ size[leaf'[q].id] > 0
               /\ q = leaf'[q].id \/ q = leaf'[q].id + size[leaf'[q].id] - 1
  PROVE  LeafNames'
BY DEF LeafNames

LEMMA Counts ==
  /\ NPages \in Nat /\ NPages > 0
  /\ ChunkPages \in Nat /\ ChunkPages > 0
  /\ SizeMod \in Nat /\ ChunkPages < SizeMod
  /\ \A b \in ChunkBases : b \in Nat /\ b + ChunkPages <= NPages
  /\ \A b, c \in ChunkBases : b < c => b + ChunkPages <= c
BY ExtentsAssumption

LEMMA RequestsPositive == \A n \in Requests \cup {SlabPages} : n \in Nat /\ n > 0
BY ExtentsAssumption

LEMMA SizesAreCounts ==
  ASSUME TypeOK
  PROVE  \A x \in Pages : size[x] \in Nat
BY Counts DEF TypeOK

(* An extent's last page is a page. *)
LEMMA LastIsPage ==
  ASSUME TypeOK, Fenced, NEW x \in Pages, size[x] > 0
  PROVE  /\ Last(x) \in Pages /\ x <= Last(x) /\ size[x] \in Nat
         /\ \A q \in Int : x <= q /\ q <= Last(x) => q \in Pages
BY Counts, SizesAreCounts DEF Fenced, Last, Pages

LEMMA ActivesExist ==
  ASSUME TypeOK, Live, NEW x \in Pages, state[x] \in {"active", "dirty", "muzzy"}
  PROVE  size[x] > 0 /\ size[x] \in Nat
BY SizesAreCounts DEF Live

-----------------------------------------------------------------------------
(* Pools: extents_insert_locked and extents_remove_locked keep each list in *)
(* step with the states.                                                    *)

LEMMA InsertKeeps ==
  ASSUME TypeOK, ListsMatch, NEW p \in Pools, NEW x \in Pages, state[x] = "active",
         Insert(p, x)
  PROVE  /\ ListsMatch'
         /\ lru' \in [Pools -> Seq(Pages)]
         /\ npages' \in [Pools -> Int]
         /\ state' \in [Pages -> {"none", "active"} \cup Pools]
         /\ state'[x] = p
         /\ \A y \in Pages : y # x => state'[y] = state[y]
<1>1. state' = [state EXCEPT ![x] = p] /\ lru' = [lru EXCEPT ![p] = Append(@, x)]
      /\ npages' = [npages EXCEPT ![p] = @ + size[x]]
  BY DEF Insert
<1>2. x \notin Elems(lru[p]) /\ Distinct(lru[p]) /\ lru[p] \in Seq(Pages)
  BY DEF ListsMatch, InPool, Pools, TypeOK
<1>3. /\ lru'[p] \in Seq(Pages) /\ Distinct(lru'[p])
      /\ Elems(lru'[p]) = Elems(lru[p]) \cup {x}
  <2>1. lru'[p] = Append(lru[p], x)
    BY <1>1 DEF TypeOK
  <2>2. QED BY <2>1, <1>2, AppendList
<1>4. lru' \in [Pools -> Seq(Pages)] /\ \A o \in Pools \ {p} : lru'[o] = lru[o]
  BY <1>1, <1>3 DEF TypeOK
<1>5. /\ state' \in [Pages -> {"none", "active"} \cup Pools] /\ state'[x] = p
      /\ \A y \in Pages : y # x => state'[y] = state[y]
  BY <1>1 DEF TypeOK
<1>6. npages' \in [Pools -> Int]
  BY <1>1 DEF TypeOK
<1>7. \A o \in Pools : InPool(o)' = IF o = p THEN InPool(p) \cup {x} ELSE InPool(o)
  BY <1>5 DEF InPool, Pools
<1>8. ListsMatch'
  BY <1>3, <1>4, <1>7 DEF ListsMatch
<1>9. QED BY <1>4, <1>5, <1>6, <1>8

LEMMA ExtractKeeps ==
  ASSUME TypeOK, ListsMatch, NEW p \in Pools, NEW x \in InPool(p), Extract(p, x)
  PROVE  /\ ListsMatch'
         /\ lru' \in [Pools -> Seq(Pages)]
         /\ npages' \in [Pools -> Int]
         /\ state' \in [Pages -> {"none", "active"} \cup Pools]
         /\ state'[x] = "active"
         /\ \A y \in Pages : y # x => state'[y] = state[y]
<1>1. state' = [state EXCEPT ![x] = "active"] /\ lru' = [lru EXCEPT ![p] = Unlink(@, x)]
      /\ npages' = [npages EXCEPT ![p] = @ - size[x]]
  BY DEF Extract
<1>2. x \in Elems(lru[p]) /\ Distinct(lru[p]) /\ lru[p] \in Seq(Pages)
  BY DEF ListsMatch, TypeOK
<1>3. /\ lru'[p] \in Seq(Pages) /\ Distinct(lru'[p])
      /\ Elems(lru'[p]) = Elems(lru[p]) \ {x}
  <2>1. lru'[p] = Unlink(lru[p], x)
    BY <1>1 DEF TypeOK
  <2>2. QED BY <2>1, <1>2, UnlinkList
<1>4. lru' \in [Pools -> Seq(Pages)] /\ \A o \in Pools \ {p} : lru'[o] = lru[o]
  BY <1>1, <1>3 DEF TypeOK
<1>5. /\ state' \in [Pages -> {"none", "active"} \cup Pools] /\ state'[x] = "active"
      /\ \A y \in Pages : y # x => state'[y] = state[y]
  BY <1>1 DEF TypeOK, InPool
<1>6. npages' \in [Pools -> Int]
  <2>1. size[x] \in Int
    BY DEF TypeOK, InPool
  <2>2. QED BY <1>1, <2>1 DEF TypeOK
<1>7. \A o \in Pools : InPool(o)' = IF o = p THEN InPool(p) \ {x} ELSE InPool(o)
  BY <1>5 DEF InPool, Pools
<1>8. ListsMatch'
  BY <1>3, <1>4, <1>7 DEF ListsMatch
<1>9. QED BY <1>4, <1>5, <1>6, <1>8

LEMMA ListsKept ==
  ASSUME ListsMatch, UNCHANGED lru,
         \A x \in Pages : state'[x] = state[x] \/ {state[x], state'[x]} \subseteq {"none", "active"}
  PROVE  ListsMatch'
<1>1. \A p \in Pools : InPool(p)' = InPool(p)
  BY DEF InPool, Pools
<1>2. QED BY <1>1 DEF ListsMatch

-----------------------------------------------------------------------------
(* What a step of thread t has to show for IndInv to hold after it. *)

HeldSafe(t) ==
  \A x \in Held(t)' : /\ state'[x] = "active" /\ x \notin allocated'
                      /\ x \in Held(t) \/ state[x] # "active" \/ x \in allocated

OthersSafe(t) ==
  \A x \in Pages : state[x] = "active" /\ x \notin Held(t) /\ x \notin allocated
                     => /\ state'[x] = "active" /\ x \notin allocated'
                        /\ size'[x] = size[x]

LEMMA StepKeeps ==
  ASSUME IndInv, NEW t \in Threads, OthersKeep(t),
         TypeOK', Geometry', LeafNames', ListsMatch', LocalOK(t)', ClientsActive',
         HeldSafe(t), OthersSafe(t)
  PROVE  IndInv'
<1>1. TypeOK /\ HeldAlone /\ LocalsOK
  BY DEF IndInv
<1>2. HeldAlone'
  BY <1>1, HeldKept DEF HeldSafe, OthersSafe
<1>3. LocalsOK'
  BY <1>1, LocalsKept DEF OthersSafe
<1>4. QED BY <1>2, <1>3 DEF IndInv, Geometry

LEMMA RecycleKeeps ==
  ASSUME IndInv, NEW t \in Threads, NEW p \in Pools, NEW w \in [n : Nat, kind : Kinds],
         NEW miss \in {"muzzy", "new"}, pc[t] \in {"idle", "muzzy"},
         w.n \in Requests \cup {SlabPages}, want' = [want EXCEPT ![t] = w],
         Recycle(t, p, w, miss),
         UNCHANGED <<memVars, size, slab, leaf, allocated, oth, at, decayVars, failed>>
  PROVE  IndInv'
<1>1. TypeOK /\ Geometry /\ LeafNames /\ ListsMatch /\ LocalOK(t) /\ HeldAlone /\ ClientsActive
  BY DEF IndInv, Geometry, LocalsOK
<1>2. cur[t] = Nil /\ oth[t] = Nil
  BY <1>1 DEF LocalOK, WithCur, WithOth
<1>3. CASE Fits(p, w.n) = {} /\ Goto(t, miss) /\ UNCHANGED <<poolVars, state, pool, cur>>
  <2>1. TypeOK'
    BY <1>1, <1>3 DEF TypeOK, memVars, poolVars, decayVars, Goto, Label
  <2>2. Geometry'
    BY <1>1, <1>3, GeometryKept
  <2>3. LeafNames' /\ ListsMatch' /\ ClientsActive'
    BY <1>1, <1>3 DEF LeafNames, ListsMatch, InPool, ClientsActive, poolVars
  <2>4. OthersKeep(t) /\ Held(t)' = Held(t)
    BY <1>1, <1>3 DEF OthersKeep, Held, Goto, decayVars, TypeOK
  <2>5. LocalOK(t)'
    BY <1>1, <1>2, <1>3 DEF LocalOK, Goto, decayVars, TypeOK, WithCur, WithOth, Serving
  <2>6. HeldSafe(t) /\ OthersSafe(t)
    BY <1>1, <1>3, <2>4 DEF HeldAlone, HeldSafe, OthersSafe
  <2>7. QED BY <1>3, <2>1, <2>2, <2>3, <2>4, <2>5, <2>6, StepKeeps
<1>4. CASE \E x \in BestFits(p, w.n) : /\ Extract(p, x)
                                     /\ cur' = [cur EXCEPT ![t] = x]
                                     /\ pool' = [pool EXCEPT ![t] = p]
                                     /\ Goto(t, "split")
  <2>1. PICK x \in BestFits(p, w.n) : /\ Extract(p, x)
                                     /\ cur' = [cur EXCEPT ![t] = x]
                                     /\ pool' = [pool EXCEPT ![t] = p]
                                     /\ Goto(t, "split")
    BY <1>4
  <2>2. x \in InPool(p) /\ x \in Pages /\ state[x] = p /\ size[x] >= w.n
    <3>1. x \in InPool(p) /\ \E c \in PClasses : w.n <= c /\ c <= size[x]
      BY DEF BestFits, Fits
    <3>2. PClasses \subseteq Nat /\ size[x] \in Nat
      BY <3>1, <1>1, SizesAreCounts, ExtentsAssumption DEF InPool
    <3>3. QED BY <3>1, <3>2 DEF InPool
  <2>3. /\ ListsMatch' /\ lru' \in [Pools -> Seq(Pages)] /\ npages' \in [Pools -> Int]
        /\ state' \in [Pages -> {"none", "active"} \cup Pools] /\ state'[x] = "active"
        /\ \A y \in Pages : y # x => state'[y] = state[y]
    BY <1>1, <2>1, <2>2, ExtractKeeps
  <2>4. TypeOK'
    BY <1>1, <2>1, <2>2, <2>3 DEF TypeOK, memVars, decayVars, Goto, Label
  <2>5. Geometry'
    BY <1>1, <2>2, <2>3, GeometryKept DEF Pools
  <2>6. LeafNames' /\ ClientsActive'
    BY <1>1, <2>3 DEF LeafNames, ClientsActive, TypeOK
  <2>7. /\ OthersKeep(t) /\ cur'[t] = x /\ oth'[t] = Nil /\ stash'[t] = stash[t]
        /\ pc'[t] = "split" /\ want'[t] = w
    BY <1>1, <1>2, <2>1 DEF OthersKeep, Goto, decayVars, TypeOK
  <2>8. x \notin Held(t) /\ Held(t)' = Held(t) \cup {x}
    <3>1. x \notin Held(t)
      BY <1>1, <2>2 DEF HeldAlone, Pools
    <3>2. x # Nil
      BY <2>2, Counts DEF Pages, Nil
    <3>3. QED BY <3>1, <3>2, <2>7, <1>2 DEF Held
  <2>9. LocalOK(t)'
    <3>1. x # Nil /\ x \notin Elems(stash[t]) /\ Nil \notin Elems(stash[t])
      BY <1>1, <1>2, <2>2, <2>8, Counts DEF Held, Pages, Nil, LocalOK
    <3>2. QED BY <1>1, <2>2, <2>7, <3>1 DEF LocalOK, WithCur, WithOth, Serving
  <2>10. HeldSafe(t)
    <3>1. x \notin allocated /\ state[x] # "active"
      BY <1>1, <2>2 DEF ClientsActive, Pools
    <3>2. \A y \in Held(t) : y \in Pages /\ state[y] = "active" /\ y \notin allocated
      BY <1>1, HeldIsPage DEF HeldAlone
    <3>3. QED BY <2>3, <2>8, <3>1, <3>2 DEF HeldSafe
  <2>11. OthersSafe(t)
    BY <2>2, <2>3 DEF OthersSafe, Pools
  <2>12. QED BY <2>3, <2>4, <2>5, <2>6, <2>7, <2>9, <2>10, <2>11, StepKeeps
<1>5. QED BY <1>3, <1>4 DEF Recycle

LEMMA AllocDirtyKeeps ==
  ASSUME IndInv, NEW t \in Threads, NEW n \in Requests \cup {SlabPages},
         NEW k \in Kinds, AllocDirty(t, n, k), UNCHANGED failed
  PROVE  IndInv'
<1> DEFINE w == [n |-> n, kind |-> k]
<1>1. w \in [n : Nat, kind : Kinds] /\ w.n = n
  BY ExtentsAssumption
<1>2. /\ pc[t] = "idle" /\ want' = [want EXCEPT ![t] = w]
      /\ Recycle(t, "dirty", w, "muzzy")
      /\ UNCHANGED <<memVars, size, slab, leaf, allocated, oth, at, decayVars, failed>>
  BY DEF AllocDirty
<1> HIDE DEF w
<1>3. QED BY <1>1, <1>2, RecycleKeeps DEF Pools

LEMMA AllocMuzzyKeeps ==
  ASSUME IndInv, NEW t \in Threads, AllocMuzzy(t), UNCHANGED failed
  PROVE  IndInv'
<1>1. TypeOK /\ LocalOK(t)
  BY DEF IndInv, LocalsOK
<1>2. /\ want[t] \in [n : Nat, kind : Kinds]
      /\ want[t].n \in Requests \cup {SlabPages}
  BY <1>1 DEF AllocMuzzy, TypeOK, LocalOK, Serving
<1>3. want' = [want EXCEPT ![t] = want[t]]
  BY <1>1 DEF AllocMuzzy, TypeOK
<1>4. /\ pc[t] = "muzzy" /\ Recycle(t, "muzzy", want[t], "new")
      /\ UNCHANGED <<memVars, size, slab, leaf, allocated, oth, at, decayVars, failed>>
  BY DEF AllocMuzzy
<1>5. QED BY <1>2, <1>3, <1>4, RecycleKeeps DEF Pools

-----------------------------------------------------------------------------
(* Fresh memory. *)

LEMMA BumpKeeps ==
  ASSUME IndInv, NEW t \in Threads, AllocBump(t), UNCHANGED failed
  PROVE  IndInv'
<1> DEFINE n == want[t].n
           y == newAddr
<1>1. TypeOK /\ Geometry /\ LeafNames /\ ListsMatch /\ LocalOK(t) /\ HeldAlone /\ ClientsActive
  BY DEF IndInv, Geometry, LocalsOK
<1>2. /\ n \in Nat /\ n > 0 /\ n <= newN /\ y + n <= NPages
      /\ newN \in Nat /\ newN < SizeMod /\ y \in Nat
  <2>1. want[t].n \in Requests \cup {SlabPages}
    BY <1>1 DEF AllocBump, LocalOK, Serving
  <2>2. newN \in Nat /\ newN < SizeMod /\ newAddr \in Nat
    BY <1>1, Counts DEF TypeOK
  <2>3. QED BY <2>1, <2>2, RequestsPositive DEF AllocBump, Room
<1>3. y \in Pages /\ y # Nil
  BY <1>2, Counts DEF Pages, Nil
<1>4. cur[t] = Nil /\ oth[t] = Nil
  BY <1>1 DEF LocalOK, WithCur, WithOth, AllocBump
<1>5. \A x \in Pages : size[x] \in Nat
  BY <1>1, SizesAreCounts
<1>6. size[y] = 0 /\ state[y] = "none"
  BY <1>1, <1>2, <1>3, <1>5 DEF Geometry, NewFree, Live
<1>7. /\ newAddr' = y + n /\ newN' = newN - n /\ mapped' = mapped
      /\ size' = [size EXCEPT ![y] = n] /\ state' = [state EXCEPT ![y] = "active"]
      /\ slab' = [slab EXCEPT ![y] = (want[t].kind = "slab")]
      /\ cur' = [cur EXCEPT ![t] = y] /\ pc' = [pc EXCEPT ![t] = "register"]
      /\ UNCHANGED <<leaf, lru, npages, allocated, oth, want, pool, at,
                    purging, limit, quota, stash>>
  BY DEF AllocBump, Goto, poolVars, runVars, decayVars
<1> HIDE DEF n, y
<1>8. /\ size'[y] = n /\ state'[y] = "active"
      /\ \A x \in Pages : x # y => size'[x] = size[x] /\ state'[x] = state[x]
  BY <1>1, <1>3, <1>7 DEF TypeOK
<1>9. TypeOK'
  <2>1. newAddr' \in 0 .. NPages /\ newN' \in 0 .. SizeMod - 1
    BY <1>2, <1>7, Counts
  <2>2. size' \in [Pages -> 0 .. NPages] /\ state' \in [Pages -> {"none", "active"} \cup Pools]
    BY <1>1, <1>2, <1>3, <1>7, Counts DEF TypeOK
  <2>3. slab' \in [Pages -> BOOLEAN] /\ cur' \in [Threads -> Pages \cup {Nil}]
        /\ pc' \in [Threads -> Label]
    BY <1>1, <1>3, <1>7 DEF TypeOK, Label
  <2>4. QED BY <1>1, <1>7, <2>1, <2>2, <2>3 DEF TypeOK
<1>10. Geometry'
  <2>1. Live' /\ Fenced'
    BY <1>1, <1>2, <1>8 DEF Geometry, Live, Fenced
  <2>2. Disjoint'
    <3>1. SUFFICES ASSUME NEW a \in Pages, NEW b \in Pages, a < b, size'[a] > 0, size'[b] > 0
                   PROVE  a + size'[a] <= b
      BY DEF Disjoint
    <3>2. CASE a = y
      <4>1. newAddr + newN <= b
        BY <1>1, <1>2, <1>5, <1>8, <3>1, <3>2 DEF Geometry, NewFree, y, Pages
      <4>2. QED BY <4>1, <1>2, <1>8, <3>2 DEF y, Pages
    <3>3. CASE b = y
      <4>1. a + size[a] <= newAddr \/ newAddr + newN <= a
        BY <1>1, <1>2, <1>8, <3>1, <3>3 DEF Geometry, NewFree
      <4>2. QED BY <4>1, <1>2, <1>5, <1>8, <3>1, <3>3 DEF y, Pages
    <3>4. CASE a # y /\ b # y
      BY <1>1, <1>8, <3>1, <3>4 DEF Geometry, Disjoint
    <3>5. QED BY <3>2, <3>3, <3>4
  <2>3. NewFree'
    <3>1. SUFFICES ASSUME NEW x \in Pages, size'[x] > 0
                   PROVE  x + size'[x] <= newAddr' \/ newAddr' + newN' <= x
      BY DEF NewFree
    <3>2. CASE x = y
      BY <1>2, <1>7, <1>8, <3>2
    <3>3. CASE x # y
      <4>1. x + size[x] <= newAddr \/ newAddr + newN <= x
        BY <1>1, <1>2, <1>8, <3>1, <3>3 DEF Geometry, NewFree
      <4>2. QED BY <4>1, <1>2, <1>5, <1>7, <1>8, <3>3 DEF y, Pages
    <3>4. QED BY <3>2, <3>3
  <2>4. NewMapped'
    <3>1. PICK b \in mapped : b <= newAddr /\ newAddr + newN = b + ChunkPages
      BY <1>1 DEF Geometry, NewMapped
    <3>2. b \in Nat
      BY <1>1, Counts DEF TypeOK
    <3>3. b <= newAddr' /\ newAddr' + newN' = b + ChunkPages
      BY <3>1, <3>2, <1>2, <1>7, Counts DEF y
    <3>4. QED BY <3>3, <1>7 DEF NewMapped
  <2>5. AllMapped'
    <3>1. SUFFICES ASSUME NEW x \in Pages, NEW q \in Pages, x <= q, q < x + size'[x]
                   PROVE  \E b \in mapped : b <= q /\ q < b + ChunkPages
      BY <1>7 DEF AllMapped, InMapped
    <3>2. CASE x = y
      <4>1. PICK b \in mapped : b <= newAddr /\ newAddr + newN = b + ChunkPages
        BY <1>1 DEF Geometry, NewMapped
      <4>2. b \in Nat
        BY <1>1, Counts DEF TypeOK
      <4>3. b <= q /\ q < b + ChunkPages
        BY <3>1, <3>2, <4>1, <4>2, <1>2, <1>8, Counts DEF y, Pages
      <4>4. QED BY <4>3
    <3>3. CASE x # y
      BY <1>1, <1>8, <3>1, <3>3 DEF Geometry, AllMapped, InMapped
    <3>4. QED BY <3>2, <3>3
  <2>6. QED BY <2>1, <2>2, <2>3, <2>4, <2>5 DEF Geometry
<1>11. LeafNames' /\ ClientsActive'
  <2>1. LeafNames'
    BY <1>1, <1>6, <1>7, <1>8 DEF LeafNames
  <2>2. ClientsActive'
    BY <1>1, <1>6, <1>7, <1>8 DEF ClientsActive, TypeOK
  <2>3. QED BY <2>1, <2>2
<1>12. ListsMatch'
  BY <1>1, <1>6, <1>7, <1>8, ListsKept
<1>13. /\ OthersKeep(t) /\ cur'[t] = y /\ oth'[t] = Nil /\ stash'[t] = stash[t]
       /\ pc'[t] = "register" /\ want'[t] = want[t]
  BY <1>1, <1>4, <1>7 DEF OthersKeep, TypeOK
<1>14. y \notin Held(t) /\ y \notin allocated
  BY <1>1, <1>6 DEF HeldAlone, ClientsActive
<1>15. Held(t)' = Held(t) \cup {y}
  BY <1>3, <1>4, <1>13 DEF Held
<1>16. LocalOK(t)'
  <2>1. y \notin Elems(stash[t]) /\ Nil \notin Elems(stash[t])
    BY <1>1, <1>3, <1>4, <1>14 DEF Held, LocalOK
  <2>2. pc[t] = "new"
    BY DEF AllocBump
  <2>3. QED BY <1>1, <1>3, <1>8, <1>13, <2>1, <2>2 DEF LocalOK, WithCur, WithOth, Serving, n
<1>17. HeldSafe(t)
  <2>1. \A x \in Held(t) : x \in Pages /\ state[x] = "active" /\ x \notin allocated
    BY <1>1, HeldIsPage DEF HeldAlone
  <2>2. QED BY <1>6, <1>7, <1>8, <1>14, <1>15, <2>1 DEF HeldSafe
<1>18. OthersSafe(t)
  BY <1>6, <1>7, <1>8 DEF OthersSafe
<1>19. QED BY <1>9, <1>10, <1>11, <1>12, <1>13, <1>16, <1>17, <1>18, StepKeeps

LEMMA ChunkKeeps ==
  ASSUME RequestsFitChunk, IndInv, NEW t \in Threads, NEW b \in ChunkBases \ mapped,
         AllocChunk(t, b), UNCHANGED failed
  PROVE  IndInv'
<1> DEFINE n == want[t].n
           y == newAddr
           m == newN
<1>1. TypeOK /\ Geometry /\ LeafNames /\ ListsMatch /\ LocalOK(t) /\ HeldAlone /\ ClientsActive
  BY DEF IndInv, Geometry, LocalsOK
<1>2. /\ n \in Nat /\ n > 0 /\ n <= ChunkPages /\ m \in Nat /\ y \in Nat
      /\ b \in Nat /\ b + ChunkPages <= NPages
  <2>1. want[t].n \in Requests \cup {SlabPages}
    BY <1>1 DEF AllocChunk, LocalOK, Serving
  <2>2. newN \in Nat /\ newAddr \in Nat
    BY <1>1, Counts DEF TypeOK
  <2>3. QED BY <2>1, <2>2, RequestsPositive, Counts DEF RequestsFitChunk
<1>3. b \in Pages /\ b # Nil
  BY <1>2, Counts DEF Pages, Nil
<1>4. cur[t] = Nil /\ oth[t] = Nil
  BY <1>1 DEF LocalOK, WithCur, WithOth, AllocChunk
<1>5. \A x \in Pages : size[x] \in Nat
  BY <1>1, SizesAreCounts
<1>6. PICK c \in mapped : c <= y /\ y + m = c + ChunkPages
  BY <1>1 DEF Geometry, NewMapped
(* The new chunk lies apart from every mapped one.                          *)
<1>7. /\ \A d \in mapped : d \in Nat /\ (d + ChunkPages <= b \/ b + ChunkPages <= d)
      /\ c \in Nat /\ c + ChunkPages <= NPages
  <2>1. mapped \subseteq ChunkBases
    BY <1>1 DEF TypeOK
  <2>2. QED BY <2>1, Counts
<1>8. \A x \in Pages : size[x] > 0 => x + size[x] <= b \/ b + ChunkPages <= x
  <2>1. SUFFICES ASSUME NEW x \in Pages, size[x] > 0, b < x + size[x], x < b + ChunkPages
                 PROVE  FALSE
    BY <1>2, <1>5, Counts DEF Pages
  <2>2. PICK q \in Pages : b <= q /\ q < b + ChunkPages /\ x <= q /\ q < x + size[x]
    <3>1. CASE x <= b
      BY <1>2, <1>3, <2>1, <3>1, <1>5, Counts DEF Pages
    <3>2. CASE b < x
      BY <1>2, <2>1, <3>2, <1>5, Counts DEF Pages
    <3>3. QED BY <3>1, <3>2, <1>2 DEF Pages
  <2>3. PICK d \in mapped : d <= q /\ q < d + ChunkPages
    BY <1>1, <2>2 DEF Geometry, AllMapped, InMapped
  <2>4. QED BY <2>2, <2>3, <1>2, <1>7, Counts DEF Pages
<1>9. y + m <= b \/ b + ChunkPages <= y
  BY <1>2, <1>6, <1>7, Counts
<1>10. size[b] = 0 /\ state[b] = "none"
  BY <1>1, <1>2, <1>3, <1>5, <1>8, Counts DEF Geometry, Live
<1>11. /\ mapped' = mapped \cup {b} /\ newAddr' = b + n /\ newN' = ChunkPages - n
       /\ slab' = [slab EXCEPT ![b] = (want[t].kind = "slab")]
       /\ cur' = [cur EXCEPT ![t] = b] /\ pc' = [pc EXCEPT ![t] = "register"]
       /\ UNCHANGED <<allocated, oth, want, pool, at, purging, limit, quota, stash>>
  <2>1. ChunkPages - n \in 0 .. SizeMod - 1
    BY <1>2, Counts
  <2>2. (ChunkPages - n) % SizeMod = ChunkPages - n
    BY <2>1, Counts
  <2>3. QED BY <2>2 DEF AllocChunk, Goto, runVars, decayVars
<1>12. ASSUME m \in PClasses
       PROVE  /\ m > 0 /\ y \in Pages /\ y # Nil /\ y # b /\ y + m - 1 \in Pages
              /\ size[y] = 0 /\ state[y] = "none"
              /\ y + m <= NPages
  <2>1. m > 0
    BY <1>12, ExtentsAssumption
  <2>2. QED BY <2>1, <1>1, <1>2, <1>5, <1>6, <1>7, <1>9, Counts DEF Geometry, NewFree, Live, Pages, Nil
<1>13. ASSUME m \in PClasses
       PROVE  /\ size' = [size EXCEPT ![y] = m, ![b] = n]
              /\ state' = [state EXCEPT ![y] = "dirty", ![b] = "active"]
              /\ leaf' = SetEnds(leaf, y, m, ExtLeaf(y, FALSE))
              /\ lru' = [lru EXCEPT !["dirty"] = Append(@, y)]
              /\ npages' = [npages EXCEPT !["dirty"] = @ + m]
  BY <1>13 DEF AllocChunk, KeepRest
<1>14. ASSUME m \notin PClasses
       PROVE  /\ size' = [size EXCEPT ![b] = n]
              /\ state' = [state EXCEPT ![b] = "active"]
              /\ UNCHANGED <<leaf, lru, npages>>
  BY <1>14 DEF AllocChunk, KeepRest, poolVars
<1> HIDE DEF n, y, m
<1>15. /\ size' \in [Pages -> 0 .. NPages]
       /\ state' \in [Pages -> {"none", "active"} \cup Pools]
       /\ size'[b] = n /\ state'[b] = "active"
       /\ \A x \in Pages : x # b => \/ size'[x] = size[x] /\ state'[x] = state[x]
                                    \/ /\ m \in PClasses /\ x = y
                                       /\ size'[x] = m /\ state'[x] = "dirty"
  <2> DEFINE States == {"none", "active"} \cup Pools
  <2>1. /\ size \in [Pages -> 0 .. NPages] /\ state \in [Pages -> States]
        /\ "dirty" \in States /\ "active" \in States /\ n \in 0 .. NPages
    BY <1>1, <1>2, Counts DEF TypeOK, Pools
  <2> HIDE DEF States
  <2>2. CASE m \in PClasses
    <3>1. m \in 0 .. NPages /\ y \in Pages /\ y # b
      BY <1>2, <1>12, <2>2, Counts
    <3>2. /\ size' = [size EXCEPT ![y] = m, ![b] = n]
          /\ state' = [state EXCEPT ![y] = "dirty", ![b] = "active"]
      BY <1>13, <2>2
    <3>3. size' \in [Pages -> 0 .. NPages] /\ state' \in [Pages -> States]
      BY <3>1, <3>2, <2>1
    <3>4. QED BY <3>1, <3>2, <3>3, <2>1, <2>2, <1>3 DEF States
  <2>3. CASE m \notin PClasses
    <3>1. /\ size' = [size EXCEPT ![b] = n] /\ state' = [state EXCEPT ![b] = "active"]
      BY <1>14, <2>3
    <3>2. size' \in [Pages -> 0 .. NPages] /\ state' \in [Pages -> States]
      BY <3>1, <2>1
    <3>3. QED BY <3>1, <3>2, <2>1, <1>3 DEF States
  <2>4. QED BY <2>2, <2>3
<1>16. leaf' \in [Pages -> [tag : {"null", "extent", "vslab"}, id : Pages \cup {Nil}, slab : BOOLEAN]]
       /\ \A q \in Pages :
            \/ leaf'[q] = leaf[q]
            \/ /\ m \in PClasses /\ leaf'[q].tag = "extent" /\ leaf'[q].id = y
               /\ q = y \/ q = y + m - 1
  <2>1. CASE m \in PClasses
    <3> DEFINE Leaves == [tag : {"null", "extent", "vslab"}, id : Pages \cup {Nil}, slab : BOOLEAN]
               v == ExtLeaf(y, FALSE)
    <3>1. y \in Pages /\ y + m - 1 \in Pages /\ leaf' = [leaf EXCEPT ![y] = v, ![y + m - 1] = v]
      BY <2>1, <1>12, <1>13 DEF SetEnds
    <3>2. v \in Leaves /\ v.tag = "extent" /\ v.id = y
      BY <3>1 DEF ExtLeaf
    <3>3. leaf \in [Pages -> Leaves]
      BY <1>1 DEF TypeOK
    <3> HIDE DEF Leaves, v
    <3>4. leaf' \in [Pages -> Leaves]
      BY <3>1, <3>2, <3>3
    <3>5. \A q \in Pages : leaf'[q] = IF q = y \/ q = y + m - 1 THEN v ELSE leaf[q]
      BY <3>1, <3>3
    <3>6. QED BY <2>1, <3>2, <3>4, <3>5 DEF Leaves
  <2>2. CASE m \notin PClasses
    BY <2>2, <1>1, <1>14 DEF TypeOK
  <2>3. QED BY <2>1, <2>2
<1>17. /\ ListsMatch' /\ lru' \in [Pools -> Seq(Pages)] /\ npages' \in [Pools -> Int]
  <2>1. CASE m \in PClasses
    <3>1. y \notin Elems(lru["dirty"]) /\ Distinct(lru["dirty"]) /\ lru["dirty"] \in Seq(Pages)
      BY <1>1, <1>12, <2>1 DEF ListsMatch, InPool, Pools, TypeOK
    <3>2. lru'["dirty"] = Append(lru["dirty"], y) /\ lru'["muzzy"] = lru["muzzy"]
      BY <1>1, <1>13, <2>1 DEF TypeOK, Pools
    <3>3. /\ lru'["dirty"] \in Seq(Pages) /\ Distinct(lru'["dirty"])
          /\ Elems(lru'["dirty"]) = Elems(lru["dirty"]) \cup {y}
      BY <3>1, <3>2, <1>12, <2>1, AppendList
    <3>4. lru' \in [Pools -> Seq(Pages)] /\ npages' \in [Pools -> Int]
      <4>1. lru \in [Pools -> Seq(Pages)] /\ npages \in [Pools -> Int]
        BY <1>1 DEF TypeOK
      <4>2. lru' = [lru EXCEPT !["dirty"] = lru'["dirty"]] /\ npages' = [npages EXCEPT !["dirty"] = @ + m]
        BY <4>1, <1>13, <2>1, <3>2 DEF Pools
      <4>3. QED BY <4>1, <4>2, <3>3, <1>2 DEF Pools
    <3>5. /\ InPool("dirty")' = InPool("dirty") \cup {y}
          /\ InPool("muzzy")' = InPool("muzzy")
      <4>1. state'[y] = "dirty" /\ y # b /\ y \in Pages /\ state[y] = "none"
        BY <1>1, <1>3, <1>12, <1>13, <2>1 DEF TypeOK
      <4>2. QED BY <4>1, <1>3, <1>10, <1>15 DEF InPool
    <3>6. QED BY <1>1, <3>2, <3>3, <3>4, <3>5 DEF ListsMatch, Pools
  <2>2. CASE m \notin PClasses
    <3>1. \A x \in Pages : state'[x] = state[x] \/ {state[x], state'[x]} \subseteq {"none", "active"}
      BY <1>10, <1>15, <2>2
    <3>2. QED BY <1>1, <1>14, <2>2, <3>1, ListsKept DEF TypeOK
  <2>3. QED BY <2>1, <2>2
<1>18. TypeOK'
  <2>1. newAddr' \in 0 .. NPages /\ newN' \in 0 .. SizeMod - 1 /\ mapped' \subseteq ChunkBases
    BY <1>1, <1>2, <1>11, Counts DEF TypeOK
  <2>2. slab' \in [Pages -> BOOLEAN] /\ cur' \in [Threads -> Pages \cup {Nil}]
        /\ pc' \in [Threads -> Label]
    BY <1>1, <1>3, <1>11 DEF TypeOK, Label
  <2>3. QED BY <1>1, <1>11, <1>15, <1>16, <1>17, <2>1, <2>2 DEF TypeOK
<1>19. Geometry'
  <2>1. Live' /\ Fenced'
    <3>1. \A x \in Pages : x # b =>
            /\ size'[x] > 0 <=> state'[x] # "none"
            /\ x + size'[x] <= NPages
      BY <1>1, <1>12, <1>15 DEF Geometry, Live, Fenced
    <3>2. QED BY <1>2, <1>3, <1>15, <3>1, Counts DEF Live, Fenced
  <2>2. \A x \in Pages : size'[x] > 0 /\ x # b =>
          x + size'[x] <= b \/ b + ChunkPages <= x
    BY <1>8, <1>9, <1>15
  <2>3. Disjoint'
    <3>1. SUFFICES ASSUME NEW e \in Pages, NEW f \in Pages, e < f, size'[e] > 0, size'[f] > 0
                   PROVE  e + size'[e] <= f
      BY DEF Disjoint
    <3>2. CASE e = b
      BY <2>2, <3>1, <3>2, <1>2, <1>15, Counts DEF Pages
    <3>3. CASE f = b
      BY <2>2, <3>1, <3>3, <1>2, <1>15, Counts DEF Pages
    <3>4. CASE e # b /\ f # b
      <4>1. CASE size'[e] = size[e] /\ size'[f] = size[f]
        BY <1>1, <3>1, <4>1 DEF Geometry, Disjoint
      <4>2. CASE m \in PClasses /\ e = y /\ size'[e] = m
        <5>1. f + size[f] <= y \/ y + m <= f
          BY <1>1, <1>12, <1>15, <3>1, <3>4, <4>2 DEF Geometry, NewFree, y, m, Pages
        <5>2. QED BY <5>1, <4>2, <3>1, <1>2, <1>5 DEF Pages
      <4>3. CASE m \in PClasses /\ f = y /\ size'[f] = m
        <5>1. size'[e] = size[e]
          BY <1>15, <3>1, <3>4, <4>3 DEF Pages
        <5>2. e + size[e] <= y \/ y + m <= e
          BY <1>1, <1>12, <3>1, <4>3, <5>1 DEF Geometry, NewFree, y, m
        <5>3. QED BY <5>1, <5>2, <4>3, <3>1, <1>2, <1>5 DEF Pages
      <4>4. QED BY <1>15, <3>1, <3>4, <4>1, <4>2, <4>3
    <3>5. QED BY <3>2, <3>3, <3>4
  <2>4. NewFree'
    <3>1. SUFFICES ASSUME NEW x \in Pages, size'[x] > 0
                   PROVE  x + size'[x] <= newAddr' \/ newAddr' + newN' <= x
      BY DEF NewFree
    <3>2. CASE x = b
      BY <3>2, <1>2, <1>11, <1>15
    <3>3. CASE x # b
      <4>1. size'[x] \in Nat
        BY <1>2, <1>5, <1>15
      <4>2. QED BY <3>1, <3>3, <2>2, <4>1, <1>2, <1>11, Counts DEF Pages
    <3>4. QED BY <3>2, <3>3
  <2>5. NewMapped'
    <3>1. b \in mapped' /\ b <= newAddr' /\ newAddr' + newN' = b + ChunkPages
      BY <1>2, <1>11, Counts
    <3>2. QED BY <3>1 DEF NewMapped
  <2>6. AllMapped'
    <3>1. SUFFICES ASSUME NEW x \in Pages, NEW q \in Pages, x <= q, q < x + size'[x]
                   PROVE  \E d \in mapped \cup {b} : d <= q /\ q < d + ChunkPages
      BY <1>11 DEF AllMapped, InMapped
    <3>2. CASE x = b
      <4>1. b <= q /\ q < b + ChunkPages
        BY <3>1, <3>2, <1>2, <1>15, Counts DEF Pages
      <4>2. QED BY <4>1
    <3>3. CASE x # b /\ size'[x] = size[x]
      <4>1. PICK d \in mapped : d <= q /\ q < d + ChunkPages
        BY <1>1, <3>1, <3>3 DEF Geometry, AllMapped, InMapped
      <4>2. QED BY <4>1
    <3>4. CASE m \in PClasses /\ x = y /\ size'[x] = m
      <4>1. c <= q /\ q < c + ChunkPages
        BY <3>1, <3>4, <1>2, <1>6, <1>7, Counts DEF Pages
      <4>2. QED BY <4>1
    <3>5. QED BY <1>15, <3>2, <3>3, <3>4
  <2>7. QED BY <2>1, <2>3, <2>4, <2>5, <2>6 DEF Geometry
<1>20. LeafNames'
  <2>1. SUFFICES ASSUME NEW q \in Pages, leaf'[q].tag = "extent"
                 PROVE  /\ leaf'[q].id \in Pages
                        /\ size'[leaf'[q].id] > 0
                        /\ q = leaf'[q].id \/ q = leaf'[q].id + size'[leaf'[q].id] - 1
    BY DEF LeafNames
  <2>2. CASE leaf'[q] = leaf[q]
    <3>1. /\ leaf[q].id \in Pages /\ size[leaf[q].id] > 0
          /\ q = leaf[q].id \/ q = leaf[q].id + size[leaf[q].id] - 1
      BY <1>1, <2>1, <2>2 DEF LeafNames
    <3>2. leaf[q].id # b /\ (m \in PClasses => leaf[q].id # y)
      BY <3>1, <1>10, <1>12
    <3>3. QED BY <2>2, <3>1, <3>2, <1>15
  <2>3. CASE /\ m \in PClasses /\ leaf'[q].tag = "extent" /\ leaf'[q].id = y
             /\ q = y \/ q = y + m - 1
    <3>1. size'[y] = m
      BY <2>3, <1>12, <1>13, <1>15
    <3>2. QED BY <2>3, <3>1, <1>12
  <2>4. QED BY <1>16, <2>2, <2>3
<1>21. ClientsActive'
  BY <1>1, <1>11, <1>12, <1>15 DEF ClientsActive, TypeOK
<1>22. /\ OthersKeep(t) /\ cur'[t] = b /\ oth'[t] = Nil /\ stash'[t] = stash[t]
       /\ pc'[t] = "register" /\ want'[t] = want[t]
  BY <1>1, <1>4, <1>11 DEF OthersKeep, TypeOK
<1>23. b \notin Held(t) /\ b \notin allocated
  BY <1>1, <1>10 DEF HeldAlone, ClientsActive
<1>24. Held(t)' = Held(t) \cup {b}
  BY <1>3, <1>4, <1>22 DEF Held
<1>25. LocalOK(t)'
  <2>1. b \notin Elems(stash[t]) /\ Nil \notin Elems(stash[t])
    BY <1>1, <1>3, <1>4, <1>23 DEF Held, LocalOK
  <2>2. pc[t] = "new"
    BY DEF AllocChunk
  <2>3. QED BY <1>1, <1>3, <1>15, <1>22, <2>1, <2>2 DEF LocalOK, WithCur, WithOth, Serving, n
<1>26. HeldSafe(t)
  <2>1. \A x \in Held(t) : x \in Pages /\ state[x] = "active" /\ x \notin allocated
    BY <1>1, HeldIsPage DEF HeldAlone
  <2>2. QED BY <1>10, <1>11, <1>12, <1>15, <1>23, <1>24, <2>1 DEF HeldSafe
<1>27. OthersSafe(t)
  BY <1>10, <1>11, <1>12, <1>15 DEF OthersSafe
<1>28. QED BY <1>17, <1>18, <1>19, <1>20, <1>21, <1>22, <1>25, <1>26, <1>27, StepKeeps

-----------------------------------------------------------------------------
(* Serving an allocation from an extent in hand. *)

Leaves == [tag : {"null", "extent", "vslab"}, id : Pages \cup {Nil}, slab : BOOLEAN]

LEMMA EndsSet ==
  ASSUME NEW f \in [Pages -> Leaves], NEW x \in Pages, NEW n \in Nat, x + n - 1 \in Pages,
         NEW v \in Leaves
  PROVE  /\ SetEnds(f, x, n, v) \in [Pages -> Leaves]
         /\ \A q \in Pages : SetEnds(f, x, n, v)[q] =
              IF q = x \/ q = x + n - 1 THEN v ELSE f[q]
BY DEF SetEnds

LEMMA AllSet ==
  ASSUME NEW f \in [Pages -> Leaves], NEW x \in Pages, NEW n \in Nat, NEW v \in Leaves
  PROVE  /\ SetAll(f, x, n, v) \in [Pages -> Leaves]
         /\ \A q \in Pages : SetAll(f, x, n, v)[q] =
              IF q \in x .. x + n - 1 THEN v ELSE f[q]
BY DEF SetAll

LEMMA SlabBitSet ==
  ASSUME NEW f \in [Pages -> Leaves], NEW x \in Pages, NEW s \in BOOLEAN
  PROVE  /\ SetSlabBit(f, x, s) \in [Pages -> Leaves]
         /\ \A q \in Pages : /\ SetSlabBit(f, x, s)[q].tag = f[q].tag
                            /\ SetSlabBit(f, x, s)[q].id = f[q].id
<1> DEFINE g == SetSlabBit(f, x, s)
<1>1. g = [f EXCEPT ![x] = [f[x] EXCEPT !.slab = s]]
  BY DEF SetSlabBit
<1>2. [f[x] EXCEPT !.slab = s] \in Leaves
  BY DEF Leaves
<1>3. \A q \in Pages : g[q] = IF q = x THEN [f[x] EXCEPT !.slab = s] ELSE f[q]
  BY <1>1
<1>4. [f[x] EXCEPT !.slab = s].tag = f[x].tag /\ [f[x] EXCEPT !.slab = s].id = f[x].id
  BY DEF Leaves
<1>5. QED BY <1>1, <1>2, <1>3, <1>4

LEMMA LeafKinds ==
  ASSUME NEW x \in Pages, NEW s \in BOOLEAN
  PROVE  /\ ExtLeaf(x, s) \in Leaves /\ ExtLeaf(x, s).tag = "extent" /\ ExtLeaf(x, s).id = x
         /\ SlabLeaf(x) \in Leaves /\ SlabLeaf(x).tag = "vslab"
         /\ NullLeaf \in Leaves /\ NullLeaf.tag = "null"
BY DEF ExtLeaf, SlabLeaf, NullLeaf, Leaves

LEMMA HandOverKeeps ==
  ASSUME IndInv, NEW t \in Threads, pc[t] \in {"register", "commit"}, HandOver(t),
         slab' \in [Pages -> BOOLEAN], leaf' \in [Pages -> Leaves], LeafNames',
         UNCHANGED <<memVars, size, state, poolVars, oth, at, decayVars, failed>>
  PROVE  IndInv'
<1>1. TypeOK /\ Geometry /\ LeafNames /\ ListsMatch /\ LocalOK(t) /\ HeldAlone /\ ClientsActive
  BY DEF IndInv, Geometry, LocalsOK
<1>2. cur[t] # Nil /\ oth[t] = Nil
  BY <1>1 DEF LocalOK, WithCur, WithOth
<1>3. cur[t] \in Pages /\ cur[t] \in Held(t) /\ state[cur[t]] = "active"
  BY <1>1, <1>2 DEF TypeOK, Held, HeldAlone
<1>4. /\ allocated' = allocated \cup {cur[t]} /\ want' = [want EXCEPT ![t] = NoWant]
      /\ pool' = [pool EXCEPT ![t] = "dirty"] /\ cur' = [cur EXCEPT ![t] = Nil]
      /\ pc' = [pc EXCEPT ![t] = "idle"]
      /\ UNCHANGED <<mapped, newAddr, newN, size, state, lru, npages, oth, at,
                    purging, limit, quota, stash, failed>>
  BY DEF HandOver, Goto, memVars, poolVars, decayVars
<1>5. TypeOK'
  BY <1>1, <1>3, <1>4 DEF TypeOK, Leaves, Label, NoWant, Kinds, Pools
<1>6. Geometry' /\ ListsMatch'
  BY <1>1, <1>4, GeometryKept, ListsKept DEF memVars
<1>7. ClientsActive'
  BY <1>1, <1>3, <1>4 DEF ClientsActive
<1>8. /\ OthersKeep(t) /\ cur'[t] = Nil /\ oth'[t] = Nil /\ stash'[t] = stash[t]
      /\ pc'[t] = "idle"
  BY <1>1, <1>2, <1>4 DEF OthersKeep, TypeOK
<1>9. Held(t)' = Elems(stash[t]) /\ Nil \notin Elems(stash[t])
      /\ cur[t] \notin Elems(stash[t]) /\ Elems(stash[t]) \subseteq Held(t)
  <2>1. Nil \notin Elems(stash[t]) /\ cur[t] \notin Elems(stash[t])
    BY <1>1, <1>2 DEF LocalOK
  <2>2. QED BY <2>1, <1>8 DEF Held
<1>10. LocalOK(t)'
  BY <1>1, <1>2, <1>8, <1>9 DEF LocalOK, WithCur, WithOth, Serving
<1>11. HeldSafe(t)
  BY <1>1, <1>4, <1>9 DEF HeldSafe, HeldAlone
<1>12. OthersSafe(t)
  BY <1>3, <1>4 DEF OthersSafe
<1>13. QED BY <1>5, <1>6, <1>7, <1>8, <1>10, <1>11, <1>12, StepKeeps

LEMMA RegisterKeeps ==
  ASSUME IndInv, NEW t \in Threads, Register(t), UNCHANGED failed
  PROVE  IndInv'
<1> DEFINE x == cur[t]
           n == size[cur[t]]
<1>1. TypeOK /\ Geometry /\ LeafNames /\ LocalOK(t) /\ HeldAlone
  BY DEF IndInv, Geometry, LocalsOK
<1>2. x \in Pages /\ state[x] = "active"
  BY <1>1 DEF Register, LocalOK, WithCur, TypeOK, Held, HeldAlone
<1>3. n > 0 /\ n \in Nat /\ x + n - 1 \in Pages
  BY <1>1, <1>2, ActivesExist, LastIsPage DEF Geometry, Last
<1>4. leaf \in [Pages -> Leaves]
  BY <1>1 DEF TypeOK, Leaves
<1>5. leaf' = IF slab[x] THEN SetAll(leaf, x, n, SlabLeaf(x))
                         ELSE SetEnds(leaf, x, n, ExtLeaf(x, FALSE))
  BY DEF Register
<1> HIDE DEF x, n
<1>6. /\ leaf' \in [Pages -> Leaves]
      /\ \A q \in Pages : leaf'[q].tag = "extent" =>
            \/ leaf'[q] = leaf[q]
            \/ leaf'[q].id = x /\ (q = x \/ q = x + n - 1)
  <2>1. CASE slab[x]
    <3>1. SlabLeaf(x) \in Leaves /\ SlabLeaf(x).tag = "vslab"
      BY <1>2, LeafKinds
    <3>2. leaf' = SetAll(leaf, x, n, SlabLeaf(x))
      BY <2>1, <1>5
    <3>3. /\ leaf' \in [Pages -> Leaves]
          /\ \A q \in Pages : leaf'[q] = IF q \in x .. x + n - 1 THEN SlabLeaf(x) ELSE leaf[q]
      BY <3>1, <3>2, <1>2, <1>4 DEF SetAll
    <3>4. QED BY <3>1, <3>3
  <2>2. CASE ~slab[x]
    <3>1. ExtLeaf(x, FALSE) \in Leaves /\ ExtLeaf(x, FALSE).id = x
      BY <1>2, LeafKinds
    <3>2. leaf' = SetEnds(leaf, x, n, ExtLeaf(x, FALSE))
      BY <2>2, <1>5
    <3>3. /\ leaf' \in [Pages -> Leaves]
          /\ \A q \in Pages : leaf'[q] = IF q = x \/ q = x + n - 1 THEN ExtLeaf(x, FALSE) ELSE leaf[q]
      BY <3>1, <3>2, <1>2, <1>3, <1>4 DEF SetEnds
    <3>4. QED BY <3>1, <3>3
  <2>3. QED BY <2>1, <2>2
<1>7. UNCHANGED size /\ n = size[x]
  BY DEF Register, n, x
<1>8. LeafNames'
  BY <1>1, <1>2, <1>3, <1>6, <1>7, LeafNamesKept
<1>9. /\ pc[t] = "register" /\ HandOver(t)
      /\ UNCHANGED <<memVars, size, state, slab, poolVars, oth, at, decayVars, failed>>
  BY DEF Register
<1>10. slab' \in [Pages -> BOOLEAN]
  BY <1>1, <1>9 DEF TypeOK
<1>11. QED BY <1>6, <1>8, <1>9, <1>10, HandOverKeeps

LEMMA CommitKeeps ==
  ASSUME IndInv, NEW t \in Threads, Commit(t), UNCHANGED failed
  PROVE  IndInv'
<1> DEFINE x == cur[t]
           n == size[cur[t]]
<1>1. TypeOK /\ Geometry /\ LeafNames /\ LocalOK(t) /\ HeldAlone
  BY DEF IndInv, Geometry, LocalsOK
<1>2. x \in Pages /\ n \in Nat
  BY <1>1, SizesAreCounts DEF Commit, LocalOK, WithCur, TypeOK
<1>3. leaf \in [Pages -> Leaves] /\ slab \in [Pages -> BOOLEAN]
  BY <1>1 DEF TypeOK, Leaves
<1>4. \/ slab' = [slab EXCEPT ![x] = TRUE] /\ leaf' = SetAll(leaf, x, n, SlabLeaf(x))
      \/ UNCHANGED <<slab, leaf>>
  BY DEF Commit
<1>5. /\ pc[t] = "commit" /\ HandOver(t)
      /\ UNCHANGED <<memVars, size, state, poolVars, oth, at, decayVars, failed>>
  BY DEF Commit
<1> HIDE DEF x, n
<1>6. /\ slab' \in [Pages -> BOOLEAN] /\ leaf' \in [Pages -> Leaves]
      /\ \A q \in Pages : leaf'[q].tag = "extent" => leaf'[q] = leaf[q]
  <2>1. SlabLeaf(x) \in Leaves /\ SlabLeaf(x).tag = "vslab"
    BY <1>2, LeafKinds
  <2>2. CASE slab' = [slab EXCEPT ![x] = TRUE] /\ leaf' = SetAll(leaf, x, n, SlabLeaf(x))
    <3>1. /\ leaf' \in [Pages -> Leaves]
          /\ \A q \in Pages : leaf'[q] = IF q \in x .. x + n - 1 THEN SlabLeaf(x) ELSE leaf[q]
      BY <2>1, <2>2, <1>2, <1>3, AllSet
    <3>2. QED BY <2>1, <2>2, <3>1, <1>3
  <2>3. QED BY <2>2, <1>3, <1>4
<1>7. LeafNames'
  BY <1>1, <1>5, <1>6, LeafNamesKept
<1>8. QED BY <1>5, <1>6, <1>7, HandOverKeeps

LEMMA SplitExactKeeps ==
  ASSUME IndInv, NEW t \in Threads, SplitExact(t), UNCHANGED failed
  PROVE  IndInv'
<1> DEFINE x == cur[t]
<1>1. TypeOK /\ Geometry /\ LeafNames /\ ListsMatch /\ LocalOK(t) /\ HeldAlone /\ ClientsActive
  BY DEF IndInv, Geometry, LocalsOK
<1>2. /\ pc[t] = "split" /\ size[x] = want[t].n /\ pc' = [pc EXCEPT ![t] = "commit"]
      /\ UNCHANGED <<mapped, newAddr, newN, size, state, slab, lru, npages, allocated,
                    cur, oth, want, pool, at, purging, limit, quota, stash, failed>>
  BY DEF SplitExact, Goto, memVars, poolVars, runVars, decayVars
<1>3. x \in Pages /\ state[x] = "active"
  BY <1>1, <1>2 DEF LocalOK, WithCur, TypeOK, Held, HeldAlone
<1>4. Last(x) \in Pages
  BY <1>1, <1>3, ActivesExist, LastIsPage DEF Geometry
<1>5. leaf' \in [Pages -> Leaves] /\ \A q \in Pages : leaf'[q].tag = leaf[q].tag /\ leaf'[q].id = leaf[q].id
  <2>1. leaf \in [Pages -> Leaves]
    BY <1>1 DEF TypeOK, Leaves
  <2>2. \/ leaf' = SetSlabBit(SetSlabBit(leaf, x, TRUE), Last(x), TRUE)
        \/ leaf' = SetSlabBit(leaf, x, FALSE)
    BY DEF SplitExact
  <2> HIDE DEF x
  <2>3. CASE leaf' = SetSlabBit(leaf, x, FALSE)
    BY <2>1, <2>3, <1>3, SlabBitSet
  <2>4. CASE leaf' = SetSlabBit(SetSlabBit(leaf, x, TRUE), Last(x), TRUE)
    <3> DEFINE f == SetSlabBit(leaf, x, TRUE)
    <3>1. f \in [Pages -> Leaves] /\ \A q \in Pages : f[q].tag = leaf[q].tag /\ f[q].id = leaf[q].id
      BY <2>1, <1>3, SlabBitSet
    <3>2. leaf' = SetSlabBit(f, Last(x), TRUE)
      BY <2>4
    <3> HIDE DEF f
    <3>3. /\ leaf' \in [Pages -> Leaves]
          /\ \A q \in Pages : leaf'[q].tag = f[q].tag /\ leaf'[q].id = f[q].id
      BY <3>1, <3>2, <1>4, SlabBitSet
    <3>4. QED BY <3>1, <3>3
  <2>5. QED BY <2>2, <2>3, <2>4
<1>6. TypeOK'
  BY <1>1, <1>2, <1>5 DEF TypeOK, Leaves, Label
<1>7. Geometry' /\ ListsMatch' /\ ClientsActive'
  BY <1>1, <1>2, GeometryKept, ListsKept DEF memVars, ClientsActive
<1>8. LeafNames'
  BY <1>1, <1>2, <1>5, LeafNamesKept
<1>9. OthersKeep(t) /\ Held(t)' = Held(t) /\ pc'[t] = "commit"
  BY <1>1, <1>2 DEF OthersKeep, Held, TypeOK
<1>10. LocalOK(t)'
  BY <1>1, <1>2, <1>9 DEF LocalOK, WithCur, WithOth, Serving
<1>11. HeldSafe(t) /\ OthersSafe(t)
  BY <1>1, <1>2, <1>9 DEF HeldSafe, OthersSafe, HeldAlone
<1>12. QED BY <1>6, <1>7, <1>8, <1>9, <1>10, <1>11, StepKeeps

LEMMA SplitTailKeeps ==
  ASSUME IndInv, NEW t \in Threads, SplitTail(t), UNCHANGED failed
  PROVE  IndInv'
<1> DEFINE x == cur[t]
           n == want[t].n
           y == x + n
           r == size[x] - n
<1>1. TypeOK /\ Geometry /\ LeafNames /\ ListsMatch /\ LocalOK(t) /\ HeldAlone /\ ClientsActive
  BY DEF IndInv, Geometry, LocalsOK
<1>2. /\ pc[t] = "split" /\ size[x] > n
      /\ size' = [size EXCEPT ![x] = n, ![y] = r]
      /\ state' = [state EXCEPT ![y] = state[x]]
      /\ slab' = [slab EXCEPT ![y] = FALSE]
      /\ leaf' = SetEnds(SetEnds(leaf, x, n, LeafOf(x, want[t].kind)), y, r, ExtLeaf(y, FALSE))
      /\ oth' = [oth EXCEPT ![t] = y] /\ pc' = [pc EXCEPT ![t] = "putback"]
      /\ UNCHANGED <<mapped, newAddr, newN, lru, npages, allocated,
                    cur, want, pool, at, purging, limit, quota, stash, failed>>
  BY DEF SplitTail, TailStart, Goto, memVars, poolVars, runVars, decayVars
<1>3. x \in Pages /\ x # Nil /\ x \in Held(t) /\ state[x] = "active" /\ oth[t] = Nil
  BY <1>1, <1>2 DEF LocalOK, WithCur, WithOth, TypeOK, Held, HeldAlone
<1>4. n \in Nat /\ n > 0 /\ want[t].kind \in Kinds
  BY <1>1, <1>2, RequestsPositive DEF LocalOK, Serving, TypeOK
<1>5. \A q \in Pages : size[q] \in Nat
  BY <1>1, SizesAreCounts
<1>6. r \in Nat /\ r > 0 /\ size[x] = n + r /\ x + n + r <= NPages
  <2>1. size[x] \in Nat /\ x + size[x] <= NPages /\ x \in Nat
    BY <1>1, <1>3, <1>5, Counts DEF Geometry, Fenced, Pages
  <2>2. QED BY <2>1, <1>2, <1>4
<1> HIDE DEF x, n, r
<1>7. y \in Pages /\ y # x /\ y # Nil /\ x + n - 1 \in Pages /\ y + r - 1 \in Pages
  BY <1>3, <1>4, <1>6, Counts DEF Pages, Nil
<1>8. size[y] = 0 /\ state[y] = "none"
  <2>1. size[y] = 0
    BY <1>1, <1>3, <1>4, <1>5, <1>6, <1>7, Counts DEF Geometry, Disjoint, Pages
  <2>2. QED BY <1>1, <1>7, <2>1 DEF Geometry, Live
<1>9. /\ size' \in [Pages -> 0 .. NPages] /\ size'[x] = n /\ size'[y] = r
      /\ \A q \in Pages : q # x /\ q # y => size'[q] = size[q]
  <2>1. size \in [Pages -> 0 .. NPages]
    BY <1>1 DEF TypeOK
  <2>2. n \in 0 .. NPages /\ r \in 0 .. NPages
    BY <1>3, <1>4, <1>6, Counts DEF Pages
  <2>3. QED BY <1>2, <1>3, <1>7, <2>1, <2>2
<1>10. /\ state' \in [Pages -> {"none", "active"} \cup Pools] /\ state'[y] = "active"
       /\ \A q \in Pages : q # y => state'[q] = state[q]
  BY <1>1, <1>2, <1>3, <1>7 DEF TypeOK
<1> DEFINE f == SetEnds(leaf, x, n, LeafOf(x, want[t].kind))
<1>11. /\ f \in [Pages -> Leaves]
       /\ \A q \in Pages :
             f[q] = IF q = x \/ q = x + n - 1 THEN LeafOf(x, want[t].kind) ELSE leaf[q]
  <2>1. LeafOf(x, want[t].kind) \in Leaves
    BY <1>3, LeafKinds DEF LeafOf
  <2>2. leaf \in [Pages -> Leaves]
    BY <1>1 DEF TypeOK, Leaves
  <2>3. QED BY <2>1, <2>2, <1>3, <1>4, <1>7 DEF SetEnds
<1>12. leaf' = SetEnds(f, y, r, ExtLeaf(y, FALSE))
  BY <1>2
<1> HIDE DEF f
<1>13. /\ leaf' \in [Pages -> Leaves]
       /\ \A q \in Pages :
             leaf'[q] = IF q = y \/ q = y + r - 1 THEN ExtLeaf(y, FALSE) ELSE f[q]
  <2>1. ExtLeaf(y, FALSE) \in Leaves
    BY <1>7, LeafKinds
  <2>2. QED BY <2>1, <1>6, <1>7, <1>11, <1>12 DEF SetEnds
<1>14. TypeOK'
  <2>1. slab' \in [Pages -> BOOLEAN] /\ oth' \in [Threads -> Pages \cup {Nil}]
        /\ pc' \in [Threads -> Label]
    BY <1>1, <1>2, <1>7 DEF TypeOK, Label
  <2>2. QED BY <1>1, <1>2, <1>9, <1>10, <1>13, <2>1 DEF TypeOK, Leaves
<1>15. Geometry'
  <2>1. Live' /\ Fenced'
    <3>1. Live'
      BY <1>1, <1>3, <1>4, <1>6, <1>7, <1>9, <1>10 DEF Geometry, Live
    <3>2. Fenced'
      <4>1. x + n <= NPages /\ y + r <= NPages
        BY <1>3, <1>4, <1>6, Counts DEF Pages
      <4>2. QED BY <4>1, <1>1, <1>9 DEF Geometry, Fenced
    <3>3. QED BY <3>1, <3>2
  <2>2. Disjoint'
    <3>1. SUFFICES ASSUME NEW a \in Pages, NEW b \in Pages, a < b, size'[a] > 0, size'[b] > 0
                   PROVE  a + size'[a] <= b
      BY DEF Disjoint
    <3>2. \A q \in Pages : size[q] > 0 /\ q # x => q + size[q] <= x \/ x + n + r <= q
      BY <1>1, <1>3, <1>4, <1>5, <1>6 DEF Geometry, Disjoint, Pages
    <3>3. CASE a = x \/ a = y
      <4>1. CASE b = x \/ b = y
        <5>1. x \in Nat /\ n \in Nat /\ n > 0 /\ x < y
          BY <1>3, <1>4, Counts DEF Pages
        <5>2. a = x /\ b = y
          BY <3>1, <3>3, <4>1, <5>1
        <5>3. QED BY <5>1, <5>2, <1>9
      <4>2. CASE b # x /\ b # y
        <5>1. size[b] > 0 /\ size[b] \in Nat
          BY <3>1, <4>2, <1>5, <1>9
        <5>2. b + size[b] <= x \/ x + n + r <= b
          BY <3>2, <4>2, <5>1
        <5>3. x \in Nat /\ b \in Nat /\ n \in Nat /\ r \in Nat /\ x < b
          BY <3>1, <3>3, <1>3, <1>4, <1>6, Counts DEF Pages
        <5>4. x + n + r <= b
          BY <5>1, <5>2, <5>3
        <5>5. a + size'[a] <= x + n + r
          BY <3>3, <5>3, <1>7, <1>9
        <5>6. QED BY <5>3, <5>4, <5>5, <3>3, <1>7, <1>9
      <4>3. QED BY <4>1, <4>2
    <3>4. CASE a # x /\ a # y /\ (b = x \/ b = y)
      <4>1. size[a] > 0 /\ size'[a] = size[a] /\ size[a] \in Nat
        BY <3>1, <3>4, <1>5, <1>9
      <4>2. a + size[a] <= x \/ x + n + r <= a
        BY <3>2, <3>4, <4>1
      <4>3. a \in Nat /\ b \in Nat /\ x \in Nat /\ n \in Nat /\ r \in Nat /\ r > 0
        BY <1>3, <1>4, <1>6, Counts DEF Pages
      <4>4. x <= b /\ b < x + n + r
        BY <3>4, <4>3, <1>4, <1>7
      <4>5. a + size[a] <= x
        BY <3>1, <4>1, <4>2, <4>3, <4>4
      <4>6. QED BY <4>1, <4>3, <4>4, <4>5
    <3>5. CASE a # x /\ a # y /\ b # x /\ b # y
      BY <3>1, <3>5, <1>1, <1>9 DEF Geometry, Disjoint
    <3>6. QED BY <3>3, <3>4, <3>5
  <2>3. NewFree' /\ NewMapped'
    <3>1. NewFree'
      <4>1. SUFFICES ASSUME newN > 0, NEW q \in Pages, size'[q] > 0
                     PROVE  q + size'[q] <= newAddr \/ newAddr + newN <= q
        BY <1>2 DEF NewFree
      <4>2. newAddr \in Nat /\ newN \in Nat
        BY <1>1, Counts DEF TypeOK
      <4>3. x + n + r <= newAddr \/ newAddr + newN <= x
        BY <4>1, <1>1, <1>3, <1>4, <1>6 DEF Geometry, NewFree, Pages
      <4>4. CASE q = x \/ q = y
        BY <4>2, <4>3, <4>4, <1>3, <1>4, <1>6, <1>9 DEF Pages
      <4>5. CASE q # x /\ q # y
        BY <4>1, <4>5, <1>1, <1>9 DEF Geometry, NewFree
      <4>6. QED BY <4>4, <4>5
    <3>2. NewMapped'
      BY <1>1, <1>2 DEF Geometry, NewMapped
    <3>3. QED BY <3>1, <3>2
  <2>4. AllMapped'
    <3>1. SUFFICES ASSUME NEW e \in Pages, NEW q \in Pages, e <= q, q < e + size'[e]
                   PROVE  InMapped(q)
      BY <1>2 DEF AllMapped, InMapped
    <3>2. CASE e = x \/ e = y
      <4>1. x <= q /\ q < x + size[x]
        BY <3>1, <3>2, <1>3, <1>4, <1>6, <1>9 DEF Pages
      <4>2. QED BY <4>1, <1>1, <1>3 DEF Geometry, AllMapped
    <3>3. CASE e # x /\ e # y
      BY <3>1, <3>3, <1>1, <1>9 DEF Geometry, AllMapped
    <3>4. QED BY <3>2, <3>3
  <2>5. QED BY <2>1, <2>2, <2>3, <2>4 DEF Geometry
<1>16. LeafNames'
  <2>1. SUFFICES ASSUME NEW q \in Pages, leaf'[q].tag = "extent"
                 PROVE  /\ leaf'[q].id \in Pages
                        /\ size'[leaf'[q].id] > 0
                        /\ q = leaf'[q].id \/ q = leaf'[q].id + size'[leaf'[q].id] - 1
    BY DEF LeafNames
  <2>2. CASE q = y \/ q = y + r - 1
    <3>1. leaf'[q].id = y
      BY <2>2, <1>7, <1>13 DEF ExtLeaf
    <3>2. QED BY <2>2, <3>1, <1>6, <1>7, <1>9
  <2>3. CASE ~(q = y \/ q = y + r - 1) /\ (q = x \/ q = x + n - 1)
    <3>1. leaf'[q] = LeafOf(x, want[t].kind)
      BY <2>3, <1>11, <1>13
    <3>2. leaf'[q].id = x
      BY <3>1 DEF LeafOf, ExtLeaf, SlabLeaf
    <3>3. QED BY <2>3, <3>2, <1>3, <1>4, <1>9
  <2>4. CASE ~(q = y \/ q = y + r - 1) /\ ~(q = x \/ q = x + n - 1)
    <3>1. leaf'[q] = leaf[q]
      BY <2>4, <1>11, <1>13
    <3>2. /\ leaf[q].id \in Pages /\ size[leaf[q].id] > 0
          /\ q = leaf[q].id \/ q = leaf[q].id + size[leaf[q].id] - 1
      BY <1>1, <2>1, <3>1 DEF LeafNames
    <3>3. leaf[q].id # y
      BY <3>2, <1>8
    <3>4. leaf[q].id # x
      BY <2>4, <3>2, <1>3, <1>4, <1>6 DEF Pages
    <3>5. QED BY <3>1, <3>2, <3>3, <3>4, <1>9
  <2>5. QED BY <2>2, <2>3, <2>4
<1>17. ListsMatch'
  <2>1. \A q \in Pages : state'[q] = state[q] \/ {state[q], state'[q]} \subseteq {"none", "active"}
    BY <1>8, <1>10
  <2>2. QED BY <1>1, <1>2, <2>1, ListsKept
<1>18. ClientsActive'
  BY <1>1, <1>2, <1>10 DEF ClientsActive, TypeOK
<1>19. /\ OthersKeep(t) /\ cur'[t] = x /\ oth'[t] = y /\ stash'[t] = stash[t]
       /\ pc'[t] = "putback" /\ want'[t] = want[t]
  BY <1>1, <1>2 DEF OthersKeep, TypeOK, x
<1>20. y \notin Held(t) /\ y \notin allocated
  BY <1>1, <1>8 DEF HeldAlone, ClientsActive
<1>21. Held(t)' = Held(t) \cup {y}
  BY <1>3, <1>7, <1>19 DEF Held, x
<1>22. LocalOK(t)'
  <2>1. y \notin Elems(stash[t])
    BY <1>7, <1>20 DEF Held
  <2>2. QED BY <1>1, <1>2, <1>3, <1>7, <1>9, <1>19, <2>1
        DEF LocalOK, WithCur, WithOth, Serving, n, x
<1>23. HeldSafe(t)
  <2>1. \A q \in Held(t) : q \in Pages /\ state[q] = "active" /\ q \notin allocated
    BY <1>1, HeldIsPage DEF HeldAlone
  <2>2. QED BY <1>2, <1>8, <1>10, <1>20, <1>21, <2>1 DEF HeldSafe
<1>24. OthersSafe(t)
  BY <1>2, <1>3, <1>8, <1>9, <1>10 DEF OthersSafe
<1>25. QED BY <1>14, <1>15, <1>16, <1>17, <1>18, <1>19, <1>22, <1>23, <1>24, StepKeeps

LEMMA PutBackKeeps ==
  ASSUME IndInv, NEW t \in Threads, PutBack(t), UNCHANGED failed
  PROVE  IndInv'
<1> DEFINE x == oth[t]
<1>1. TypeOK /\ Geometry /\ LeafNames /\ ListsMatch /\ LocalOK(t) /\ HeldAlone /\ ClientsActive
  BY DEF IndInv, Geometry, LocalsOK
<1>2. /\ pc[t] = "putback" /\ Insert(pool[t], x)
      /\ oth' = [oth EXCEPT ![t] = Nil] /\ pc' = [pc EXCEPT ![t] = "commit"]
      /\ UNCHANGED <<mapped, newAddr, newN, size, slab, leaf, allocated, cur,
                    want, pool, at, purging, limit, quota, stash, failed>>
  BY DEF PutBack, Goto, memVars, runVars, decayVars
<1>3. x \in Pages /\ x # Nil /\ x \in Held(t) /\ state[x] = "active" /\ pool[t] \in Pools
      /\ x \notin allocated
  BY <1>1, <1>2 DEF LocalOK, WithOth, TypeOK, Held, HeldAlone
<1> HIDE DEF x
<1>4. /\ ListsMatch' /\ lru' \in [Pools -> Seq(Pages)] /\ npages' \in [Pools -> Int]
      /\ state' \in [Pages -> {"none", "active"} \cup Pools] /\ state'[x] \in Pools
      /\ \A q \in Pages : q # x => state'[q] = state[q]
  BY <1>1, <1>2, <1>3, InsertKeeps
<1>5. TypeOK'
  BY <1>1, <1>2, <1>4 DEF TypeOK, Label
<1>6. Geometry'
  BY <1>1, <1>2, <1>3, <1>4, GeometryKept DEF memVars, Pools
<1>7. LeafNames'
  BY <1>1, <1>2 DEF LeafNames
<1>8. ClientsActive'
  BY <1>1, <1>2, <1>3, <1>4 DEF ClientsActive, TypeOK
<1>9. /\ OthersKeep(t) /\ cur'[t] = cur[t] /\ oth'[t] = Nil /\ stash'[t] = stash[t]
      /\ pc'[t] = "commit" /\ want'[t] = want[t]
  BY <1>1, <1>2 DEF OthersKeep, TypeOK
<1>10. Held(t)' = Held(t) \ {x}
  <2>1. x # cur[t] /\ x \notin Elems(stash[t])
    BY <1>1, <1>3 DEF LocalOK, x
  <2>2. QED BY <2>1, <1>9 DEF Held, x
<1>11. LocalOK(t)'
  <2>1. Nil \notin Elems(stash[t])
    <3>1. stash[t] \in Seq(Pages)
      BY <1>1 DEF TypeOK
    <3>2. \A i \in DOMAIN stash[t] : stash[t][i] \in Pages
      BY <3>1
    <3>3. QED BY <3>2, Counts DEF Elems, Pages, Nil
  <2>2. QED BY <1>1, <1>2, <1>9, <2>1 DEF LocalOK, WithCur, WithOth, Serving
<1>12. HeldSafe(t)
  <2>1. \A q \in Held(t) : q \in Pages /\ state[q] = "active" /\ q \notin allocated
    BY <1>1, HeldIsPage DEF HeldAlone
  <2>2. QED BY <1>2, <1>4, <1>10, <2>1 DEF HeldSafe
<1>13. OthersSafe(t)
  BY <1>2, <1>3, <1>4 DEF OthersSafe
<1>14. QED BY <1>4, <1>5, <1>6, <1>7, <1>8, <1>9, <1>11, <1>12, <1>13, StepKeeps

-----------------------------------------------------------------------------
(* Coalescing. *)

Sides == {"next", "prev"}

(* What extent_lock_from_addr finds beside x is adjacent to x. *)
LEMMA BesideIsNeighbour ==
  ASSUME TypeOK, Geometry, LeafNames, NEW x \in Pages, size[x] > 0, NEW side \in Sides,
         SidePage(x, side) \in Pages, leaf[SidePage(x, side)].tag = "extent"
  PROVE  /\ Beside(x, side) \in Pages /\ Beside(x, side) # x /\ size[Beside(x, side)] > 0
         /\ \/ x + size[x] = Beside(x, side)
            \/ Beside(x, side) + size[Beside(x, side)] = x
<1> DEFINE q == SidePage(x, side)
           y == Beside(x, side)
<1>1. y \in Pages /\ size[y] > 0 /\ (q = y \/ q = y + size[y] - 1)
  BY DEF LeafNames, Beside
<1>2. /\ q \in Nat /\ x \in Nat /\ y \in Nat /\ size[x] \in Nat /\ size[y] \in Nat
      /\ \/ q = x + size[x]
         \/ q = x - 1
  BY <1>1, SizesAreCounts, Counts DEF SidePage, Pages, Sides
<1> HIDE DEF q, y
<1>3. y # x
  BY <1>1, <1>2
<1>4. (x < y => x + size[x] <= y) /\ (y < x => y + size[y] <= x)
  BY <1>1 DEF Geometry, Disjoint
<1>5. x + size[x] = y \/ y + size[y] = x
  BY <1>1, <1>2, <1>3, <1>4
<1>6. QED BY <1>1, <1>3, <1>5 DEF y

LEMMA CoalesceCases ==
  ASSUME NEW t, NEW x, NEW p, NEW side \in Sides, NEW done, Coalesce(t, x, p, side, done)
  PROVE  \/ \E sd \in Sides : /\ Coalescible(state, x, p, sd, p = "dirty")
                              /\ TakeNeighbour(t, x, p, sd)
         \/ LayDown(t, x, p, done)
<1> DEFINE ok(sd) == Coalescible(state, x, p, sd, p = "dirty")
           sides  == {sd \in {side, Opposite(side)} : ok(sd)}
           chosen == IF side \in sides THEN side ELSE Opposite(side)
<1>1. CASE sides # {}
  <2>1. chosen \in Sides /\ ok(chosen)
    BY <1>1 DEF Opposite, Sides
  <2>2. TakeNeighbour(t, x, p, chosen)
    BY <1>1 DEF Coalesce
  <2>3. QED BY <2>1, <2>2
<1>2. CASE sides = {}
  BY <1>2 DEF Coalesce
<1>3. QED BY <1>1, <1>2

LEMMA CoalesceKeeps ==
  ASSUME IndInv, NEW t \in Threads, NEW x \in Pages, NEW p \in Pools, NEW side \in Sides,
         NEW done \in {"idle", "stash"}, Coalesce(t, x, p, side, done),
         state[x] = "active", x \in Held(t) \/ x \in allocated,
         cur[t] \in {x, Nil}, oth[t] = Nil, allocated' = allocated \ {x},
         stash' \in [Threads -> Seq(Pages)], Distinct(stash'[t]),
         Elems(stash'[t]) = Elems(stash[t]) \ {x},
         \A u \in Threads \ {t} : stash'[u] = stash[u],
         slab' \in [Pages -> BOOLEAN], leaf' \in [Pages -> Leaves], LeafNames',
         UNCHANGED <<memVars, size, want, purging, limit, quota, failed>>
  PROVE  IndInv'
<1>1. TypeOK /\ Geometry /\ LeafNames /\ ListsMatch /\ LocalOK(t) /\ HeldAlone /\ ClientsActive
  BY DEF IndInv, Geometry, LocalsOK
<1>2. UNCHANGED <<mapped, newAddr, newN, size, want, purging, limit, quota, failed>>
  BY DEF memVars
<1>3. size[x] > 0 /\ x # Nil
  BY <1>1, ActivesExist, Counts DEF Geometry, Pages, Nil
<1>4. Nil \notin Elems(stash[t]) /\ Elems(stash[t]) \subseteq Held(t)
  BY <1>1 DEF LocalOK, Held
<1>5. \A q \in Held(t) : q \in Pages /\ state[q] = "active" /\ q \notin allocated
  BY <1>1, HeldIsPage DEF HeldAlone
<1>6. CASE \E sd \in Sides : /\ Coalescible(state, x, p, sd, p = "dirty")
                            /\ TakeNeighbour(t, x, p, sd)
  <2>1. PICK sd \in Sides : /\ Coalescible(state, x, p, sd, p = "dirty")
                           /\ TakeNeighbour(t, x, p, sd)
    BY <1>6
  <2> DEFINE y == Beside(x, sd)
  <2>2. SidePage(x, sd) \in Pages /\ leaf[SidePage(x, sd)].tag = "extent" /\ state[y] = p
    BY <2>1 DEF Coalescible
  <2>3. /\ y \in Pages /\ y # x /\ size[y] > 0
        /\ x + size[x] = y \/ y + size[y] = x
    BY <1>1, <1>3, <2>2, BesideIsNeighbour
  <2>4. /\ Extract(p, y) /\ oth' = [oth EXCEPT ![t] = y]
        /\ pool' = [pool EXCEPT ![t] = p] /\ cur' = [cur EXCEPT ![t] = x]
        /\ at' = [at EXCEPT ![t] = sd] /\ pc' = [pc EXCEPT ![t] = "merge"]
    BY <2>1 DEF TakeNeighbour, Goto
  <2> HIDE DEF y
  <2>5. y \in InPool(p) /\ y # Nil /\ y \notin Held(t) /\ y \notin allocated /\ state[y] # "active"
    BY <1>1, <1>5, <2>2, <2>3, Counts DEF InPool, Pages, Nil, ClientsActive, Pools
  <2>6. /\ ListsMatch' /\ lru' \in [Pools -> Seq(Pages)] /\ npages' \in [Pools -> Int]
        /\ state' \in [Pages -> {"none", "active"} \cup Pools] /\ state'[y] = "active"
        /\ \A q \in Pages : q # y => state'[q] = state[q]
    BY <1>1, <2>4, <2>5, ExtractKeeps
  <2>7. TypeOK'
    BY <1>1, <1>2, <2>3, <2>4, <2>6 DEF TypeOK, Label, Leaves, Sides
  <2>8. Geometry'
    BY <1>1, <2>2, <2>6, GeometryKept DEF Pools
  <2>9. ClientsActive'
    BY <1>1, <2>5, <2>6 DEF ClientsActive, TypeOK
  <2>10. /\ OthersKeep(t) /\ cur'[t] = x /\ oth'[t] = y /\ pc'[t] = "merge" /\ want'[t] = want[t]
    BY <1>1, <1>2, <2>4 DEF OthersKeep, TypeOK
  <2>11. Held(t)' = (Held(t) \cup {x, y})
    BY <1>3, <1>4, <2>5, <2>10 DEF Held
  <2>12. LocalOK(t)'
    <3>1. x \notin Elems(stash'[t]) /\ y \notin Elems(stash'[t])
      BY <1>4, <2>5
    <3>2. /\ cur'[t] # Nil /\ oth'[t] # Nil /\ oth'[t] # cur'[t]
          /\ cur'[t] \notin Elems(stash'[t]) /\ oth'[t] \notin Elems(stash'[t])
          /\ cur'[t] + size'[cur'[t]] = oth'[t] \/ oth'[t] + size'[oth'[t]] = cur'[t]
      BY <1>2, <1>3, <2>3, <2>5, <2>10, <3>1
    <3>3. QED BY <2>10, <3>2 DEF LocalOK, WithCur, WithOth, Serving
  <2>13. HeldSafe(t)
    BY <1>5, <2>5, <2>6, <2>11 DEF HeldSafe
  <2>14. OthersSafe(t)
    BY <1>2, <2>5, <2>6 DEF OthersSafe
  <2>15. QED BY <2>6, <2>7, <2>8, <2>9, <2>10, <2>12, <2>13, <2>14, StepKeeps
<1>7. CASE LayDown(t, x, p, done)
  <2>0. /\ Insert(p, x)
        /\ pool' = [pool EXCEPT ![t] = "dirty"]
        /\ cur' = [cur EXCEPT ![t] = Nil]
        /\ oth' = oth
        /\ at' = [at EXCEPT ![t] = "next"]
        /\ pc' = [pc EXCEPT ![t] = done]
    BY <1>7 DEF LayDown, Goto
  <2>1. /\ ListsMatch' /\ lru' \in [Pools -> Seq(Pages)] /\ npages' \in [Pools -> Int]
        /\ state' \in [Pages -> {"none", "active"} \cup Pools] /\ state'[x] = p
        /\ \A q \in Pages : q # x => state'[q] = state[q]
    BY <1>1, <2>0, InsertKeeps
  <2>2. TypeOK'
    BY <1>1, <1>2, <2>0, <2>1 DEF TypeOK, Label, Leaves, Pools
  <2>3. Geometry'
    BY <1>1, <2>1, GeometryKept DEF Pools
  <2>4. ClientsActive'
    BY <1>1, <2>1 DEF ClientsActive, TypeOK
  <2>5. /\ OthersKeep(t) /\ cur'[t] = Nil /\ oth'[t] = Nil /\ pc'[t] = done
    BY <1>1, <1>2, <2>0 DEF OthersKeep, TypeOK
  <2>6. Held(t)' = Held(t) \ {x}
    BY <1>3, <1>4, <2>5 DEF Held
  <2>7. LocalOK(t)'
    BY <1>4, <2>5 DEF LocalOK, WithCur, WithOth, Serving
  <2>8. HeldSafe(t)
    BY <1>5, <2>1, <2>6 DEF HeldSafe
  <2>9. OthersSafe(t)
    BY <1>2, <2>1 DEF OthersSafe
  <2>10. QED BY <2>1, <2>2, <2>3, <2>4, <2>5, <2>7, <2>8, <2>9, StepKeeps
<1>8. QED BY <1>6, <1>7, CoalesceCases

LEMMA FreeKeeps ==
  ASSUME IndInv, NEW t \in Threads, NEW x \in allocated, Free(t, x), UNCHANGED failed
  PROVE  IndInv'
<1> DEFINE n == size[x]
<1>1. TypeOK /\ Geometry /\ LeafNames /\ LocalOK(t) /\ ClientsActive
  BY DEF IndInv, Geometry, LocalsOK
<1>2. /\ pc[t] = "idle" /\ Coalesce(t, x, "dirty", "next", "idle")
      /\ allocated' = allocated \ {x} /\ slab' = [slab EXCEPT ![x] = FALSE]
      /\ stash' = stash /\ UNCHANGED <<memVars, size, want, purging, limit, quota, failed>>
  BY DEF Free, decayVars
<1>3. x \in Pages /\ state[x] = "active" /\ cur[t] = Nil /\ oth[t] = Nil
  BY <1>1, <1>2 DEF TypeOK, ClientsActive, LocalOK, WithCur, WithOth
<1>4. n > 0 /\ n \in Nat /\ x + n - 1 \in Pages
  BY <1>1, <1>3, ActivesExist, LastIsPage DEF Geometry, Last
<1>5. leaf \in [Pages -> Leaves] /\ slab' \in [Pages -> BOOLEAN]
  BY <1>1, <1>2 DEF TypeOK, Leaves
<1> DEFINE f == SetAll(leaf, x, n, NullLeaf)
<1>6. leaf' = SetEnds(f, x, n, ExtLeaf(x, TRUE)) \/ leaf' = leaf
  BY DEF Free
<1> HIDE DEF n
<1>7. /\ leaf' \in [Pages -> Leaves]
      /\ \A q \in Pages : leaf'[q].tag = "extent" =>
            \/ leaf'[q] = leaf[q]
            \/ leaf'[q].id = x /\ (q = x \/ q = x + n - 1)
  <2>1. /\ f \in [Pages -> Leaves]
        /\ \A q \in Pages : f[q] = IF q \in x .. x + n - 1 THEN NullLeaf ELSE leaf[q]
    <3>1. NullLeaf \in Leaves
      BY <1>3, LeafKinds
    <3>2. QED BY <3>1, <1>3, <1>5 DEF SetAll
  <2> HIDE DEF f
  <2>2. CASE leaf' = SetEnds(f, x, n, ExtLeaf(x, TRUE))
    <3>1. ExtLeaf(x, TRUE) \in Leaves /\ ExtLeaf(x, TRUE).id = x /\ NullLeaf.tag = "null"
      BY <1>3, LeafKinds
    <3>2. /\ leaf' \in [Pages -> Leaves]
          /\ \A q \in Pages : leaf'[q] = IF q = x \/ q = x + n - 1 THEN ExtLeaf(x, TRUE) ELSE f[q]
      BY <2>1, <2>2, <3>1, <1>3, <1>4 DEF SetEnds
    <3>3. QED BY <2>1, <3>1, <3>2
  <2>3. CASE leaf' = leaf
    BY <2>3, <1>5
  <2>4. QED BY <1>6, <2>2, <2>3
<1>8. LeafNames'
  BY <1>1, <1>2, <1>3, <1>4, <1>7, LeafNamesKept DEF n
<1>9. /\ stash' \in [Threads -> Seq(Pages)] /\ Distinct(stash'[t])
      /\ Elems(stash'[t]) = Elems(stash[t]) \ {x}
  <2>1. x \notin Elems(stash[t])
    BY <1>3, IndInv DEF IndInv, HeldAlone, Held, LocalsOK, LocalOK
  <2>2. QED BY <2>1, <1>1, <1>2 DEF TypeOK, LocalOK
<1>10. QED BY <1>2, <1>3, <1>5, <1>7, <1>8, <1>9, CoalesceKeeps DEF Pools, Sides

LEMMA RecordKeeps ==
  ASSUME IndInv, NEW t \in Threads, Record(t), UNCHANGED failed
  PROVE  IndInv'
<1> DEFINE x == cur[t]
           p == pool[t]
           side == IF pool[t] = "muzzy" /\ at[t] = "next" THEN "prev" ELSE "next"
           done == IF pool[t] = "muzzy" THEN "stash" ELSE "idle"
<1>1. TypeOK /\ LeafNames /\ LocalOK(t) /\ HeldAlone
  BY DEF IndInv, LocalsOK
<1>2. /\ pc[t] = "record" /\ Coalesce(t, x, p, side, done)
      /\ allocated' = allocated /\ slab' = slab /\ leaf' = leaf /\ stash' = stash
      /\ UNCHANGED <<memVars, size, want, purging, limit, quota, failed>>
  BY DEF Record, decayVars
<1>3. /\ x \in Pages /\ x \in Held(t) /\ state[x] = "active" /\ oth[t] = Nil /\ x \notin allocated
      /\ x \notin Elems(stash[t])
  BY <1>1, <1>2 DEF TypeOK, LocalOK, WithCur, WithOth, Held, HeldAlone
<1>4. p \in Pools /\ side \in Sides /\ done \in {"idle", "stash"}
  BY <1>1 DEF TypeOK, Sides
<1>5. LeafNames' /\ leaf' \in [Pages -> Leaves] /\ slab' \in [Pages -> BOOLEAN]
  BY <1>1, <1>2 DEF LeafNames, TypeOK, Leaves
<1>6. /\ stash' \in [Threads -> Seq(Pages)] /\ Distinct(stash'[t])
      /\ Elems(stash'[t]) = Elems(stash[t]) \ {x}
  BY <1>1, <1>2, <1>3 DEF TypeOK, LocalOK
<1>7. cur[t] \in {x, Nil} /\ allocated' = allocated \ {x}
  BY <1>2, <1>3
<1> HIDE DEF x, p, side, done
<1>8. \A u \in Threads \ {t} : stash'[u] = stash[u]
  BY <1>2
<1>9. Coalesce(t, x, p, side, done) /\ oth[t] = Nil /\ state[x] = "active"
      /\ (x \in Held(t) \/ x \in allocated) /\ x \in Pages
  BY <1>2, <1>3
<1>10. UNCHANGED <<memVars, size, want, purging, limit, quota, failed>>
  BY <1>2
<1>11. QED BY <1>4, <1>5, <1>6, <1>7, <1>8, <1>9, <1>10, CoalesceKeeps

LEMMA StashKeeps ==
  ASSUME IndInv, NEW t \in Threads, Stash(t), UNCHANGED failed
  PROVE  IndInv'
<1> DEFINE x == Head(stash[t])
<1>1. TypeOK /\ LeafNames /\ LocalOK(t) /\ HeldAlone
  BY DEF IndInv, LocalsOK
<1>2. /\ pc[t] = "stash" /\ stash[t] # <<>> /\ Coalesce(t, x, "muzzy", "next", "stash")
      /\ allocated' = allocated /\ slab' = slab /\ leaf' = leaf
      /\ stash' = [stash EXCEPT ![t] = Tail(@)]
      /\ UNCHANGED <<memVars, size, want, purging, limit, quota, failed>>
  BY DEF Stash
<1>3. /\ cur[t] = Nil /\ oth[t] = Nil /\ Distinct(stash[t]) /\ stash \in [Threads -> Seq(Pages)]
      /\ Nil \notin Elems(stash[t])
  BY <1>1, <1>2 DEF LocalOK, WithCur, WithOth, TypeOK
<1>4. /\ x \in Elems(stash[t]) /\ x \in Pages /\ Tail(stash[t]) \in Seq(Pages)
      /\ Distinct(Tail(stash[t])) /\ Elems(Tail(stash[t])) = Elems(stash[t]) \ {x}
  BY <1>2, <1>3, TailList
<1>5. x \in Held(t) /\ state[x] = "active" /\ x \notin allocated
  BY <1>1, <1>3, <1>4 DEF Held, HeldAlone
<1>6. LeafNames' /\ leaf' \in [Pages -> Leaves] /\ slab' \in [Pages -> BOOLEAN]
  BY <1>1, <1>2 DEF LeafNames, TypeOK, Leaves
<1>7. /\ stash' \in [Threads -> Seq(Pages)] /\ stash'[t] = Tail(stash[t])
      /\ \A u \in Threads \ {t} : stash'[u] = stash[u]
  BY <1>2, <1>3, <1>4
<1>8. /\ Distinct(stash'[t]) /\ Elems(stash'[t]) = Elems(stash[t]) \ {x}
      /\ cur[t] \in {x, Nil} /\ allocated' = allocated \ {x}
  BY <1>2, <1>3, <1>4, <1>5, <1>7
<1> HIDE DEF x
<1>9. QED BY <1>2, <1>3, <1>4, <1>5, <1>6, <1>7, <1>8, CoalesceKeeps DEF Pools, Sides

LEMMA MergeKeeps ==
  ASSUME IndInv, NEW t \in Threads, Merge(t), UNCHANGED failed
  PROVE  IndInv'
<1> DEFINE a == IF cur[t] < oth[t] THEN cur[t] ELSE oth[t]
           b == IF cur[t] < oth[t] THEN oth[t] ELSE cur[t]
           n == size[a]
           m == size[b]
<1>1. TypeOK /\ Geometry /\ LeafNames /\ ListsMatch /\ LocalOK(t) /\ HeldAlone /\ ClientsActive
  BY DEF IndInv, Geometry, LocalsOK
<1>2. /\ pc[t] \in {"merge", "emerge"}
      /\ leaf' = [leaf EXCEPT ![a + n - 1] = NullLeaf, ![b] = NullLeaf, ![a] = ExtLeaf(a, FALSE),
                              ![b + m - 1] = ExtLeaf(a, FALSE)]
      /\ size' = [size EXCEPT ![a] = n + m, ![b] = 0]
      /\ state' = [state EXCEPT ![b] = "none"]
      /\ cur' = [cur EXCEPT ![t] = a] /\ oth' = [oth EXCEPT ![t] = Nil]
      /\ pc' = [pc EXCEPT ![t] = IF pc[t] = "merge" THEN "record" ELSE "reinsert"]
      /\ UNCHANGED <<mapped, newAddr, newN, slab, lru, npages, allocated, want, pool, at,
                    purging, limit, quota, stash, failed>>
  BY DEF Merge, Goto, Last, memVars, poolVars, runVars, decayVars
<1>3. /\ cur[t] \in Pages /\ oth[t] \in Pages /\ cur[t] # oth[t] /\ cur[t] # Nil /\ oth[t] # Nil
      /\ cur[t] \in Held(t) /\ oth[t] \in Held(t)
      /\ cur[t] + size[cur[t]] = oth[t] \/ oth[t] + size[oth[t]] = cur[t]
  BY <1>1, <1>2 DEF LocalOK, WithCur, WithOth, TypeOK, Held
<1>4. /\ state[cur[t]] = "active" /\ state[oth[t]] = "active"
      /\ size[cur[t]] > 0 /\ size[oth[t]] > 0
  BY <1>1, <1>3, ActivesExist DEF HeldAlone, Geometry
<1>5. /\ a \in Pages /\ b \in Pages /\ a # b /\ a # Nil /\ {a, b} = {cur[t], oth[t]}
      /\ a \in Held(t) /\ b \in Held(t) /\ state[a] = "active" /\ state[b] = "active"
      /\ n > 0 /\ m > 0
  BY <1>3, <1>4
<1>6. \A q \in Pages : size[q] \in Nat /\ q \in Nat
  BY <1>1, SizesAreCounts DEF Pages
<1>7. a + n = b /\ a < b
  BY <1>3, <1>4, <1>6
<1> HIDE DEF a, b, n, m
<1>8. n \in Nat /\ m \in Nat /\ a \in Nat /\ b \in Nat /\ size[a] = n /\ size[b] = m
  BY <1>5, <1>6 DEF n, m
<1>9. b + m <= NPages /\ a + n - 1 \in Pages /\ b + m - 1 \in Pages
  BY <1>1, <1>5, <1>7, <1>8, Counts DEF Geometry, Fenced, Pages
<1>10. /\ size' \in [Pages -> 0 .. NPages] /\ size'[a] = n + m /\ size'[b] = 0
       /\ \A q \in Pages : q # a /\ q # b => size'[q] = size[q]
  <2>1. size \in [Pages -> 0 .. NPages]
    BY <1>1 DEF TypeOK
  <2>2. n + m \in 0 .. NPages /\ 0 \in 0 .. NPages
    BY <1>7, <1>8, <1>9, Counts
  <2>3. QED BY <1>2, <1>5, <2>1, <2>2
<1>11. /\ state' \in [Pages -> {"none", "active"} \cup Pools] /\ state'[b] = "none"
       /\ \A q \in Pages : q # b => state'[q] = state[q]
  BY <1>1, <1>2, <1>5 DEF TypeOK
<1>12. /\ leaf' \in [Pages -> Leaves]
       /\ \A q \in Pages :
             leaf'[q] = IF q = b + m - 1 \/ q = a THEN ExtLeaf(a, FALSE)
                        ELSE IF q = b \/ q = a + n - 1 THEN NullLeaf
                        ELSE leaf[q]
  <2> DEFINE v == ExtLeaf(a, FALSE)
  <2>1. v \in Leaves /\ NullLeaf \in Leaves /\ leaf \in [Pages -> Leaves]
    BY <1>1, <1>5, LeafKinds DEF TypeOK, Leaves
  <2>2. leaf' = [leaf EXCEPT ![a + n - 1] = NullLeaf, ![b] = NullLeaf, ![a] = v, ![b + m - 1] = v]
    BY <1>2
  <2> HIDE DEF v
  <2>3. /\ leaf' \in [Pages -> Leaves]
        /\ \A q \in Pages :
             leaf'[q] = IF q = b + m - 1 \/ q = a THEN v
                        ELSE IF q = b \/ q = a + n - 1 THEN NullLeaf
                        ELSE leaf[q]
    BY <2>1, <2>2, <1>5, <1>9
  <2>4. QED BY <2>3 DEF v
<1>13. TypeOK'
  <2>1. /\ cur' \in [Threads -> Pages \cup {Nil}] /\ oth' \in [Threads -> Pages \cup {Nil}]
        /\ pc' \in [Threads -> Label]
    BY <1>1, <1>2, <1>5 DEF TypeOK, Label
  <2>2. QED BY <1>1, <1>2, <1>10, <1>11, <1>12, <2>1 DEF TypeOK, Leaves
<1>14. Geometry'
  <2>1. Live'
    BY <1>1, <1>5, <1>8, <1>10, <1>11 DEF Geometry, Live
  <2>2. Fenced'
    <3>1. a + size'[a] <= NPages /\ b + size'[b] <= NPages
      BY <1>7, <1>8, <1>9, <1>10, Counts
    <3>2. QED BY <3>1, <1>1, <1>10 DEF Geometry, Fenced
  <2>3. Disjoint'
    <3>1. SUFFICES ASSUME NEW e \in Pages, NEW f \in Pages, e < f, size'[e] > 0, size'[f] > 0
                   PROVE  e + size'[e] <= f
      BY DEF Disjoint
    <3>2. e # b /\ f # b
      BY <3>1, <1>10
    <3>3. CASE e = a
      <4>1. f # a /\ size[f] > 0 /\ (f < b => f + size[f] <= b) /\ (b < f => b + m <= f)
            /\ a + n <= f
        BY <3>1, <3>2, <3>3, <1>1, <1>5, <1>6, <1>8, <1>10 DEF Geometry, Disjoint
      <4>2. QED BY <4>1, <3>2, <3>3, <1>6, <1>7, <1>8, <1>10
    <3>4. CASE e # a
      BY <3>1, <3>2, <3>4, <1>1, <1>5, <1>6, <1>8, <1>10 DEF Geometry, Disjoint
    <3>5. QED BY <3>3, <3>4
  <2>4. NewFree'
    <3>1. SUFFICES ASSUME newN > 0, NEW q \in Pages, size'[q] > 0
                   PROVE  q + size'[q] <= newAddr \/ newAddr + newN <= q
      BY <1>2 DEF NewFree
    <3>2. newAddr \in Nat /\ newN \in Nat
      BY <1>1, Counts DEF TypeOK
    <3>3. CASE q = a
      <4>1. /\ a + n <= newAddr \/ newAddr + newN <= a
            /\ b + m <= newAddr \/ newAddr + newN <= b
        BY <3>1, <1>1, <1>5, <1>8 DEF Geometry, NewFree
      <4>2. QED BY <3>1, <3>2, <3>3, <4>1, <1>7, <1>8, <1>10
    <3>4. CASE q # a
      BY <3>1, <3>4, <1>1, <1>10 DEF Geometry, NewFree
    <3>5. QED BY <3>3, <3>4
  <2>5. NewMapped'
    BY <1>1, <1>2 DEF Geometry, NewMapped
  <2>6. AllMapped'
    <3>1. SUFFICES ASSUME NEW e \in Pages, NEW q \in Pages, e <= q, q < e + size'[e]
                   PROVE  InMapped(q)
      BY <1>2 DEF AllMapped, InMapped
    <3>2. e # b
      BY <3>1, <1>6, <1>10
    <3>3. CASE e = a
      <4>1. (a <= q /\ q < a + n) \/ (b <= q /\ q < b + m)
        BY <3>1, <3>3, <1>6, <1>7, <1>8, <1>10
      <4>2. QED BY <4>1, <1>1, <1>5, <1>8 DEF Geometry, AllMapped
    <3>4. CASE e # a
      BY <3>1, <3>2, <3>4, <1>1, <1>10 DEF Geometry, AllMapped
    <3>5. QED BY <3>3, <3>4
  <2>7. QED BY <2>1, <2>2, <2>3, <2>4, <2>5, <2>6 DEF Geometry
<1>15. LeafNames'
  <2>1. SUFFICES ASSUME NEW q \in Pages, leaf'[q].tag = "extent"
                 PROVE  /\ leaf'[q].id \in Pages
                        /\ size'[leaf'[q].id] > 0
                        /\ q = leaf'[q].id \/ q = leaf'[q].id + size'[leaf'[q].id] - 1
    BY DEF LeafNames
  <2>2. CASE q = b + m - 1 \/ q = a
    <3>1. leaf'[q].id = a
      BY <2>2, <1>5, <1>12, LeafKinds
    <3>2. QED BY <2>2, <3>1, <1>5, <1>7, <1>8, <1>10
  <2>3. CASE ~(q = b + m - 1 \/ q = a)
    <3>1. leaf'[q] = leaf[q] /\ q # b /\ q # a + n - 1
      <4>1. NullLeaf.tag = "null"
        BY DEF NullLeaf
      <4>2. QED BY <2>1, <2>3, <4>1, <1>12
    <3>2. /\ leaf[q].id \in Pages /\ size[leaf[q].id] > 0
          /\ q = leaf[q].id \/ q = leaf[q].id + size[leaf[q].id] - 1
      BY <1>1, <2>1, <3>1 DEF LeafNames
    <3>3. leaf[q].id # a /\ leaf[q].id # b
      BY <2>3, <3>1, <3>2, <1>8
    <3>4. QED BY <3>1, <3>2, <3>3, <1>10
  <2>4. QED BY <2>2, <2>3
<1>16. ListsMatch'
  <2>1. \A q \in Pages : state'[q] = state[q] \/ {state[q], state'[q]} \subseteq {"none", "active"}
    BY <1>5, <1>11
  <2>2. QED BY <1>1, <1>2, <2>1, ListsKept
<1>17. b \notin allocated
  BY <1>1, <1>5 DEF HeldAlone
<1>18. ClientsActive'
  BY <1>1, <1>2, <1>11, <1>17 DEF ClientsActive, TypeOK
<1>19. /\ OthersKeep(t) /\ cur'[t] = a /\ oth'[t] = Nil /\ stash'[t] = stash[t]
       /\ pc'[t] \in {"record", "reinsert"} /\ want'[t] = want[t]
  BY <1>1, <1>2 DEF OthersKeep, TypeOK
<1>20. /\ a \notin Elems(stash[t]) /\ b \notin Elems(stash[t]) /\ Nil \notin Elems(stash[t])
       /\ Distinct(stash[t])
  <2>1. stash[t] \in Seq(Pages)
    BY <1>1 DEF TypeOK
  <2>2. \A i \in DOMAIN stash[t] : stash[t][i] \in Pages
    BY <2>1
  <2>3. Nil \notin Elems(stash[t])
    BY <2>2, Counts DEF Elems, Pages, Nil
  <2>4. QED BY <2>3, <1>1, <1>5 DEF LocalOK
<1>21. Held(t)' = Held(t) \ {b}
  BY <1>5, <1>19, <1>20 DEF Held
<1>22. LocalOK(t)'
  BY <1>5, <1>19, <1>20 DEF LocalOK, WithCur, WithOth, Serving
<1>23. HeldSafe(t)
  <2>1. \A q \in Held(t) : q \in Pages /\ state[q] = "active" /\ q \notin allocated
    BY <1>1, HeldIsPage DEF HeldAlone
  <2>2. QED BY <2>1, <1>2, <1>11, <1>21 DEF HeldSafe
<1>24. OthersSafe(t)
  BY <1>2, <1>5, <1>10, <1>11 DEF OthersSafe
<1>25. QED BY <1>13, <1>14, <1>15, <1>16, <1>18, <1>19, <1>22, <1>23, <1>24, StepKeeps

-----------------------------------------------------------------------------
(* Decay. *)

EvictPool(t) == {x \in Pages : EvictSt(t)[x] = "dirty"}

(* The dirty pool extents_evict sees is in step with the states it sees.    *)
LEMMA EvictView ==
  ASSUME IndInv, NEW t \in Threads, pc[t] \in {"evict", "reinsert"}
  PROVE  /\ EvictLru(t) \in Seq(Pages) /\ Distinct(EvictLru(t))
         /\ Elems(EvictLru(t)) = EvictPool(t)
         /\ EvictSt(t) \in [Pages -> {"none", "active"} \cup Pools]
         /\ \A x \in Pages : EvictSt(t)[x] = state[x] \/ (x = cur[t] /\ EvictSt(t)[x] = "dirty")
         /\ cur[t] # Nil => EvictSt(t)[cur[t]] = "dirty"
         /\ EvictNp(t) \in Int
         /\ oth[t] = Nil
<1>1. TypeOK /\ ListsMatch /\ LocalOK(t) /\ HeldAlone
  BY DEF IndInv, LocalsOK
<1>2. oth[t] = Nil
  BY <1>1 DEF LocalOK, WithOth
<1>3. /\ lru["dirty"] \in Seq(Pages) /\ Distinct(lru["dirty"])
      /\ Elems(lru["dirty"]) = InPool("dirty") /\ npages["dirty"] \in Int
      /\ state \in [Pages -> {"none", "active"} \cup Pools]
  BY <1>1 DEF TypeOK, ListsMatch, Pools
<1>4. CASE Back(t)
  <2>1. cur[t] \in Pages /\ state[cur[t]] = "active" /\ cur[t] # Nil
    BY <1>1, <1>4 DEF Back, LocalOK, WithCur, TypeOK, Held, HeldAlone
  <2>2. size[cur[t]] \in Int
    BY <1>1, <2>1, SizesAreCounts
  <2>3. /\ EvictLru(t) = Append(lru["dirty"], cur[t])
        /\ EvictNp(t) = npages["dirty"] + size[cur[t]]
        /\ EvictSt(t) = [state EXCEPT ![cur[t]] = "dirty"]
    BY <1>4 DEF EvictLru, EvictNp, EvictSt
  <2>4. cur[t] \notin Elems(lru["dirty"])
    BY <1>3, <2>1 DEF InPool
  <2>5. /\ EvictLru(t) \in Seq(Pages) /\ Distinct(EvictLru(t))
        /\ Elems(EvictLru(t)) = Elems(lru["dirty"]) \cup {cur[t]}
    BY <1>3, <2>1, <2>3, <2>4, AppendList
  <2>6. /\ EvictSt(t) \in [Pages -> {"none", "active"} \cup Pools]
        /\ EvictSt(t)[cur[t]] = "dirty"
        /\ \A x \in Pages : x # cur[t] => EvictSt(t)[x] = state[x]
    BY <1>3, <2>1, <2>3 DEF Pools
  <2>7. Elems(EvictLru(t)) = EvictPool(t)
    BY <1>3, <2>1, <2>5, <2>6 DEF InPool, EvictPool
  <2>8. EvictNp(t) \in Int
    BY <1>3, <2>2, <2>3
  <2>9. QED BY <1>2, <2>5, <2>6, <2>7, <2>8
<1>5. CASE ~Back(t)
  <2>1. cur[t] = Nil
    BY <1>1, <1>5 DEF Back, LocalOK, WithCur
  <2>2. EvictLru(t) = lru["dirty"] /\ EvictNp(t) = npages["dirty"] /\ EvictSt(t) = state
    BY <1>5 DEF EvictLru, EvictNp, EvictSt
  <2>3. EvictPool(t) = InPool("dirty")
    BY <2>2 DEF InPool, EvictPool
  <2>4. \A x \in Pages : EvictSt(t)[x] = state[x]
    BY <2>2
  <2>5. QED BY <1>2, <1>3, <2>1, <2>2, <2>3, <2>4
<1>6. QED BY <1>4, <1>5

(* A step of extents_evict that takes the extents in gone out of the dirty  *)
(* pool.                                                                    *)
LEMMA EvictKeeps ==
  ASSUME IndInv, NEW t \in Threads, EvictStep(t), UNCHANGED failed,
         NEW gone \in SUBSET Elems(EvictLru(t)),
         NEW L \in Seq(Pages), Distinct(L), Elems(L) = Elems(EvictLru(t)) \ gone,
         lru' = [lru EXCEPT !["dirty"] = L],
         npages' \in [Pools -> Int],
         state' \in [Pages -> {"none", "active"} \cup Pools],
         \A x \in Pages : state'[x] = IF x \in gone THEN "active" ELSE EvictSt(t)[x],
         OthersKeep(t), LocalOK(t)',
         Held(t)' \subseteq (Held(t) \ {cur[t]}) \cup gone,
         pc' \in [Threads -> Label], quota' \in [Threads -> Int],
         cur' \in [Threads -> Pages \cup {Nil}], oth' \in [Threads -> Pages \cup {Nil}],
         stash' \in [Threads -> Seq(Pages)]
  PROVE  IndInv'
<1>1. TypeOK /\ Geometry /\ LeafNames /\ ListsMatch /\ LocalOK(t) /\ HeldAlone /\ ClientsActive
  BY DEF IndInv, Geometry, LocalsOK
<1>2. /\ pc[t] \in {"evict", "reinsert"}
      /\ UNCHANGED <<mapped, newAddr, newN, size, slab, leaf, allocated, purging, want,
                    pool, at, limit, failed>>
  BY DEF EvictStep, memVars
<1>3. /\ Elems(EvictLru(t)) = EvictPool(t)
      /\ EvictPool(t) = {x \in Pages : EvictSt(t)[x] = "dirty"}
      /\ \A x \in Pages : EvictSt(t)[x] = state[x] \/ (x = cur[t] /\ EvictSt(t)[x] = "dirty")
  BY <1>2, EvictView DEF EvictPool
<1>4. \A q \in Held(t) : q \in Pages /\ state[q] = "active" /\ q \notin allocated
  BY <1>1, HeldIsPage DEF HeldAlone
<1>5. cur[t] # Nil => cur[t] \in Held(t)
  BY DEF Held
<1>6. Nil \notin Pages
  BY Counts DEF Pages, Nil
<1>7. \A x \in gone : /\ x \in Pages /\ EvictSt(t)[x] = "dirty" /\ state'[x] = "active"
                     /\ x \notin allocated /\ (x \in Held(t) \/ state[x] = "dirty")
  <2> TAKE x \in gone
  <2>1. x \in Pages /\ EvictSt(t)[x] = "dirty" /\ state'[x] = "active"
    BY <1>3
  <2>2. CASE state[x] = "dirty"
    BY <2>1, <2>2, <1>1 DEF ClientsActive
  <2>3. CASE x = cur[t]
    BY <2>1, <2>3, <1>4, <1>5, <1>6
  <2>4. QED BY <1>3, <2>1, <2>2, <2>3
<1>8. \A x \in Pages : \/ state'[x] = state[x]
                        \/ {state[x], state'[x]} \subseteq {"active", "dirty"}
  <2> TAKE x \in Pages
  <2>1. CASE x \in gone
    <3>1. state'[x] = "active" /\ (x \in Held(t) \/ state[x] = "dirty")
      BY <2>1, <1>7
    <3>2. QED BY <3>1, <1>4
  <2>2. CASE x \notin gone
    <3>1. state'[x] = EvictSt(t)[x]
      BY <2>2
    <3>2. CASE EvictSt(t)[x] = state[x]
      BY <3>1, <3>2
    <3>3. CASE x = cur[t] /\ EvictSt(t)[x] = "dirty"
      BY <3>1, <3>3, <1>4, <1>5, <1>6
    <3>4. QED BY <3>2, <3>3, <1>3
  <2>3. QED BY <2>1, <2>2
<1>9. lru' \in [Pools -> Seq(Pages)] /\ lru'["dirty"] = L /\ lru'["muzzy"] = lru["muzzy"]
  BY <1>1 DEF TypeOK, Pools
<1>10. TypeOK'
  BY <1>1, <1>2, <1>9 DEF TypeOK
<1>11. Geometry'
  <2>1. \A x \in Pages : state'[x] = "none" <=> state[x] = "none"
    BY <1>8
  <2>2. UNCHANGED <<memVars, size>>
    BY <1>2 DEF memVars
  <2>3. QED BY <1>1, <2>1, <2>2, GeometryKept
<1>12. LeafNames'
  BY <1>1, <1>2 DEF LeafNames
<1>13. ListsMatch'
  <2>1. InPool("dirty")' = Elems(L)
    BY <1>3 DEF InPool
  <2>2. InPool("muzzy")' = InPool("muzzy")
    <3>1. \A x \in Pages : state'[x] = "muzzy" <=> state[x] = "muzzy"
      BY <1>8
    <3>2. QED BY <3>1 DEF InPool
  <2>3. QED BY <1>1, <1>9, <2>1, <2>2 DEF ListsMatch, Pools
<1>14. ClientsActive'
  <2>1. SUFFICES ASSUME NEW x \in allocated PROVE state'[x] = "active"
    BY <1>2 DEF ClientsActive
  <2>2. x \in Pages /\ state[x] = "active" /\ x \notin Held(t)
    BY <1>1, <1>4 DEF ClientsActive, TypeOK
  <2>3. x # cur[t]
    BY <2>2, <1>5, <1>6
  <2>4. QED BY <2>2, <2>3, <1>3, <1>7
<1>15. HeldSafe(t)
  BY <1>2, <1>3, <1>4, <1>7 DEF HeldSafe
<1>16. OthersSafe(t)
  <2>1. SUFFICES ASSUME NEW x \in Pages, state[x] = "active", x \notin Held(t), x \notin allocated
                 PROVE  state'[x] = "active"
    BY <1>2 DEF OthersSafe
  <2>2. x # cur[t]
    BY <2>1, <1>5, <1>6
  <2>3. QED BY <2>1, <2>2, <1>3, <1>7
<1>17. QED BY <1>10, <1>11, <1>12, <1>13, <1>14, <1>15, <1>16, StepKeeps

LEMMA EvictNoneKeeps ==
  ASSUME IndInv, NEW t \in Threads, EvictNone(t), UNCHANGED failed
  PROVE  IndInv'
<1>1. TypeOK /\ LocalOK(t)
  BY DEF IndInv, LocalsOK
<1>2. /\ EvictStep(t) /\ pc[t] \in {"evict", "reinsert"}
      /\ lru' = [lru EXCEPT !["dirty"] = EvictLru(t)]
      /\ npages' = [npages EXCEPT !["dirty"] = EvictNp(t)]
      /\ state' = EvictSt(t) /\ cur' = [cur EXCEPT ![t] = Nil]
      /\ pc' = [pc EXCEPT ![t] = "stash"] /\ oth' = oth /\ quota' = quota /\ stash' = stash
      /\ want' = want
  BY DEF EvictNone, EvictStep, Goto
<1>3. /\ EvictLru(t) \in Seq(Pages) /\ Distinct(EvictLru(t)) /\ EvictNp(t) \in Int
      /\ EvictSt(t) \in [Pages -> {"none", "active"} \cup Pools] /\ oth[t] = Nil
  BY <1>2, EvictView
<1>4. /\ pc' \in [Threads -> Label] /\ quota' \in [Threads -> Int]
      /\ cur' \in [Threads -> Pages \cup {Nil}] /\ oth' \in [Threads -> Pages \cup {Nil}]
      /\ stash' \in [Threads -> Seq(Pages)] /\ npages' \in [Pools -> Int]
  BY <1>1, <1>2, <1>3 DEF TypeOK, Label, Pools
<1>5. OthersKeep(t) /\ cur'[t] = Nil /\ oth'[t] = Nil /\ stash'[t] = stash[t] /\ pc'[t] = "stash"
  BY <1>1, <1>2, <1>3 DEF OthersKeep, TypeOK
<1>6. Nil \notin Elems(stash[t]) /\ cur[t] \notin Elems(stash[t]) /\ Distinct(stash[t])
  BY <1>1, <1>3 DEF LocalOK
<1>7. LocalOK(t)'
  BY <1>5, <1>6 DEF LocalOK, WithCur, WithOth, Serving
<1> DEFINE none == {}
<1>8. Held(t)' \subseteq (Held(t) \ {cur[t]}) \cup none
  BY <1>5, <1>6 DEF Held
<1>9. none \in SUBSET Elems(EvictLru(t)) /\ Elems(EvictLru(t)) = Elems(EvictLru(t)) \ none
      /\ state' \in [Pages -> {"none", "active"} \cup Pools]
      /\ \A x \in Pages : state'[x] = IF x \in none THEN "active" ELSE EvictSt(t)[x]
  BY <1>2, <1>3
<1> HIDE DEF none
<1>10. QED BY <1>2, <1>3, <1>4, <1>5, <1>7, <1>8, <1>9, EvictKeeps

LEMMA EvictOneKeeps ==
  ASSUME IndInv, NEW t \in Threads, EvictOne(t), UNCHANGED failed
  PROVE  IndInv'
<1> DEFINE x == Head(EvictLru(t))
           L == Tail(EvictLru(t))
           next == IF quota[t] - size[x] > 0 THEN "evict" ELSE "stash"
<1>1. TypeOK /\ LocalOK(t) /\ HeldAlone
  BY DEF IndInv, LocalsOK
<1>2. /\ EvictStep(t) /\ pc[t] \in {"evict", "reinsert"} /\ EvictLru(t) # <<>>
      /\ lru' = [lru EXCEPT !["dirty"] = L]
      /\ npages' = [npages EXCEPT !["dirty"] = EvictNp(t) - size[x]]
      /\ state' = [EvictSt(t) EXCEPT ![x] = "active"]
      /\ stash' = [stash EXCEPT ![t] = Append(@, x)]
      /\ quota' = [quota EXCEPT ![t] = @ - size[x]]
      /\ cur' = [cur EXCEPT ![t] = Nil]
      /\ pc' = [pc EXCEPT ![t] = next] /\ oth' = oth /\ want' = want
  BY DEF EvictOne, EvictStep, Goto, EvictDone
<1>3. /\ EvictLru(t) \in Seq(Pages) /\ Distinct(EvictLru(t)) /\ EvictNp(t) \in Int
      /\ Elems(EvictLru(t)) = EvictPool(t)
      /\ \A q : q \in EvictPool(t) <=> q \in Pages /\ EvictSt(t)[q] = "dirty"
      /\ EvictSt(t) \in [Pages -> {"none", "active"} \cup Pools] /\ oth[t] = Nil
      /\ \A q \in Pages : EvictSt(t)[q] = state[q] \/ (q = cur[t] /\ EvictSt(t)[q] = "dirty")
  BY <1>2, EvictView DEF EvictPool
<1>4. /\ x \in Elems(EvictLru(t)) /\ x \in Pages /\ L \in Seq(Pages) /\ Distinct(L)
      /\ Elems(L) = Elems(EvictLru(t)) \ {x}
  BY <1>2, <1>3, TailList
<1> HIDE DEF x, L
<1>5. size[x] \in Int
  BY <1>1, <1>4, SizesAreCounts
<1>6. Nil \notin Elems(stash[t]) /\ cur[t] \notin Elems(stash[t]) /\ Distinct(stash[t])
      /\ stash[t] \in Seq(Pages)
  BY <1>1, <1>3 DEF LocalOK, TypeOK
<1>7. x \notin Elems(stash[t]) /\ x # Nil
  <2>1. CASE x = cur[t]
    BY <2>1, <1>4, <1>6, Counts DEF Pages, Nil
  <2>2. CASE x # cur[t]
    <3>1. state[x] = "dirty"
      BY <1>3, <1>4, <2>2
    <3>2. x \notin Held(t)
      BY <1>1, <3>1 DEF HeldAlone
    <3>3. QED BY <1>4, <3>2, Counts DEF Held, Pages, Nil
  <2>3. QED BY <2>1, <2>2
<1>8. /\ Append(stash[t], x) \in Seq(Pages) /\ Distinct(Append(stash[t], x))
      /\ Elems(Append(stash[t], x)) = Elems(stash[t]) \cup {x}
  BY <1>4, <1>6, <1>7, AppendList
<1>9. /\ pc' \in [Threads -> Label] /\ quota' \in [Threads -> Int]
      /\ cur' \in [Threads -> Pages \cup {Nil}] /\ oth' \in [Threads -> Pages \cup {Nil}]
      /\ npages' \in [Pools -> Int]
  <2>1. npages' \in [Pools -> Int]
    <3>1. EvictNp(t) - size[x] \in Int /\ npages \in [Pools -> Int]
      BY <1>1, <1>3, <1>5 DEF TypeOK
    <3>2. QED BY <3>1, <1>2
  <2>2. pc' \in [Threads -> Label]
    BY <1>1, <1>2 DEF TypeOK, Label
  <2>3. quota' \in [Threads -> Int]
    BY <1>1, <1>2, <1>5 DEF TypeOK
  <2>4. QED BY <2>1, <2>2, <2>3, <1>1, <1>2 DEF TypeOK
<1>10. /\ stash' \in [Threads -> Seq(Pages)] /\ stash'[t] = Append(stash[t], x)
       /\ \A u \in Threads \ {t} : stash'[u] = stash[u]
  BY <1>1, <1>2, <1>8 DEF TypeOK
<1>11. /\ OthersKeep(t) /\ cur'[t] = Nil /\ oth'[t] = Nil /\ pc'[t] \in {"evict", "stash"}
  BY <1>1, <1>2, <1>3, <1>10 DEF OthersKeep, TypeOK
<1>12. LocalOK(t)'
  BY <1>6, <1>7, <1>8, <1>10, <1>11 DEF LocalOK, WithCur, WithOth, Serving
<1>13. Held(t)' \subseteq (Held(t) \ {cur[t]}) \cup {x}
  BY <1>6, <1>8, <1>10, <1>11 DEF Held
<1>14. /\ state' \in [Pages -> {"none", "active"} \cup Pools]
       /\ \A q \in Pages : state'[q] = IF q \in {x} THEN "active" ELSE EvictSt(t)[q]
  BY <1>2, <1>3, <1>4
<1>15. {x} \in SUBSET Elems(EvictLru(t))
  BY <1>4
<1>16. QED BY <1>2, <1>4, <1>9, <1>10, <1>11, <1>12, <1>13, <1>14, <1>15, EvictKeeps

LEMMA EvictCoalesceKeeps ==
  ASSUME IndInv, NEW t \in Threads, EvictCoalesce(t), UNCHANGED failed
  PROVE  IndInv'
<1> DEFINE x == Head(EvictLru(t))
           side == IF "next" \in EvictSides(t) THEN "next" ELSE "prev"
           y == Beside(x, side)
           T == Tail(EvictLru(t))
           L == Unlink(T, y)
<1>1. TypeOK /\ LocalOK(t) /\ HeldAlone /\ Geometry /\ LeafNames
  BY DEF IndInv, LocalsOK, Geometry
<1>2. /\ EvictStep(t) /\ pc[t] \in {"evict", "reinsert"} /\ EvictLru(t) # <<>>
      /\ EvictSides(t) # {}
      /\ lru' = [lru EXCEPT !["dirty"] = L]
      /\ npages' = [npages EXCEPT !["dirty"] = EvictNp(t) - size[x] - size[y]]
      /\ state' = [EvictSt(t) EXCEPT ![x] = "active", ![y] = "active"]
      /\ cur' = [cur EXCEPT ![t] = x] /\ oth' = [oth EXCEPT ![t] = y]
      /\ pc' = [pc EXCEPT ![t] = "emerge"] /\ quota' = quota /\ stash' = stash /\ want' = want
  BY DEF EvictCoalesce, EvictStep, Goto, EvictDone
<1>3. /\ EvictLru(t) \in Seq(Pages) /\ Distinct(EvictLru(t)) /\ EvictNp(t) \in Int
      /\ Elems(EvictLru(t)) = EvictPool(t)
      /\ \A q : q \in EvictPool(t) <=> q \in Pages /\ EvictSt(t)[q] = "dirty"
      /\ EvictSt(t) \in [Pages -> {"none", "active"} \cup Pools] /\ oth[t] = Nil
      /\ \A q \in Pages : EvictSt(t)[q] = state[q] \/ (q = cur[t] /\ EvictSt(t)[q] = "dirty")
  BY <1>2, EvictView DEF EvictPool
<1>4. /\ x \in Elems(EvictLru(t)) /\ x \in Pages /\ T \in Seq(Pages) /\ Distinct(T)
      /\ Elems(T) = Elems(EvictLru(t)) \ {x}
  BY <1>2, <1>3, TailList
<1>5. side \in Sides /\ Evictable(t, side)
  BY <1>2 DEF EvictSides, Sides
<1>6. /\ SidePage(x, side) \in Pages /\ leaf[SidePage(x, side)].tag = "extent"
      /\ EvictSt(t)[y] = "dirty"
  BY <1>5 DEF Evictable, Coalescible
<1>7. size[x] > 0
  <2>1. state[x] \in {"active", "dirty"}
    <3>1. CASE x = cur[t]
      <4>1. x \in Held(t)
        BY <1>4, <3>1, Counts DEF Held, Pages, Nil
      <4>2. QED BY <1>1, <4>1 DEF HeldAlone
    <3>2. CASE x # cur[t]
      BY <1>3, <1>4, <3>2
    <3>3. QED BY <3>1, <3>2
  <2>2. QED BY <1>1, <1>4, <2>1, ActivesExist DEF Geometry
<1> HIDE DEF x, T, side
<1>8. /\ y \in Pages /\ y # x
      /\ x + size[x] = y \/ y + size[y] = x
  BY <1>1, <1>4, <1>5, <1>6, <1>7, BesideIsNeighbour
<1> HIDE DEF y
<1>9. y \in Elems(T)
  BY <1>3, <1>4, <1>6, <1>8
<1>10. L \in Seq(Pages) /\ Distinct(L) /\ Elems(L) = Elems(EvictLru(t)) \ {x, y}
  BY <1>4, <1>9, UnlinkList
<1> HIDE DEF L
<1>11. size[x] \in Int /\ size[y] \in Int
  BY <1>1, <1>4, <1>8, SizesAreCounts
<1>12. Nil \notin Elems(stash[t]) /\ cur[t] \notin Elems(stash[t]) /\ Distinct(stash[t])
  BY <1>1, <1>3 DEF LocalOK
<1>13. \A q \in Pages : EvictSt(t)[q] = "dirty" => q \notin Elems(stash[t]) /\ q # Nil
  <2> TAKE q \in Pages
  <2> HAVE EvictSt(t)[q] = "dirty"
  <2>1. q # Nil
    BY Counts DEF Pages, Nil
  <2>2. CASE q = cur[t]
    BY <2>1, <2>2, <1>12
  <2>3. CASE q # cur[t]
    <3>1. state[q] = "dirty"
      BY <1>3, <2>3
    <3>2. q \notin Held(t)
      BY <1>1, <3>1 DEF HeldAlone
    <3>3. QED BY <2>1, <3>2 DEF Held
  <2>4. QED BY <2>2, <2>3
<1>14. x \notin Elems(stash[t]) /\ y \notin Elems(stash[t]) /\ x # Nil /\ y # Nil
  BY <1>3, <1>4, <1>6, <1>8, <1>13
<1>15. /\ pc' \in [Threads -> Label] /\ quota' \in [Threads -> Int]
       /\ cur' \in [Threads -> Pages \cup {Nil}] /\ oth' \in [Threads -> Pages \cup {Nil}]
       /\ stash' \in [Threads -> Seq(Pages)] /\ npages' \in [Pools -> Int]
  <2>1. npages' \in [Pools -> Int]
    <3>1. EvictNp(t) - size[x] - size[y] \in Int
      <4>1. EvictNp(t) \in Int
        BY <1>3
      <4>2. QED BY <4>1, <1>11
    <3>2. npages \in [Pools -> Int]
      BY <1>1 DEF TypeOK
    <3>3. QED BY <3>1, <3>2, <1>2
  <2>2. pc' \in [Threads -> Label]
    BY <1>1, <1>2 DEF TypeOK, Label
  <2>3. /\ cur' \in [Threads -> Pages \cup {Nil}] /\ oth' \in [Threads -> Pages \cup {Nil}]
    BY <1>1, <1>2, <1>4, <1>8 DEF TypeOK
  <2>4. quota' \in [Threads -> Int] /\ stash' \in [Threads -> Seq(Pages)]
    BY <1>1, <1>2 DEF TypeOK
  <2>5. QED BY <2>1, <2>2, <2>3, <2>4
<1>16. /\ OthersKeep(t) /\ cur'[t] = x /\ oth'[t] = y /\ pc'[t] = "emerge"
       /\ stash'[t] = stash[t] /\ size' = size
  BY <1>1, <1>2 DEF OthersKeep, TypeOK, EvictStep
<1>17. LocalOK(t)'
  BY <1>8, <1>12, <1>14, <1>16 DEF LocalOK, WithCur, WithOth, Serving
<1>18. Held(t)' \subseteq (Held(t) \ {cur[t]}) \cup {x, y}
  BY <1>12, <1>16 DEF Held
<1>19. /\ state' \in [Pages -> {"none", "active"} \cup Pools]
       /\ \A q \in Pages : state'[q] = IF q \in {x, y} THEN "active" ELSE EvictSt(t)[q]
  BY <1>2, <1>3, <1>4, <1>8
<1>20. {x, y} \in SUBSET Elems(EvictLru(t))
  BY <1>4, <1>9
<1>21. QED BY <1>2, <1>10, <1>15, <1>16, <1>17, <1>18, <1>19, <1>20, EvictKeeps

(* Steps that change nothing but where t is and what its decay counts.      *)
LEMMA MoveKeeps ==
  ASSUME IndInv, NEW t \in Threads, NEW from \in {"idle", "stash"}, NEW to \in {"idle", "evict"},
         pc[t] = from, pc' = [pc EXCEPT ![t] = to],
         purging' \in BOOLEAN, limit' \in [Threads -> Nat], quota' \in [Threads -> Int],
         UNCHANGED <<memVars, objVars, poolVars, allocated, failed, want, pool, cur, oth, at, stash>>
  PROVE  IndInv'
<1>1. TypeOK /\ Geometry /\ LeafNames /\ ListsMatch /\ LocalOK(t) /\ HeldAlone /\ ClientsActive
  BY DEF IndInv, Geometry, LocalsOK
<1>2. UNCHANGED <<mapped, newAddr, newN, size, state, slab, leaf, lru, npages, allocated,
                  failed, want, pool, cur, oth, at, stash>>
  BY DEF memVars, objVars, poolVars
<1>3. TypeOK'
  BY <1>1, <1>2 DEF TypeOK, Label
<1>4. Geometry' /\ LeafNames' /\ ListsMatch' /\ ClientsActive'
  BY <1>1, <1>2, GeometryKept, ListsKept DEF memVars, LeafNames, ClientsActive
<1>5. OthersKeep(t) /\ Held(t)' = Held(t) /\ pc'[t] = to
  BY <1>1, <1>2 DEF OthersKeep, Held, TypeOK
<1>6. LocalOK(t)'
  BY <1>1, <1>2, <1>5 DEF LocalOK, WithCur, WithOth, Serving
<1>7. HeldSafe(t) /\ OthersSafe(t)
  BY <1>1, <1>2, <1>5 DEF HeldSafe, OthersSafe, HeldAlone
<1>8. QED BY <1>3, <1>4, <1>5, <1>6, <1>7, StepKeeps

LEMMA DecayStartKeeps ==
  ASSUME IndInv, NEW t \in Threads, NEW lim \in DecayLimits, DecayStart(t, lim), UNCHANGED failed
  PROVE  IndInv'
<1>1. TypeOK
  BY DEF IndInv
<1>2. lim \in Nat /\ npages["dirty"] \in Int
  BY <1>1, ExtentsAssumption DEF TypeOK, Pools
<1>3. /\ purging' \in BOOLEAN /\ limit' \in [Threads -> Nat] /\ quota' \in [Threads -> Int]
  BY <1>1, <1>2 DEF DecayStart, TypeOK
<1>4. /\ pc[t] = "idle" /\ pc' = [pc EXCEPT ![t] = "evict"]
      /\ UNCHANGED <<memVars, objVars, poolVars, allocated, failed, want, pool, cur, oth, at, stash>>
  BY DEF DecayStart, Goto
<1>5. QED BY <1>3, <1>4, MoveKeeps

LEMMA DecayEndKeeps ==
  ASSUME IndInv, NEW t \in Threads, DecayEnd(t), UNCHANGED failed
  PROVE  IndInv'
<1>1. TypeOK
  BY DEF IndInv
<1>2. /\ purging' \in BOOLEAN /\ limit' \in [Threads -> Nat] /\ quota' \in [Threads -> Int]
  <2>1. /\ purging' = FALSE /\ limit' = [limit EXCEPT ![t] = 0] /\ quota' = [quota EXCEPT ![t] = 0]
    BY DEF DecayEnd, Purged
  <2>2. limit \in [Threads -> Nat] /\ quota \in [Threads -> Int]
    BY <1>1 DEF TypeOK
  <2>3. limit' \in [Threads -> Nat] /\ quota' \in [Threads -> Int]
    BY <2>1, <2>2
  <2>4. purging' \in BOOLEAN
    BY <2>1, Zenon
  <2>5. QED BY <2>3, <2>4
<1>3. /\ pc[t] = "stash" /\ pc' = [pc EXCEPT ![t] = "idle"]
      /\ UNCHANGED <<memVars, objVars, poolVars, allocated, failed, want, pool, cur, oth, at, stash>>
  BY DEF DecayEnd, Goto
<1>4. QED BY <1>2, <1>3, MoveKeeps

(* Nothing but failed changes. *)
LEMMA StandKeeps ==
  ASSUME IndInv, failed' \in {"no", "extent.c:524", "extent.c:435", "arena.c:568"},
         UNCHANGED <<memVars, objVars, poolVars, allocated, pc, cur, oth, runVars>>
  PROVE  IndInv'
<1>1. UNCHANGED <<mapped, newAddr, newN, size, state, slab, leaf, lru, npages, allocated,
                  pc, cur, oth, want, pool, at, purging, limit, quota, stash>>
  BY DEF memVars, objVars, poolVars, runVars, decayVars
<1>2. TypeOK'
  BY <1>1 DEF IndInv, TypeOK
<1>3. Live' /\ Fenced' /\ Disjoint' /\ NewFree' /\ NewMapped' /\ AllMapped' /\ LeafNames'
  BY <1>1 DEF IndInv, Live, Fenced, Disjoint, NewFree, NewMapped, AllMapped, InMapped, LeafNames
<1>4. ListsMatch' /\ HeldAlone' /\ ClientsActive'
  BY <1>1 DEF IndInv, ListsMatch, InPool, HeldAlone, Held, ClientsActive
<1>5. LocalsOK'
  BY <1>1 DEF IndInv, LocalsOK, LocalOK
<1>6. QED BY <1>2, <1>3, <1>4, <1>5 DEF IndInv

-----------------------------------------------------------------------------
(* The invariant. *)

LEMMA InitInv == Init => IndInv
<1> SUFFICES ASSUME Init PROVE IndInv
  OBVIOUS
<1>1. PICK b \in ChunkBases : mapped = {b} /\ newAddr = b
  BY DEF Init
<1>2. b \in Nat /\ b + ChunkPages <= NPages
  BY Counts
<1>3. TypeOK
  <2>1. newAddr \in 0 .. NPages /\ newN \in 0 .. SizeMod - 1 /\ mapped \subseteq ChunkBases
    BY <1>1, <1>2, Counts DEF Init
  <2>2. size \in [Pages -> 0 .. NPages] /\ leaf \in [Pages -> Leaves]
    BY Counts DEF Init, NullLeaf, Leaves
  <2>3. lru \in [Pools -> Seq(Pages)] /\ stash \in [Threads -> Seq(Pages)]
    BY DEF Init
  <2>4. NoWant \in [n : Nat, kind : Kinds]
    BY DEF NoWant, Kinds
  <2>5. want \in [Threads -> [n : Nat, kind : Kinds]]
    BY <2>4 DEF Init
  <2>6. /\ state \in [Pages -> {"none", "active"} \cup Pools] /\ slab \in [Pages -> BOOLEAN]
        /\ npages \in [Pools -> Int] /\ allocated \subseteq Pages
        /\ failed \in {"no", "extent.c:524", "extent.c:435", "arena.c:568"}
    BY DEF Init
  <2>9. purging \in BOOLEAN
    BY Zenon DEF Init
  <2>7. /\ pc \in [Threads -> Label] /\ pool \in [Threads -> Pools]
        /\ cur \in [Threads -> Pages \cup {Nil}] /\ oth \in [Threads -> Pages \cup {Nil}]
        /\ at \in [Threads -> {"next", "prev"}] /\ limit \in [Threads -> Nat]
        /\ quota \in [Threads -> Int]
    BY DEF Init, Label, Pools
  <2>8. QED BY <2>1, <2>2, <2>3, <2>5, <2>6, <2>7, <2>9 DEF TypeOK, Leaves
<1>4. Live /\ Fenced /\ Disjoint /\ NewFree
  BY Counts DEF Init, Live, Fenced, Disjoint, NewFree, Pages
<1>5. NewMapped
  BY <1>1, <1>2, Counts DEF Init, NewMapped
<1>6. AllMapped
  BY Counts DEF Init, AllMapped, Pages
<1>7. LeafNames
  BY DEF Init, LeafNames, NullLeaf
<1>8. ListsMatch
  BY DEF Init, ListsMatch, InPool, Distinct, Elems, Pools
<1>9. \A t \in Threads : Held(t) = {} /\ LocalOK(t)
  <2> TAKE t \in Threads
  <2>1. Elems(stash[t]) = {} /\ Distinct(stash[t])
    BY DEF Init, Elems, Distinct
  <2>2. QED BY <2>1 DEF Init, Held, LocalOK, WithCur, WithOth, Serving
<1>10. LocalsOK /\ HeldAlone /\ ClientsActive
  BY <1>9 DEF LocalsOK, HeldAlone, ClientsActive, Init
<1>11. QED BY <1>3, <1>4, <1>5, <1>6, <1>7, <1>8, <1>10 DEF IndInv

LEMMA NextInv ==
  ASSUME RequestsFitChunk, IndInv, [Next]_vars
  PROVE  IndInv'
<1>1. CASE UNCHANGED vars
  <2>1. failed \in {"no", "extent.c:524", "extent.c:435", "arena.c:568"}
    BY DEF IndInv, TypeOK
  <2>2. QED BY <1>1, <2>1, StandKeeps
        DEF vars, memVars, objVars, poolVars, runVars, decayVars
<1>2. ASSUME NEW t \in Threads, Run(t)
      PROVE  IndInv'
  <2>1. Progress(t) /\ UNCHANGED failed
    BY <1>2 DEF Run
  <2>2. CASE AllocMuzzy(t)
    BY <2>1, <2>2, AllocMuzzyKeeps
  <2>3. CASE AllocBump(t)
    BY <2>1, <2>3, BumpKeeps
  <2>4. CASE \E b \in ChunkBases \ mapped : AllocChunk(t, b)
    BY <2>1, <2>4, ChunkKeeps
  <2>5. CASE Serve(t)
    BY <2>1, <2>5, RegisterKeeps, SplitExactKeeps, SplitTailKeeps, PutBackKeeps, CommitKeeps DEF Serve
  <2>6. CASE Merge(t)
    BY <2>1, <2>6, MergeKeeps
  <2>7. CASE Record(t)
    BY <2>1, <2>7, RecordKeeps
  <2>8. CASE Age(t)
    BY <2>1, <2>8, EvictNoneKeeps, EvictOneKeeps, EvictCoalesceKeeps, StashKeeps, DecayEndKeeps DEF Age
  <2>9. QED BY <2>1, <2>2, <2>3, <2>4, <2>5, <2>6, <2>7, <2>8 DEF Progress
<1>3. ASSUME NEW t \in Threads, Ask(t), UNCHANGED failed
      PROVE  IndInv'
  <2>1. CASE \E n \in Requests : AllocDirty(t, n, "large")
    BY <1>3, <2>1, AllocDirtyKeeps DEF Kinds
  <2>2. CASE AllocDirty(t, SlabPages, "slab")
    BY <1>3, <2>2, AllocDirtyKeeps DEF Kinds
  <2>3. CASE \E x \in allocated : Free(t, x)
    BY <1>3, <2>3, FreeKeeps
  <2>4. CASE \E lim \in DecayLimits : DecayStart(t, lim)
    BY <1>3, <2>4, DecayStartKeeps
  <2>5. QED BY <1>3, <2>1, <2>2, <2>3, <2>4 DEF Ask
<1>4. ASSUME NEW t \in Threads, Fail(t)
      PROVE  IndInv'
  <2>1. failed' \in {"extent.c:524", "extent.c:435", "arena.c:568"}
    BY <1>4 DEF Fail, MuzzyEvict, EvictFailure
  <2>2. QED BY <1>4, <2>1, StandKeeps DEF Fail
<1>5. QED BY <1>1, <1>2, <1>3, <1>4 DEF Next

(* In every reachable state the inductive invariant holds.                  *)
THEOREM Inductive == RequestsFitChunk => (Spec => []IndInv)
<1>1. SUFFICES ASSUME RequestsFitChunk PROVE Spec => []IndInv
  OBVIOUS
<1>2. IndInv /\ [Next]_vars => IndInv'
  BY <1>1, NextInv
<1>3. QED BY <1>2, InitInv, PTL DEF Spec

(* Every variable keeps its type. *)
THEOREM Types == RequestsFitChunk => (Spec => []TypeOK)
<1>1. IndInv => TypeOK
  BY DEF IndInv
<1>2. QED BY <1>1, Inductive, PTL

(* No two threads ever work on one extent, and none on a client's.          *)
THEOREM Exclusion == RequestsFitChunk => (Spec => []HeldAlone)
<1>1. IndInv => HeldAlone
  BY DEF IndInv
<1>2. QED BY <1>1, Inductive, PTL

(* No page is ever in two extents, in an extent and the unused part of the  *)
(* newest chunk, or in an extent and outside every mapped chunk.            *)
THEOREM PagesApart == RequestsFitChunk => (Spec => []NoOverlap)
<1>1. ASSUME IndInv PROVE NoOverlap
  <2>1. TypeOK /\ Live /\ Fenced /\ Disjoint /\ NewFree /\ AllMapped
    BY <1>1 DEF IndInv
  <2>2. SUFFICES ASSUME NEW x \in Pages, size[x] > 0, NEW q \in x .. x + size[x] - 1
                 PROVE  /\ InMapped(q) /\ (q > x => size[q] = 0)
                        /\ ~(newAddr <= q /\ q < newAddr + newN)
    BY DEF NoOverlap, Extent
  <2>3. size[x] \in Nat /\ x \in Nat /\ q \in Int /\ x <= q /\ q < x + size[x]
    BY <2>1, SizesAreCounts, Counts DEF Pages
  <2>4. q \in Pages
    BY <2>1, <2>2, <2>3, LastIsPage DEF Last
  <2>5. InMapped(q)
    BY <2>1, <2>3, <2>4 DEF AllMapped
  <2>6. q > x => size[q] = 0
    BY <2>1, <2>2, <2>3, <2>4, SizesAreCounts DEF Disjoint
  <2>7. ~(newAddr <= q /\ q < newAddr + newN)
    <3>1. newAddr \in Nat /\ newN \in Nat
      BY <2>1, Counts DEF TypeOK
    <3>2. QED BY <2>1, <2>2, <2>3, <3>1 DEF NewFree
  <2>8. QED BY <2>5, <2>6, <2>7
<1>2. QED BY <1>1, Inductive, PTL

LEMMA Division ==
  ASSUME NEW a \in Int, NEW c \in Nat, c > 0
  PROVE  /\ a \div c \in Int /\ c * (a \div c) \in Int
         /\ a % c \in Nat /\ a % c < c
         /\ a = c * (a \div c) + (a % c)
OBVIOUS

(* What the muzzy purge is left with after its split is one chunk less than *)
(* the whole chunks it counted, so that one of its asserts fails.           *)
LEMMA OneChunkShort ==
  ASSUME NEW x \in Pages, size[x] \in Nat
  PROVE  EvictFailure(x) # "arena.c:568"
<1> DEFINE d == (x + size[x]) - RoundUp(x)
<1>1. ChunkPages \in Nat /\ ChunkPages > 0 /\ x \in Nat
  BY Counts DEF Pages
<1>2. RoundUp(x) \in Int
  BY <1>1, Division DEF RoundUp
<1>3. d \in Int /\ d - ChunkPages \in Int
  BY <1>1, <1>2
<1>4. Remainder(x) = d - ChunkPages
  BY <1>1, <1>2 DEF Remainder, EvictStart
<1>5. Whole(x) = ChunkPages * (d \div ChunkPages)
  BY DEF Whole, NEvict
<1>6. Odd(x) = (d - ChunkPages) % ChunkPages
  BY <1>4 DEF Odd
<1> HIDE DEF d
<1>7. PICK m \in Nat : m < ChunkPages /\ Whole(x) \in Int /\ d = Whole(x) + m
  BY <1>1, <1>3, <1>5, Division
<1>8. Odd(x) \in Nat
  BY <1>1, <1>3, <1>6, Division
<1>9. d - ChunkPages # Whole(x) /\ d - ChunkPages # Whole(x) + Odd(x)
  BY <1>1, <1>3, <1>7, <1>8
<1>10. QED BY <1>4, <1>9 DEF EvictFailure

(* The muzzy purge never gets past its asserts to unmap a chunk. *)
THEOREM NothingUnmapped == RequestsFitChunk => (Spec => []NeverUnmaps)
<1>1. Init => NeverUnmaps
  BY DEF Init, NeverUnmaps
<1>2. ASSUME IndInv, NeverUnmaps, [Next]_vars
      PROVE  NeverUnmaps'
  <2>1. CASE UNCHANGED failed
    BY <1>2, <2>1 DEF NeverUnmaps
  <2>2. ASSUME NEW t \in Threads, Fail(t)
        PROVE  NeverUnmaps'
    <3>1. PICK i \in DOMAIN lru["muzzy"] : failed' = EvictFailure(lru["muzzy"][i])
      BY <2>2 DEF Fail, MuzzyEvict
    <3>2. lru["muzzy"][i] \in Pages
      <4>1. lru["muzzy"] \in Seq(Pages)
        BY <1>2 DEF IndInv, TypeOK, Pools
      <4>2. QED BY <4>1
    <3>3. size[lru["muzzy"][i]] \in Nat
      BY <1>2, <3>2, SizesAreCounts DEF IndInv
    <3>4. QED BY <3>1, <3>2, <3>3, OneChunkShort DEF NeverUnmaps
  <2>3. QED BY <1>2, <2>1, <2>2 DEF Next, Run, vars
<1>3. QED BY <1>1, <1>2, Inductive, PTL DEF Spec

-----------------------------------------------------------------------------
(* Refinement. *)

heapNow == [p \in Pages |-> IF p \in allocated THEN size[p] ELSE 0]

(* Heap!Alloc and Heap!Free, of heapNow. *)
TakesRun(p, n) ==
  /\ heapNow[p] = 0
  /\ p + n <= NPages
  /\ \A q \in Pages : heapNow[q] > 0 => p + n <= q \/ q + heapNow[q] <= p
  /\ heapNow' = [heapNow EXCEPT ![p] = n]

ReturnsRun(p) ==
  /\ heapNow[p] > 0
  /\ heapNow' = [heapNow EXCEPT ![p] = 0]

HeapStep ==
  \/ \E p \in Pages : ReturnsRun(p) \/ \E n \in Requests \cup {SlabPages} : TakesRun(p, n)
  \/ heapNow' = heapNow

(* A step that neither hands out nor takes back an extent, and leaves the   *)
(* lengths of the clients' extents alone, is a stutter of the page heap.    *)
LEMMA HeapStutter ==
  ASSUME allocated' = allocated, \A x \in allocated : size'[x] = size[x]
  PROVE  heapNow' = heapNow
BY DEF heapNow

LEMMA HandOverAllocates ==
  ASSUME IndInv, NEW t \in Threads, pc[t] \in {"register", "commit"}, HandOver(t), UNCHANGED size
  PROVE  HeapStep
<1> DEFINE x == cur[t]
           n == want[t].n
<1>1. TypeOK /\ Geometry /\ LocalOK(t) /\ HeldAlone /\ ClientsActive
  BY DEF IndInv, Geometry, LocalsOK
<1>2. /\ x \in Pages /\ state[x] = "active" /\ x \notin allocated
      /\ n \in Requests \cup {SlabPages} /\ size[x] = n
  BY <1>1 DEF LocalOK, WithCur, Serving, TypeOK, Held, HeldAlone
<1>3. n > 0 /\ n \in Nat
  BY <1>2, RequestsPositive
<1>4. allocated' = allocated \cup {x}
  BY DEF HandOver
<1> HIDE DEF x, n
<1>5. heapNow[x] = 0
  BY <1>2 DEF heapNow
<1>6. x + n <= NPages
  BY <1>1, <1>2 DEF Geometry, Fenced
<1>7. ASSUME NEW q \in Pages, heapNow[q] > 0
      PROVE  x + n <= q \/ q + heapNow[q] <= x
  <2>1. q \in allocated /\ heapNow[q] = size[q] /\ q # x /\ size[q] > 0
    BY <1>2, <1>7 DEF heapNow
  <2>2. QED BY <2>1, <1>1, <1>2, <1>3, Counts DEF Geometry, Disjoint, Pages
<1>8. heapNow' = [heapNow EXCEPT ![x] = n]
  BY <1>2, <1>4 DEF heapNow
<1>9. TakesRun(x, n)
  BY <1>5, <1>6, <1>7, <1>8 DEF TakesRun
<1>10. QED BY <1>2, <1>9 DEF HeapStep

LEMMA FreeReturns ==
  ASSUME IndInv, NEW t \in Threads, NEW x \in allocated, Free(t, x)
  PROVE  HeapStep
<1>1. x \in Pages /\ size[x] > 0
  BY ActivesExist DEF IndInv, TypeOK, ClientsActive
<1>2. allocated' = allocated \ {x} /\ size' = size
  BY DEF Free
<1>3. heapNow[x] > 0 /\ heapNow' = [heapNow EXCEPT ![x] = 0]
  BY <1>1, <1>2 DEF heapNow
<1>4. QED BY <1>1, <1>3 DEF HeapStep, ReturnsRun

LEMMA QuietSteps ==
  ASSUME RequestsFitChunk, IndInv, NEW t \in Threads,
         \/ \E n, k : AllocDirty(t, n, k)
         \/ AllocMuzzy(t) \/ AllocBump(t) \/ \E b \in ChunkBases \ mapped : AllocChunk(t, b)
         \/ SplitExact(t) \/ SplitTail(t) \/ PutBack(t) \/ Merge(t) \/ Record(t)
         \/ Age(t) \/ (\E lim : DecayStart(t, lim)) \/ Fail(t)
  PROVE  HeapStep
<1>1. /\ TypeOK /\ Geometry /\ LocalOK(t) /\ HeldAlone
      /\ \A x \in allocated : x \in Pages /\ size[x] > 0 /\ size[x] \in Nat
      /\ \A x \in Held(t) : x \notin allocated
  BY ActivesExist DEF IndInv, Geometry, LocalsOK, TypeOK, ClientsActive, HeldAlone
<1>2. SUFFICES allocated' = allocated /\ \A x \in allocated : size'[x] = size[x]
  BY HeapStutter DEF HeapStep
<1>3. CASE AllocBump(t)
  <2>1. newAddr \in Nat /\ newN \in Nat /\ newN > 0 /\ size \in [Pages -> 0 .. NPages]
    <3>1. newAddr \in Nat /\ newN \in Nat
      BY <1>1, Counts DEF TypeOK
    <3>2. want[t].n \in Nat /\ want[t].n > 0 /\ want[t].n <= newN
      BY <1>1, <1>3, RequestsPositive DEF AllocBump, Room, LocalOK, Serving
    <3>3. QED BY <3>1, <3>2, <1>1 DEF TypeOK
  <2>2. \A x \in allocated : x # newAddr
    <3> TAKE x \in allocated
    <3>1. x + size[x] <= newAddr \/ newAddr + newN <= x
      BY <1>1, <2>1 DEF Geometry, NewFree
    <3>2. QED BY <3>1, <1>1, <2>1
  <2>3. QED BY <1>3, <2>1, <2>2, <1>1 DEF AllocBump
<1>4. CASE \E b \in ChunkBases \ mapped : AllocChunk(t, b)
  <2>1. PICK b \in ChunkBases \ mapped : AllocChunk(t, b)
    BY <1>4
  <2>2. /\ allocated' = allocated /\ size \in [Pages -> 0 .. NPages]
        /\ \/ newN \in PClasses /\ size' = [size EXCEPT ![newAddr] = newN, ![b] = want[t].n]
           \/ size' = [size EXCEPT ![b] = want[t].n]
    BY <2>1, <1>1 DEF AllocChunk, KeepRest, TypeOK
  <2>3. \A x \in allocated : x # b
    <3> TAKE x \in allocated
    <3>1. InMapped(x)
      BY <1>1, Counts DEF Geometry, AllMapped, Pages
    <3>2. PICK d \in mapped : d <= x /\ x < d + ChunkPages
      BY <3>1 DEF InMapped
    <3>3. d \in ChunkBases /\ d # b
      BY <1>1 DEF TypeOK
    <3>4. d \in Nat /\ b \in Nat /\ (d < b => d + ChunkPages <= b)
      BY <3>3, Counts
    <3>5. QED BY <3>2, <3>3, <3>4, Counts
  <2>4. newN \in PClasses => \A x \in allocated : x # newAddr
    <3> HAVE newN \in PClasses
    <3> TAKE x \in allocated
    <3>1. newN > 0 /\ newN \in Nat /\ newAddr \in Nat
      BY <1>1, ExtentsAssumption, Counts DEF TypeOK
    <3>2. x + size[x] <= newAddr \/ newAddr + newN <= x
      BY <1>1, <3>1 DEF Geometry, NewFree
    <3>3. QED BY <3>1, <3>2, <1>1
  <2>5. QED BY <2>2, <2>3, <2>4, <1>1
<1>5. CASE SplitTail(t)
  <2> DEFINE x == cur[t]
             y == TailStart(x, want[t].n)
  <2>1. /\ x \in Pages /\ x \in Held(t) /\ size[x] \in Nat /\ size[x] > want[t].n
        /\ want[t].n \in Nat /\ want[t].n > 0 /\ size \in [Pages -> 0 .. NPages]
    BY <1>1, <1>5, RequestsPositive, SizesAreCounts
       DEF SplitTail, LocalOK, WithCur, Serving, TypeOK, Held
  <2>2. /\ allocated' = allocated
        /\ size' = [size EXCEPT ![x] = want[t].n, ![y] = size[x] - want[t].n]
    BY <1>5 DEF SplitTail
  <2>3. \A z \in allocated : z # x /\ z # y
    <3> TAKE z \in allocated
    <3>1. z # x /\ z \in Pages /\ size[z] > 0
      BY <1>1, <2>1
    <3>2. (x < z => x + size[x] <= z) /\ (z < x => z + size[z] <= x)
      BY <1>1, <2>1, <3>1 DEF Geometry, Disjoint
    <3>3. QED BY <3>1, <3>2, <2>1, Counts DEF TailStart, Pages
  <2>4. QED BY <2>1, <2>2, <2>3, <1>1
<1>6. CASE Merge(t)
  <2>1. cur[t] \in Held(t) /\ oth[t] \in Held(t)
    BY <1>1, <1>6 DEF Merge, LocalOK, WithCur, WithOth, Held
  <2>2. \A z \in allocated : z # cur[t] /\ z # oth[t]
    BY <1>1, <2>1
  <2>3. /\ allocated' = allocated /\ size \in [Pages -> 0 .. NPages]
        /\ \E a, b \in {cur[t], oth[t]} : size' = [size EXCEPT ![a] = size[a] + size[b], ![b] = 0]
    BY <1>1, <1>6 DEF Merge, TypeOK
  <2>4. QED BY <2>2, <2>3, <1>1
<1>7. CASE \/ \E n, k : AllocDirty(t, n, k)
           \/ AllocMuzzy(t) \/ SplitExact(t) \/ PutBack(t) \/ Record(t)
  BY <1>7 DEF AllocDirty, AllocMuzzy, SplitExact, PutBack, Record
<1>8. CASE Age(t)
  BY <1>8 DEF Age, EvictNone, EvictOne, EvictCoalesce, EvictStep, Stash, DecayEnd, objVars
<1>9. CASE (\E lim : DecayStart(t, lim)) \/ Fail(t)
  BY <1>9 DEF DecayStart, Fail, objVars
<1>10. QED BY <1>3, <1>4, <1>5, <1>6, <1>7, <1>8, <1>9

LEMMA NextIsHeapStep ==
  ASSUME RequestsFitChunk, IndInv, [Next]_vars
  PROVE  HeapStep
<1>1. CASE UNCHANGED vars
  BY <1>1, HeapStutter DEF vars, HeapStep
<1>2. ASSUME NEW t \in Threads, Run(t)
      PROVE  HeapStep
  <2>1. CASE Register(t) \/ Commit(t)
    BY <2>1, HandOverAllocates DEF Register, Commit
  <2>2. CASE ~(Register(t) \/ Commit(t))
    BY <1>2, <2>2, QuietSteps DEF Run, Progress, Serve
  <2>3. QED BY <2>1, <2>2
<1>3. ASSUME NEW t \in Threads, Ask(t)
      PROVE  HeapStep
  BY <1>3, FreeReturns, QuietSteps DEF Ask
<1>4. ASSUME NEW t \in Threads, Fail(t)
      PROVE  HeapStep
  BY <1>4, QuietSteps
<1>5. QED BY <1>1, <1>2, <1>3, <1>4 DEF Next

(* The extent layer implements the page heap: whatever its threads do with  *)
(* pools, leaves and chunks, its clients see runs of pages that never       *)
(* overlap and never move.                                                  *)
THEOREM Refinement == RequestsFitChunk => (Spec => HeapSpec)
<1>1. SUFFICES ASSUME RequestsFitChunk PROVE Spec => HeapSpec
  OBVIOUS
<1>2. Init => Heap!Init
  BY DEF Init, Heap!Init, Heap!Pages, Pages
<1>3. IndInv /\ [Next]_vars => HeapStep
  BY <1>1, NextIsHeapStep
<1>4. HeapStep => [Heap!Next]_heapNow
  BY DEF HeapStep, TakesRun, ReturnsRun, Heap!Next, Heap!Alloc, Heap!Free, Heap!Apart,
         Heap!Pages, Pages, heapNow
<1>5. QED BY <1>1, <1>2, <1>3, <1>4, Inductive, PTL DEF HeapSpec, Heap!Spec, Spec, heapNow
=============================================================================
