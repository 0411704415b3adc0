------------------------ MODULE ExtentsLeaves_proofs ------------------------
(***************************************************************************)
(* Proofs that extents_rtree agrees with the extents (LeafAgrees), that no *)
(* thread touches what a client holds (ClientUndisturbed) and that no page *)
(* is lost but an odd rest of a chunk (OnlyOddRestsLost), for the address  *)
(* spaces of Extents_proofs and on top of its IndInv.                      *)
(***************************************************************************)
EXTENDS Extents_proofs

-----------------------------------------------------------------------------
(* What the leaves of an extent hold, from its registration to its return. *)

Named(q, x) == leaf[q].tag = "extent" /\ leaf[q].id = x

(* Both ends name x and nothing lies between: what coalescing relies on.   *)
Tidy(x) ==
  /\ Named(x, x) /\ Named(Last(x), x)
  /\ \A q \in x + 1 .. Last(x) - 1 : leaf[q] = NullLeaf
Large(x)  == Tidy(x) /\ leaf[x] = ExtLeaf(x, FALSE)
Slabby(x) == \A q \in x .. Last(x) : leaf[q] = SlabLeaf(x)
Bare(x)   == \A q \in x .. Last(x) : leaf[q] = NullLeaf

(* The thread's cur is on its way to a client.                              *)
Building(t) == pc[t] \in {"register", "putback", "commit"}

(* Every extent is tidy, in whatever hands it is, unless a client holds it  *)
(* as a slab or a thread is just building it; extent->slab is set for the   *)
(* clients' slabs and for a fresh one on its way to a client only.          *)
ShapeOf(x) ==
  /\ x \in allocated => IF slab[x] THEN Slabby(x) ELSE Large(x)
  /\ slab[x] => x \in allocated \/ \E t \in Threads : pc[t] = "register" /\ cur[t] = x
  /\ size[x] > 0 /\ x \notin allocated /\ (\A t \in Threads : Building(t) => cur[t] # x)
       => Tidy(x)
  /\ \A t \in Threads : cur[t] = x /\ pc[t] = "register" => Bare(x)
  /\ \A t \in Threads : cur[t] = x /\ pc[t] \in {"putback", "commit"} /\ want[t].kind = "large"
       => Large(x)
Shapes == \A x \in Pages : ShapeOf(x)

(* Memory that was never given out has no leaves.                           *)
Blank ==
  \A q \in Pages : leaf[q] # NullLeaf => InMapped(q) /\ ~(newAddr <= q /\ q < newAddr + newN)

LeafInv == Shapes /\ Blank

-----------------------------------------------------------------------------
(* A step and the extents it does not work on. *)

OthersStand(t) ==
  \A u \in Threads \ {t} : pc'[u] = pc[u] /\ cur'[u] = cur[u] /\ want'[u] = want[u]

Same(x) ==
  /\ size'[x] = size[x] /\ slab'[x] = slab[x]
  /\ size[x] > 0 => \A q \in x .. Last(x) : leaf'[q] = leaf[q]

Spares == \A x \in allocated \cap allocated' : Same(x)

LEMMA SameShape ==
  ASSUME TypeOK, Fenced, NEW x \in Pages, size[x] > 0, Same(x)
  PROVE  /\ Tidy(x)' <=> Tidy(x)
         /\ Large(x)' <=> Large(x)
         /\ Slabby(x)' <=> Slabby(x)
         /\ Bare(x)' <=> Bare(x)
<1>1. /\ Last(x)' = Last(x) /\ x <= Last(x) /\ x \in Int /\ Last(x) \in Int
  BY LastIsPage DEF Same, Last, Pages
<1>2. \A q \in x .. Last(x) : leaf'[q] = leaf[q]
  BY DEF Same
<1>3. leaf'[x] = leaf[x] /\ leaf'[Last(x)] = leaf[Last(x)]
      /\ \A q \in x + 1 .. Last(x) - 1 : leaf'[q] = leaf[q]
  BY <1>1, <1>2
<1>4. Tidy(x)' <=> Tidy(x)
  BY <1>1, <1>3 DEF Tidy, Named
<1>5. Large(x)' <=> Large(x)
  BY <1>3, <1>4 DEF Large
<1>6. Slabby(x)' <=> Slabby(x)
  BY <1>1, <1>2 DEF Slabby
<1>7. Bare(x)' <=> Bare(x)
  BY <1>1, <1>2 DEF Bare
<1>8. QED BY <1>4, <1>5, <1>6, <1>7

(* A thread's cur, when it has one, exists and is no client's.              *)
LEMMA CurIsActive ==
  ASSUME IndInv, NEW t \in Threads, pc[t] \in WithCur
  PROVE  /\ cur[t] \in Pages /\ cur[t] \in Held(t) /\ size[cur[t]] > 0 /\ size[cur[t]] \in Nat
         /\ state[cur[t]] = "active" /\ cur[t] \notin allocated
         /\ Last(cur[t]) \in Pages /\ cur[t] <= Last(cur[t])
<1>1. TypeOK /\ Live /\ Fenced /\ LocalOK(t) /\ HeldAlone
  BY DEF IndInv, LocalsOK
<1>2. cur[t] \in Pages /\ cur[t] \in Held(t)
  BY <1>1 DEF LocalOK, TypeOK, Held
<1>3. state[cur[t]] = "active" /\ cur[t] \notin allocated
  BY <1>1, <1>2 DEF HeldAlone
<1>4. QED BY <1>1, <1>2, <1>3, ActivesExist, LastIsPage

(* Nobody else works on what one thread holds,                              *)
LEMMA OthersElsewhere ==
  ASSUME IndInv, NEW t \in Threads, NEW x \in Held(t)
  PROVE  \A u \in Threads \ {t} : cur[u] # x
<1>1. HeldAlone /\ TypeOK
  BY DEF IndInv
<1>2. x \in Pages /\ Nil \notin Pages
  BY <1>1, HeldIsPage, Counts DEF Pages, Nil
<1>3. QED BY <1>1, <1>2 DEF HeldAlone, Held

(* and nobody on what a client, a pool or nobody has.                       *)
LEMMA NobodyOn ==
  ASSUME IndInv, NEW x \in Pages, x \in allocated \/ state[x] # "active"
  PROVE  \A u \in Threads : cur[u] # x
<1>1. HeldAlone
  BY DEF IndInv
<1>2. Nil \notin Pages
  BY Counts DEF Pages, Nil
<1>3. QED BY <1>1, <1>2 DEF HeldAlone, Held

(* What does not exist is nobody's.                                         *)
LEMMA Unborn ==
  ASSUME IndInv, NEW x \in Pages, size[x] = 0
  PROVE  /\ state[x] = "none" /\ x \notin allocated /\ \A u \in Threads : cur[u] # x
<1>1. state[x] = "none"
  BY DEF IndInv, Live
<1>2. x \notin allocated
  BY <1>1 DEF IndInv, ClientsActive
<1>3. QED BY <1>1, <1>2, NobodyOn

(* extent->slab is clear on what a thread holds, unless it is registering a *)
(* fresh slab, and on what no client holds and no thread works on.          *)
LEMMA NotSlab ==
  ASSUME IndInv, Shapes, NEW x \in Pages, x \notin allocated,
         \A u \in Threads : pc[u] = "register" => cur[u] # x
  PROVE  slab[x] = FALSE
<1>1. ~slab[x]
  BY DEF Shapes, ShapeOf
<1>2. slab[x] \in BOOLEAN
  BY DEF IndInv, TypeOK
<1>3. QED BY <1>1, <1>2

(* Pages of one extent are not pages of another.                            *)
LEMMA Apart ==
  ASSUME IndInv, NEW x \in Pages, NEW y \in Pages, x # y, size[x] > 0, size[y] > 0,
         NEW q \in x .. Last(x)
  PROVE  q \notin y .. Last(y)
<1>1. TypeOK /\ Disjoint
  BY DEF IndInv
<1>2. x \in Nat /\ y \in Nat /\ size[x] \in Nat /\ size[y] \in Nat
  BY <1>1, SizesAreCounts, Counts DEF Pages
<1>3. (x < y => x + size[x] <= y) /\ (y < x => y + size[y] <= x)
  BY <1>1 DEF Disjoint
<1>4. QED BY <1>2, <1>3 DEF Last

(* A step that changes the leaves inside the extents of T only changes none *)
(* of any other extent.                                                     *)
LEMMA LeavesApart ==
  ASSUME IndInv, NEW T \in SUBSET Pages, \A z \in T : size[z] > 0,
         \A q \in Pages : leaf'[q] # leaf[q] => \E z \in T : q \in z .. Last(z)
  PROVE  \A x \in Pages \ T : size[x] > 0 => \A q \in x .. Last(x) : leaf'[q] = leaf[q]
<1>1. SUFFICES ASSUME NEW x \in Pages \ T, size[x] > 0, NEW q \in x .. Last(x), leaf'[q] # leaf[q]
               PROVE  FALSE
  OBVIOUS
<1>2. q \in Pages
  BY <1>1, LastIsPage DEF IndInv, Pages
<1>3. PICK z \in T : q \in z .. Last(z)
  BY <1>1, <1>2
<1>4. QED BY <1>1, <1>3, Apart

(* What a step of thread t on the extents in T has to show.                 *)
LEMMA ShapesKept ==
  ASSUME IndInv, Shapes, NEW t \in Threads, OthersStand(t), NEW T \in SUBSET Pages,
         \A x \in Pages \ T : Same(x) /\ (x \in allocated' <=> x \in allocated),
         Building(t) => cur[t] \in T,
         Building(t)' => cur'[t] \in T,
         \A x \in T : ShapeOf(x)' /\ (x \notin allocated \/ x \notin allocated')
  PROVE  Shapes' /\ Spares
<1>1. TypeOK /\ Live /\ Fenced /\ ClientsActive /\ HeldAlone
  BY DEF IndInv
<1>2. Spares
  BY <1>1 DEF Spares, TypeOK
<1>3. ASSUME NEW x \in Pages \ T
      PROVE  ShapeOf(x)'
  <2>1. Same(x) /\ (x \in allocated' <=> x \in allocated) /\ ShapeOf(x)
    BY <1>3 DEF Shapes
  <2>2. ASSUME NEW u \in Threads
        PROVE  /\ Building(u)' /\ cur'[u] = x <=> Building(u) /\ cur[u] = x
               /\ Building(u) /\ cur[u] = x =>
                    pc'[u] = pc[u] /\ want'[u] = want[u] /\ cur'[u] = cur[u]
    <3>1. CASE u = t
      BY <3>1
    <3>2. CASE u # t
      BY <3>2 DEF OthersStand, Building
    <3>3. QED BY <3>1, <3>2
  <2>3. x \in allocated => size[x] > 0
    BY <1>1, ActivesExist DEF ClientsActive
  <2>4. \A u \in Threads : Building(u) /\ cur[u] = x => size[x] > 0
    BY CurIsActive DEF Building, WithCur
  <2>5. size'[x] = size[x] /\ slab'[x] = slab[x]
    BY <2>1 DEF Same
  <2>6. size[x] > 0 => /\ Tidy(x)' <=> Tidy(x)
                       /\ Large(x)' <=> Large(x)
                       /\ Slabby(x)' <=> Slabby(x)
                       /\ Bare(x)' <=> Bare(x)
    BY <1>1, <2>1, SameShape
  <2>7. (x \in allocated => IF slab[x] THEN Slabby(x) ELSE Large(x))'
    BY <2>1, <2>3, <2>5, <2>6 DEF ShapeOf
  <2>8. (slab[x] => x \in allocated \/ \E u \in Threads : pc[u] = "register" /\ cur[u] = x)'
    BY <2>1, <2>2, <2>5 DEF ShapeOf, Building
  <2>9. (size[x] > 0 /\ x \notin allocated /\ (\A u \in Threads : Building(u) => cur[u] # x)
           => Tidy(x))'
    BY <2>1, <2>2, <2>5, <2>6 DEF ShapeOf
  <2>10. (\A u \in Threads : cur[u] = x /\ pc[u] = "register" => Bare(x))'
    <3>1. SUFFICES ASSUME NEW u \in Threads, cur'[u] = x, pc'[u] = "register" PROVE Bare(x)'
      OBVIOUS
    <3>2. Building(u)'
      BY <3>1 DEF Building
    <3>3. Building(u) /\ cur[u] = x /\ pc[u] = "register"
      BY <2>2, <3>1, <3>2
    <3>4. QED BY <2>1, <2>4, <2>6, <3>3 DEF ShapeOf
  <2>11. (\A u \in Threads : cur[u] = x /\ pc[u] \in {"putback", "commit"} /\ want[u].kind = "large"
            => Large(x))'
    <3>1. SUFFICES ASSUME NEW u \in Threads, cur'[u] = x, pc'[u] \in {"putback", "commit"},
                          want'[u].kind = "large"
                   PROVE  Large(x)'
      OBVIOUS
    <3>2. Building(u)'
      BY <3>1 DEF Building
    <3>3. Building(u) /\ cur[u] = x /\ pc[u] \in {"putback", "commit"} /\ want[u].kind = "large"
      BY <2>2, <3>1, <3>2
    <3>4. QED BY <2>1, <2>4, <2>6, <3>3 DEF ShapeOf
  <2>12. QED BY <2>7, <2>8, <2>9, <2>10, <2>11 DEF ShapeOf
<1>4. Shapes'
  BY <1>3 DEF Shapes
<1>5. QED BY <1>2, <1>4

(* The shape of an extent that rests, in a pool or in a thread's hands,     *)
LEMMA RestingShape ==
  ASSUME NEW x \in Pages, x \notin allocated', slab'[x] = FALSE, size'[x] > 0 => Tidy(x)',
         \A u \in Threads : Building(u)' => cur'[u] # x
  PROVE  ShapeOf(x)'
BY DEF ShapeOf, Building

(* of one that thread t cut out of a recycled extent,                       *)
LEMMA CutShape ==
  ASSUME NEW t \in Threads, NEW x \in Pages, x \notin allocated', slab'[x] = FALSE,
         cur'[t] = x, pc'[t] \in {"putback", "commit"}, want'[t].kind = "large" => Large(x)',
         \A u \in Threads \ {t} : cur'[u] # x
  PROVE  ShapeOf(x)'
<1>1. \A u \in Threads : cur'[u] = x => u = t
  OBVIOUS
<1>2. Building(t)'
  BY DEF Building
<1>3. QED BY <1>1, <1>2 DEF ShapeOf

(* of one that thread t cut out of fresh memory,                            *)
LEMMA FreshShape ==
  ASSUME NEW t \in Threads, NEW x \in Pages, x \notin allocated',
         cur'[t] = x, pc'[t] = "register", Bare(x)',
         \A u \in Threads \ {t} : cur'[u] # x
  PROVE  ShapeOf(x)'
<1>1. \A u \in Threads : cur'[u] = x => u = t
  OBVIOUS
<1>2. Building(t)'
  BY DEF Building
<1>3. QED BY <1>1, <1>2 DEF ShapeOf

(* and of a client's.                                                       *)
LEMMA ClientShape ==
  ASSUME NEW x \in Pages, x \in allocated', IF slab'[x] THEN Slabby(x)' ELSE Large(x)',
         \A u \in Threads : cur'[u] # x
  PROVE  ShapeOf(x)'
BY DEF ShapeOf

-----------------------------------------------------------------------------
(* Steps that leave lengths and leaves alone. *)

LEMMA QuietKeeps ==
  ASSUME IndInv, LeafInv, NEW t \in Threads, OthersStand(t), ~Building(t), ~Building(t)',
         UNCHANGED <<memVars, size, slab, leaf, allocated>>
  PROVE  LeafInv' /\ Spares
<1> DEFINE T == {}
<1>1. T \in SUBSET Pages /\ \A x \in Pages \ T : Same(x) /\ (x \in allocated' <=> x \in allocated)
  BY DEF Same
<1>2. \A x \in T : ShapeOf(x)' /\ (x \notin allocated \/ x \notin allocated')
  OBVIOUS
<1>3. Shapes
  BY DEF LeafInv
<1> HIDE DEF T
<1>4. Shapes' /\ Spares
  BY <1>1, <1>2, <1>3, ShapesKept
<1>5. Blank'
  BY DEF LeafInv, Blank, InMapped, memVars
<1>6. QED BY <1>4, <1>5 DEF LeafInv

LEMMA CoalesceStands ==
  ASSUME IndInv, NEW t \in Threads, NEW x, NEW p, NEW side \in Sides, NEW done \in {"idle", "stash"},
         Coalesce(t, x, p, side, done), want' = want
  PROVE  OthersStand(t) /\ pc'[t] \in {"merge", "idle", "stash"}
<1>1. TypeOK
  BY DEF IndInv
<1>2. \/ \E sd \in Sides : TakeNeighbour(t, x, p, sd)
      \/ LayDown(t, x, p, done)
  BY CoalesceCases
<1>3. CASE \E sd \in Sides : TakeNeighbour(t, x, p, sd)
  BY <1>1, <1>3 DEF TakeNeighbour, Goto, OthersStand, TypeOK
<1>4. CASE LayDown(t, x, p, done)
  BY <1>1, <1>4 DEF LayDown, Goto, OthersStand, TypeOK
<1>5. QED BY <1>2, <1>3, <1>4

LEMMA RecycleStands ==
  ASSUME IndInv, NEW t \in Threads, NEW p, NEW w, NEW miss \in {"muzzy", "new"},
         Recycle(t, p, w, miss),
         \A u \in Threads \ {t} : want'[u] = want[u]
  PROVE  OthersStand(t) /\ pc'[t] \in {"muzzy", "new", "split"}
<1>1. TypeOK
  BY DEF IndInv
<1>2. /\ \A u \in Threads \ {t} : pc'[u] = pc[u] /\ cur'[u] = cur[u]
      /\ pc'[t] \in {"muzzy", "new", "split"}
  BY <1>1 DEF Recycle, Goto, TypeOK
<1>3. QED BY <1>2 DEF OthersStand

LEMMA QuietShapes ==
  ASSUME IndInv, LeafInv, NEW t \in Threads,
         \/ \E n, k : AllocDirty(t, n, k)
         \/ AllocMuzzy(t) \/ Record(t) \/ Age(t) \/ (\E lim : DecayStart(t, lim))
  PROVE  LeafInv' /\ Spares
<1>1. TypeOK
  BY DEF IndInv
<1>2. SUFFICES /\ OthersStand(t) /\ ~Building(t) /\ ~Building(t)'
               /\ UNCHANGED <<memVars, size, slab, leaf, allocated>>
  BY QuietKeeps
<1>3. ASSUME NEW n, NEW k, AllocDirty(t, n, k)
      PROVE  /\ OthersStand(t) /\ ~Building(t) /\ ~Building(t)'
             /\ UNCHANGED <<memVars, size, slab, leaf, allocated>>
  <2>1. \A u \in Threads \ {t} : want'[u] = want[u]
    BY <1>1, <1>3 DEF AllocDirty, TypeOK
  <2>2. OthersStand(t) /\ pc'[t] \in {"muzzy", "new", "split"}
    BY <1>3, <2>1, RecycleStands DEF AllocDirty
  <2>3. QED BY <1>3, <2>2 DEF AllocDirty, Building
<1>4. CASE AllocMuzzy(t)
  <2>1. OthersStand(t) /\ pc'[t] \in {"muzzy", "new", "split"}
    BY <1>4, RecycleStands DEF AllocMuzzy
  <2>2. QED BY <1>4, <2>1 DEF AllocMuzzy, Building
<1>5. CASE Record(t)
  <2>1. OthersStand(t) /\ pc'[t] \in {"merge", "idle", "stash"}
    BY <1>5, CoalesceStands DEF Record, Sides
  <2>2. QED BY <1>5, <2>1 DEF Record, Building
<1>6. CASE Stash(t)
  <2>1. OthersStand(t) /\ pc'[t] \in {"merge", "idle", "stash"}
    BY <1>6, CoalesceStands DEF Stash, Sides
  <2>2. QED BY <1>6, <2>1 DEF Stash, Building
<1>7. CASE EvictNone(t) \/ EvictOne(t) \/ EvictCoalesce(t)
  <2>1. /\ pc[t] \in {"evict", "reinsert"} /\ want' = want
        /\ UNCHANGED <<memVars, size, slab, leaf, allocated>>
    BY <1>7 DEF EvictNone, EvictOne, EvictCoalesce, EvictStep
  <2>2. /\ \E label \in {"stash", "evict", "emerge"} : pc' = [pc EXCEPT ![t] = label]
        /\ \E x : cur' = [cur EXCEPT ![t] = x]
    BY <1>7 DEF EvictNone, EvictOne, EvictCoalesce, Goto
  <2>3. OthersStand(t) /\ pc'[t] \in {"stash", "evict", "emerge"}
    BY <1>1, <2>1, <2>2 DEF OthersStand, TypeOK
  <2>4. QED BY <2>1, <2>3 DEF Building
<1>8. CASE DecayEnd(t) \/ (\E lim : DecayStart(t, lim))
  <2>1. /\ pc[t] \in {"idle", "stash"} /\ want' = want /\ cur' = cur
        /\ UNCHANGED <<memVars, size, slab, leaf, allocated>>
        /\ \E label \in {"idle", "evict"} : pc' = [pc EXCEPT ![t] = label]
    BY <1>8 DEF DecayEnd, DecayStart, Goto, objVars
  <2>2. OthersStand(t) /\ pc'[t] \in {"idle", "evict"}
    BY <1>1, <2>1 DEF OthersStand, TypeOK
  <2>3. QED BY <2>1, <2>2 DEF Building
<1>9. QED BY <1>3, <1>4, <1>5, <1>6, <1>7, <1>8 DEF Age

(* The leaves of memory never given out stay blank when only the leaves of  *)
(* extents change.                                                          *)
LEMMA BlankKept ==
  ASSUME IndInv, Blank, UNCHANGED memVars,
         \A q \in Pages : leaf'[q] # leaf[q] => \E z \in Pages : size[z] > 0 /\ q \in z .. Last(z)
  PROVE  Blank'
<1>1. TypeOK /\ NewFree /\ AllMapped
  BY DEF IndInv
<1>2. newAddr \in Nat /\ newN \in Nat
  BY <1>1, Counts DEF TypeOK
<1>3. ASSUME NEW q \in Pages, leaf'[q] # leaf[q]
      PROVE  InMapped(q) /\ ~(newAddr <= q /\ q < newAddr + newN)
  <2>1. PICK z \in Pages : size[z] > 0 /\ q \in z .. Last(z)
    BY <1>3
  <2>2. z \in Nat /\ size[z] \in Nat /\ q \in Nat /\ z <= q /\ q < z + size[z]
    BY <1>1, <2>1, SizesAreCounts, Counts DEF Last, Pages
  <2>3. InMapped(q)
    BY <1>1, <2>2, <1>3 DEF AllMapped
  <2>4. newN > 0 => z + size[z] <= newAddr \/ newAddr + newN <= z
    BY <1>1, <2>1 DEF NewFree
  <2>5. QED BY <1>2, <2>2, <2>3, <2>4
<1>4. QED BY <1>3 DEF Blank, InMapped, memVars

-----------------------------------------------------------------------------
(* Steps that write the leaves of the extents in S and may bring to life    *)
(* those in T \ S.                                                          *)

LEMMA WorkKeeps ==
  ASSUME IndInv, LeafInv, NEW t \in Threads, OthersStand(t), UNCHANGED memVars,
         NEW T \in SUBSET Pages, NEW S \in SUBSET T, \A z \in S : size[z] > 0,
         \A q \in Pages : leaf'[q] # leaf[q] => \E z \in S : q \in z .. Last(z),
         \A x \in Pages \ T : /\ size'[x] = size[x] /\ slab'[x] = slab[x]
                              /\ x \in allocated' <=> x \in allocated,
         Building(t) => cur[t] \in T,
         Building(t)' => cur'[t] \in T,
         \A x \in T : ShapeOf(x)' /\ (x \notin allocated \/ x \notin allocated')
  PROVE  LeafInv' /\ Spares
<1>1. Shapes /\ Blank
  BY DEF LeafInv
<1>2. \A x \in Pages \ S : size[x] > 0 => \A q \in x .. Last(x) : leaf'[q] = leaf[q]
  BY LeavesApart
<1>3. \A x \in Pages \ T : Same(x)
  BY <1>2 DEF Same
<1>4. Shapes' /\ Spares
  BY <1>1, <1>3, ShapesKept
<1>5. \A q \in Pages : leaf'[q] # leaf[q] => \E z \in Pages : size[z] > 0 /\ q \in z .. Last(z)
  OBVIOUS
<1>6. Blank'
  BY <1>1, <1>5, BlankKept
<1>7. QED BY <1>4, <1>6 DEF LeafInv

(* What the writes of extent_register leave in the leaves of x.             *)
LEMMA EndsShape ==
  ASSUME TypeOK, Fenced, NEW x \in Pages, size[x] > 0, UNCHANGED size, NEW s \in BOOLEAN,
         leaf' = SetEnds(leaf, x, size[x], ExtLeaf(x, s))
  PROVE  /\ \A q \in Pages : leaf'[q] # leaf[q] => q \in x .. Last(x)
         /\ Tidy(x) \/ Bare(x) => Tidy(x)' /\ leaf'[x] = ExtLeaf(x, s)
<1>1. /\ Last(x) \in Pages /\ x <= Last(x) /\ size[x] \in Nat /\ Last(x) = x + size[x] - 1
      /\ x \in Int /\ Last(x) \in Int
      /\ \A q \in Int : x <= q /\ q <= Last(x) => q \in Pages
  BY LastIsPage DEF Last, Pages
<1>2. leaf \in [Pages -> Leaves]
  BY DEF TypeOK, Leaves
<1>3. ExtLeaf(x, s) \in Leaves /\ ExtLeaf(x, s).tag = "extent" /\ ExtLeaf(x, s).id = x
  BY LeafKinds
<1>4. \A q \in Pages : leaf'[q] = IF q = x \/ q = Last(x) THEN ExtLeaf(x, s) ELSE leaf[q]
  BY <1>1, <1>2, <1>3 DEF SetEnds
<1>5. \A q \in Pages : leaf'[q] # leaf[q] => q \in x .. Last(x)
  BY <1>1, <1>4
<1>6. ASSUME Tidy(x) \/ Bare(x)
      PROVE  Tidy(x)' /\ leaf'[x] = ExtLeaf(x, s)
  <2>1. \A q \in x + 1 .. Last(x) - 1 : leaf[q] = NullLeaf
    BY <1>1, <1>6 DEF Tidy, Bare
  <2>2. \A q \in x + 1 .. Last(x) - 1 : leaf'[q] = NullLeaf
    BY <1>1, <1>4, <2>1
  <2>3. leaf'[x] = ExtLeaf(x, s) /\ leaf'[Last(x)] = ExtLeaf(x, s)
    BY <1>1, <1>4
  <2>4. Last(x)' = Last(x)
    BY DEF Last
  <2>5. QED BY <1>3, <2>2, <2>3, <2>4 DEF Tidy, Named
<1>7. QED BY <1>5, <1>6

LEMMA AllShape ==
  ASSUME TypeOK, Fenced, NEW x \in Pages, size[x] > 0, UNCHANGED size,
         leaf' = SetAll(leaf, x, size[x], SlabLeaf(x))
  PROVE  /\ \A q \in Pages : leaf'[q] # leaf[q] => q \in x .. Last(x)
         /\ Slabby(x)'
<1>1. /\ Last(x) \in Pages /\ x <= Last(x) /\ size[x] \in Nat /\ Last(x) = x + size[x] - 1
      /\ x \in Int /\ Last(x) \in Int
      /\ \A q \in Int : x <= q /\ q <= Last(x) => q \in Pages
  BY LastIsPage DEF Last, Pages
<1>2. \A q \in Pages : leaf'[q] = IF q \in x .. Last(x) THEN SlabLeaf(x) ELSE leaf[q]
  BY <1>1 DEF SetAll
<1>3. Last(x)' = Last(x)
  BY DEF Last
<1>4. QED BY <1>1, <1>2, <1>3 DEF Slabby

(* Handing the extent that t built to its client.                           *)
LEMMA HandOverShapes ==
  ASSUME IndInv, LeafInv, NEW t \in Threads, pc[t] \in {"register", "commit"}, HandOver(t),
         NEW x \in Pages, x = cur[t],
         UNCHANGED <<memVars, size>>,
         \A z \in Pages \ {x} : slab'[z] = slab[z],
         \A q \in Pages : leaf'[q] # leaf[q] => q \in x .. Last(x),
         IF slab'[x] THEN Slabby(x)' ELSE Large(x)'
  PROVE  LeafInv' /\ Spares
<1> DEFINE T == {x}
<1>1. TypeOK
  BY DEF IndInv
<1>2. x \in Held(t) /\ size[x] > 0 /\ x \notin allocated
  BY CurIsActive DEF WithCur
<1>3. /\ allocated' = allocated \cup {x} /\ OthersStand(t) /\ cur'[t] = Nil /\ pc'[t] = "idle"
  BY <1>1 DEF HandOver, Goto, OthersStand, TypeOK
<1>4. \A u \in Threads : cur'[u] # x
  <2>1. Nil \notin Pages
    BY Counts DEF Pages, Nil
  <2>2. \A u \in Threads \ {t} : cur'[u] # x
    BY <1>2, <1>3, OthersElsewhere DEF OthersStand
  <2>3. QED BY <1>3, <2>1, <2>2
<1>5. ShapeOf(x)'
  <2>1. x \in allocated'
    BY <1>3
  <2>2. QED BY <2>1, <1>4, ClientShape
<1>6. /\ T \in SUBSET Pages /\ \A z \in T : size[z] > 0
      /\ \A q \in Pages : leaf'[q] # leaf[q] => \E z \in T : q \in z .. Last(z)
  BY <1>2
<1>7. \A z \in T : ShapeOf(z)' /\ (z \notin allocated \/ z \notin allocated')
  BY <1>2, <1>5
<1>8. \A z \in Pages \ T : /\ size'[z] = size[z] /\ slab'[z] = slab[z]
                           /\ z \in allocated' <=> z \in allocated
  BY <1>3
<1>9. (Building(t) => cur[t] \in T) /\ (Building(t)' => cur'[t] \in T)
  BY <1>3 DEF Building
<1>10. T \in SUBSET T /\ UNCHANGED memVars
  OBVIOUS
<1> HIDE DEF T
<1>11. QED BY <1>3, <1>6, <1>7, <1>8, <1>9, <1>10, WorkKeeps

LEMMA RegisterShapes ==
  ASSUME IndInv, LeafInv, NEW t \in Threads, Register(t)
  PROVE  LeafInv' /\ Spares
<1>1. TypeOK /\ Fenced
  BY DEF IndInv
<1>2. PICK x \in Pages : x = cur[t] /\ size[x] > 0
  BY CurIsActive DEF Register, WithCur
<1>3. Bare(x)
  BY <1>2 DEF LeafInv, Shapes, ShapeOf, Register
<1>4. /\ UNCHANGED <<memVars, size, slab>> /\ HandOver(t) /\ pc[t] = "register"
      /\ leaf' = IF slab[x] THEN SetAll(leaf, x, size[x], SlabLeaf(x))
                            ELSE SetEnds(leaf, x, size[x], ExtLeaf(x, FALSE))
  BY <1>2 DEF Register
<1>5. /\ \A q \in Pages : leaf'[q] # leaf[q] => q \in x .. Last(x)
      /\ IF slab'[x] THEN Slabby(x)' ELSE Large(x)'
  <2>1. CASE slab[x]
    <3>1. leaf' = SetAll(leaf, x, size[x], SlabLeaf(x)) /\ UNCHANGED size /\ slab'[x]
      BY <2>1, <1>4
    <3>2. QED BY <3>1, <1>1, <1>2, AllShape
  <2>2. CASE ~slab[x]
    <3>1. leaf' = SetEnds(leaf, x, size[x], ExtLeaf(x, FALSE)) /\ UNCHANGED size /\ ~slab'[x]
      BY <2>2, <1>4
    <3>2. /\ \A q \in Pages : leaf'[q] # leaf[q] => q \in x .. Last(x)
          /\ Tidy(x)' /\ leaf'[x] = ExtLeaf(x, FALSE)
      BY <3>1, <1>1, <1>2, <1>3, EndsShape
    <3>3. QED BY <3>1, <3>2 DEF Large
  <2>3. QED BY <2>1, <2>2
<1>6. QED BY <1>2, <1>4, <1>5, HandOverShapes

LEMMA CommitShapes ==
  ASSUME IndInv, LeafInv, NEW t \in Threads, Commit(t)
  PROVE  LeafInv' /\ Spares
<1>1. TypeOK /\ Fenced
  BY DEF IndInv
<1>2. PICK x \in Pages : x = cur[t] /\ size[x] > 0 /\ x \notin allocated /\ x \in Held(t)
  BY CurIsActive DEF Commit, WithCur
<1>3. /\ UNCHANGED <<memVars, size>> /\ HandOver(t) /\ pc[t] = "commit"
      /\ IF want[t].kind = "slab"
           THEN /\ slab' = [slab EXCEPT ![x] = TRUE]
                /\ leaf' = SetAll(leaf, x, size[x], SlabLeaf(x))
           ELSE UNCHANGED <<slab, leaf>>
  BY <1>2 DEF Commit
<1>4. CASE want[t].kind = "slab"
  <2>1. slab'[x] = TRUE /\ \A z \in Pages \ {x} : slab'[z] = slab[z]
    BY <1>1, <1>3, <1>4 DEF TypeOK
  <2>2. leaf' = SetAll(leaf, x, size[x], SlabLeaf(x)) /\ UNCHANGED size
    BY <1>3, <1>4
  <2>3. (\A q \in Pages : leaf'[q] # leaf[q] => q \in x .. Last(x)) /\ Slabby(x)'
    BY <1>1, <1>2, <2>2, AllShape
  <2>4. QED BY <1>2, <1>3, <2>1, <2>3, HandOverShapes
<1>5. CASE want[t].kind # "slab"
  <2>1. want[t].kind = "large"
    BY <1>1, <1>5 DEF TypeOK, Kinds
  <2>2. Large(x) /\ UNCHANGED <<slab, leaf, size>>
    BY <1>2, <1>3, <1>5, <2>1 DEF LeafInv, Shapes, ShapeOf
  <2>3. slab[x] = FALSE
    <3>1. \A u \in Threads : pc[u] = "register" => cur[u] # x
      BY <1>2, <1>3, OthersElsewhere
    <3>2. QED BY <1>2, <3>1, NotSlab DEF LeafInv
  <2>4. Large(x)'
    BY <2>2 DEF Large, Tidy, Named, Last
  <2>5. QED BY <1>2, <1>3, <2>2, <2>3, <2>4, HandOverShapes
<1>6. QED BY <1>4, <1>5

(* What a thread that is not building holds is tidy.                        *)
LEMMA HeldTidy ==
  ASSUME IndInv, LeafInv, NEW t \in Threads, ~Building(t), NEW x \in Held(t)
  PROVE  x \in Pages /\ size[x] > 0 /\ x \notin allocated /\ Tidy(x) /\ slab[x] = FALSE
<1>1. TypeOK /\ Live /\ HeldAlone
  BY DEF IndInv
<1>2. x \in Pages /\ x \notin allocated /\ state[x] = "active"
  BY <1>1, HeldIsPage DEF HeldAlone
<1>3. \A u \in Threads : Building(u) => cur[u] # x
  BY OthersElsewhere
<1>4. \A u \in Threads : pc[u] = "register" => cur[u] # x
  BY <1>3 DEF Building
<1>5. size[x] > 0
  BY <1>1, <1>2, ActivesExist
<1>6. QED BY <1>2, <1>3, <1>4, <1>5, NotSlab DEF LeafInv, Shapes, ShapeOf

LEMMA SplitExactShapes ==
  ASSUME IndInv, LeafInv, NEW t \in Threads, SplitExact(t)
  PROVE  LeafInv' /\ Spares
<1>1. TypeOK /\ Fenced
  BY DEF IndInv
<1>2. PICK x \in Pages : x = cur[t] /\ x \in Held(t)
  BY CurIsActive DEF SplitExact, WithCur
<1>3. ~Building(t)
  BY DEF SplitExact, Building
<1>4. size[x] > 0 /\ x \notin allocated /\ Tidy(x) /\ slab[x] = FALSE
  BY <1>2, <1>3, HeldTidy
<1>5. /\ Last(x) \in Pages /\ x <= Last(x) /\ x \in Int /\ Last(x) \in Int
  BY <1>1, <1>4, LastIsPage DEF Pages
<1>6. /\ UNCHANGED <<memVars, size, slab, allocated, cur, want>>
      /\ pc' = [pc EXCEPT ![t] = "commit"]
      /\ leaf' = IF want[t].kind = "slab"
                   THEN SetSlabBit(SetSlabBit(leaf, x, TRUE), Last(x), TRUE)
                   ELSE SetSlabBit(leaf, x, FALSE)
  BY <1>2 DEF SplitExact, Goto, runVars
<1>7. OthersStand(t) /\ cur'[t] = x /\ pc'[t] = "commit" /\ want'[t] = want[t]
  BY <1>1, <1>2, <1>6 DEF OthersStand, TypeOK
<1>8. leaf \in [Pages -> Leaves]
  BY <1>1 DEF TypeOK, Leaves
<1>9. \A q \in Pages : leaf'[q] # leaf[q] => q \in x .. Last(x)
  <2>1. CASE want[t].kind = "slab"
    <3>1. leaf' = SetSlabBit(SetSlabBit(leaf, x, TRUE), Last(x), TRUE)
      BY <2>1, <1>6
    <3>2. \A q \in Pages : q # x /\ q # Last(x) => leaf'[q] = leaf[q]
      BY <3>1, <1>8 DEF SetSlabBit
    <3>3. QED BY <3>2, <1>5
  <2>2. CASE want[t].kind # "slab"
    <3>1. leaf' = SetSlabBit(leaf, x, FALSE)
      BY <2>2, <1>6
    <3>2. \A q \in Pages : q # x => leaf'[q] = leaf[q]
      BY <3>1, <1>8 DEF SetSlabBit
    <3>3. QED BY <3>2, <1>5
  <2>3. QED BY <2>1, <2>2
<1>10. ASSUME want'[t].kind = "large"
       PROVE  Large(x)'
  <2>1. leaf' = SetSlabBit(leaf, x, FALSE)
    BY <1>6, <1>7, <1>10
  <2>2. leaf' = [leaf EXCEPT ![x] = [leaf[x] EXCEPT !.slab = FALSE]]
    BY <2>1 DEF SetSlabBit
  <2>3. leaf[x] \in Leaves /\ leaf[x].tag = "extent" /\ leaf[x].id = x
    BY <1>4, <1>8 DEF Tidy, Named
  <2>4. [leaf[x] EXCEPT !.slab = FALSE] = ExtLeaf(x, FALSE)
    <3> DEFINE g == [leaf[x] EXCEPT !.slab = FALSE]
    <3>1. g \in Leaves /\ g.tag = "extent" /\ g.id = x /\ g.slab = FALSE
      BY <2>3 DEF Leaves
    <3> HIDE DEF g
    <3>2. g = [tag |-> "extent", id |-> x, slab |-> FALSE]
      BY <3>1 DEF Leaves
    <3>3. QED BY <3>2 DEF g, ExtLeaf
  <2>5. leaf'[x] = ExtLeaf(x, FALSE) /\ \A q \in Pages : q # x => leaf'[q] = leaf[q]
    BY <2>2, <2>4, <1>8
  <2>6. ExtLeaf(x, FALSE).tag = "extent" /\ ExtLeaf(x, FALSE).id = x
    BY LeafKinds
  <2>7. \A q \in x + 1 .. Last(x) - 1 : leaf'[q] = leaf[q]
    <3>1. \A q \in x + 1 .. Last(x) - 1 : q \in Pages /\ q # x
      BY <1>2, <1>5, Counts DEF Pages
    <3>2. QED BY <2>5, <3>1
  <2>8. Last(x)' = Last(x) /\ Named(x, x)' /\ Named(Last(x), x)'
    BY <1>4, <1>5, <1>6, <2>5, <2>6 DEF Last, Named, Tidy
  <2>9. QED BY <1>4, <2>5, <2>7, <2>8 DEF Large, Tidy
<1>11. ShapeOf(x)'
  <2>1. \A u \in Threads \ {t} : cur'[u] # x
    BY <1>2, <1>6, OthersElsewhere
  <2>2. QED BY <1>4, <1>6, <1>7, <1>10, <2>1, CutShape
<1> DEFINE T == {x}
<1>12. /\ T \in SUBSET Pages /\ T \in SUBSET T /\ \A z \in T : size[z] > 0
       /\ \A q \in Pages : leaf'[q] # leaf[q] => \E z \in T : q \in z .. Last(z)
       /\ cur'[t] \in T /\ cur[t] \in T
       /\ \A z \in T : ShapeOf(z)' /\ (z \notin allocated \/ z \notin allocated')
  BY <1>2, <1>4, <1>7, <1>9, <1>11
<1> HIDE DEF T
<1>13. QED BY <1>6, <1>7, <1>12, WorkKeeps

(* The tail joins the pool it came from: no leaf changes.                   *)
LEMMA PutBackShapes ==
  ASSUME IndInv, LeafInv, NEW t \in Threads, PutBack(t)
  PROVE  LeafInv' /\ Spares
<1>1. TypeOK
  BY DEF IndInv
<1>2. PICK x \in Pages : x = cur[t] /\ x \in Held(t) /\ x \notin allocated /\ size[x] > 0
  BY CurIsActive DEF PutBack, WithCur
<1>3. /\ UNCHANGED <<memVars, size, slab, leaf, allocated, cur, want>>
      /\ pc[t] = "putback" /\ pc' = [pc EXCEPT ![t] = "commit"]
  BY DEF PutBack, Goto, runVars
<1>4. OthersStand(t) /\ cur'[t] = x /\ pc'[t] = "commit" /\ want'[t] = want[t]
  BY <1>1, <1>2, <1>3 DEF OthersStand, TypeOK
<1>5. \A u \in Threads \ {t} : cur[u] # x
  BY <1>2, OthersElsewhere
<1>6. slab[x] = FALSE
  <2>1. \A u \in Threads : pc[u] = "register" => cur[u] # x
    BY <1>3, <1>5
  <2>2. QED BY <1>2, <2>1, NotSlab DEF LeafInv
<1>7. want[t].kind = "large" => Large(x)
  BY <1>2, <1>3 DEF LeafInv, Shapes, ShapeOf
<1>8. Large(x)' <=> Large(x)
  BY <1>3 DEF Large, Tidy, Named, Last
<1>9. ShapeOf(x)'
  BY <1>2, <1>3, <1>4, <1>5, <1>6, <1>7, <1>8, CutShape
<1> DEFINE T == {x}
<1>10. /\ T \in SUBSET Pages /\ T \in SUBSET T /\ \A z \in T : size[z] > 0
       /\ \A q \in Pages : leaf'[q] # leaf[q] => \E z \in T : q \in z .. Last(z)
       /\ cur'[t] \in T /\ cur[t] \in T
       /\ \A z \in T : ShapeOf(z)' /\ (z \notin allocated \/ z \notin allocated')
  BY <1>2, <1>3, <1>4, <1>9
<1> HIDE DEF T
<1>11. QED BY <1>3, <1>4, <1>10, WorkKeeps

(* Free: a slab's leaves are cleared down to the two ends.                  *)
LEMMA FreeShapes ==
  ASSUME IndInv, LeafInv, NEW t \in Threads, NEW x \in allocated, Free(t, x)
  PROVE  LeafInv' /\ Spares
<1>1. TypeOK /\ Fenced /\ Live /\ ClientsActive
  BY DEF IndInv
<1>2. x \in Pages /\ size[x] > 0 /\ size[x] \in Nat
  BY <1>1, ActivesExist DEF TypeOK, ClientsActive
<1>3. /\ pc[t] = "idle" /\ allocated' = allocated \ {x}
      /\ leaf' = IF slab[x]
                   THEN SetEnds(SetAll(leaf, x, size[x], NullLeaf), x, size[x], ExtLeaf(x, TRUE))
                   ELSE leaf
      /\ slab' = [slab EXCEPT ![x] = FALSE] /\ Coalesce(t, x, "dirty", "next", "idle")
      /\ UNCHANGED <<memVars, size, want>>
  BY DEF Free
<1>4. OthersStand(t) /\ ~Building(t) /\ ~Building(t)'
  <2>1. OthersStand(t) /\ pc'[t] \in {"merge", "idle", "stash"}
    BY <1>3, CoalesceStands DEF Sides
  <2>2. QED BY <1>3, <2>1 DEF Building
<1>5. /\ Last(x) \in Pages /\ x <= Last(x) /\ Last(x) = x + size[x] - 1 /\ x \in Int /\ Last(x) \in Int
  BY <1>1, <1>2, LastIsPage DEF Last, Pages
<1>6. Last(x)' = Last(x)
  BY <1>3 DEF Last
<1>7. (\A q \in Pages : leaf'[q] # leaf[q] => q \in x .. Last(x)) /\ Tidy(x)'
  <2>1. CASE slab[x]
    <3>1. ExtLeaf(x, TRUE).tag = "extent" /\ ExtLeaf(x, TRUE).id = x
      BY <1>2, LeafKinds
    <3>2. \A q \in Pages : leaf'[q] = IF q = x \/ q = Last(x) THEN ExtLeaf(x, TRUE)
                                      ELSE IF q \in x .. Last(x) THEN NullLeaf ELSE leaf[q]
      BY <1>2, <1>3, <1>5, <2>1 DEF SetEnds, SetAll
    <3>3. \A q \in x + 1 .. Last(x) - 1 : q \in Pages /\ q # x /\ q # Last(x) /\ q \in x .. Last(x)
      BY <1>2, <1>5, Counts DEF Pages
    <3>4. \A q \in x + 1 .. Last(x) - 1 : leaf'[q] = NullLeaf
      BY <3>2, <3>3
    <3>5. leaf'[x] = ExtLeaf(x, TRUE) /\ leaf'[Last(x)] = ExtLeaf(x, TRUE)
      BY <1>2, <1>5, <3>2
    <3>6. Tidy(x)'
      BY <1>6, <3>1, <3>4, <3>5 DEF Tidy, Named
    <3>7. ASSUME NEW q \in Pages, q \notin x .. Last(x)
          PROVE  leaf'[q] = leaf[q]
      <4>1. q # x /\ q # Last(x)
        BY <1>5, <3>7
      <4>2. QED BY <3>2, <3>7, <4>1
    <3>8. QED BY <3>6, <3>7
  <2>2. CASE ~slab[x]
    <3>1. leaf' = leaf /\ Large(x)
      BY <1>2, <1>3, <2>2 DEF LeafInv, Shapes, ShapeOf
    <3>2. QED BY <1>6, <3>1 DEF Large, Tidy, Named
  <2>3. QED BY <2>1, <2>2
<1>8. ShapeOf(x)'
  <2>1. \A u \in Threads : cur[u] # x
    BY <1>2, NobodyOn
  <2>2. \A u \in Threads : Building(u)' => cur'[u] # x
    BY <1>4, <2>1 DEF OthersStand
  <2>3. slab'[x] = FALSE /\ x \notin allocated'
    BY <1>1, <1>2, <1>3 DEF TypeOK
  <2>4. QED BY <1>2, <1>7, <2>2, <2>3, RestingShape
<1> DEFINE T == {x}
<1>9. /\ T \in SUBSET Pages /\ T \in SUBSET T /\ \A z \in T : size[z] > 0
      /\ \A q \in Pages : leaf'[q] # leaf[q] => \E z \in T : q \in z .. Last(z)
      /\ \A z \in T : ShapeOf(z)' /\ (z \notin allocated \/ z \notin allocated')
      /\ \A z \in Pages \ T : /\ size'[z] = size[z] /\ slab'[z] = slab[z]
                              /\ z \in allocated' <=> z \in allocated
  BY <1>1, <1>2, <1>3, <1>7, <1>8 DEF TypeOK
<1> HIDE DEF T
<1>10. QED BY <1>3, <1>4, <1>9, WorkKeeps

(* Where extent_split_impl cuts: n pages at x, the r that are left at y.    *)
LEMMA SplitPlaces ==
  ASSUME IndInv, NEW t \in Threads, SplitTail(t)
  PROVE  \E x, y \in Pages, n, r \in Nat :
           /\ x = cur[t] /\ x \in Held(t) /\ n = want[t].n
           /\ n > 0 /\ r > 0 /\ size[x] = n + r /\ y = x + n /\ size[y] = 0
           /\ size' = [size EXCEPT ![x] = n, ![y] = r]
<1>1. TypeOK /\ Fenced /\ Disjoint /\ LocalOK(t)
  BY DEF IndInv, LocalsOK
<1>2. PICK x \in Pages : x = cur[t] /\ x \in Held(t) /\ size[x] > 0
  BY CurIsActive DEF SplitTail, WithCur
<1>3. /\ Last(x) = x + size[x] - 1 /\ size[x] \in Nat /\ x \in Nat
      /\ \A q \in Int : x <= q /\ q <= Last(x) => q \in Pages
  BY <1>1, <1>2, LastIsPage, Counts DEF Pages, Last
<1>4. PICK n \in Nat : n = want[t].n /\ n > 0 /\ n < size[x]
  BY <1>1, <1>2, <1>3, RequestsPositive DEF SplitTail, LocalOK, Serving
<1>5. PICK y \in Pages : y = x + n
  BY <1>3, <1>4
<1>6. PICK r \in Nat : r = size[x] - n /\ r > 0
  BY <1>3, <1>4
<1>7. size[y] = 0
  <2>1. size[y] \in Nat
    BY <1>1, SizesAreCounts
  <2>2. x < y => ~(size[y] > 0) \/ x + size[x] <= y
    BY <1>1, <1>2 DEF Disjoint
  <2>3. QED BY <2>1, <2>2, <1>3, <1>4, <1>5
<1>8. size' = [size EXCEPT ![x] = n, ![y] = r]
  BY <1>2, <1>4, <1>5, <1>6 DEF SplitTail, TailStart
<1>9. size[x] = n + r
  BY <1>3, <1>4, <1>6
<1>10. QED BY <1>2, <1>4, <1>5, <1>6, <1>7, <1>8, <1>9

(* extent_split_impl: both parts get ends of their own.                     *)
LEMMA SplitTailShapes ==
  ASSUME IndInv, LeafInv, NEW t \in Threads, SplitTail(t)
  PROVE  LeafInv' /\ Spares
<1>1. TypeOK /\ Fenced
  BY DEF IndInv
<1>2. PICK x \in Pages, y \in Pages, n \in Nat, r \in Nat :
         /\ x = cur[t] /\ x \in Held(t) /\ n = want[t].n
         /\ n > 0 /\ r > 0 /\ size[x] = n + r /\ y = x + n /\ size[y] = 0
         /\ size' = [size EXCEPT ![x] = n, ![y] = r]
  BY SplitPlaces
<1>3. ~Building(t)
  BY DEF SplitTail, Building
<1>4. size[x] > 0 /\ x \notin allocated /\ Tidy(x) /\ slab[x] = FALSE
  BY <1>2, <1>3, HeldTidy
<1>5. /\ Last(x) \in Pages /\ Last(x) = x + size[x] - 1 /\ size[x] \in Nat /\ x \in Int
      /\ \A q \in Int : x <= q /\ q <= Last(x) => q \in Pages
  BY <1>1, <1>4, LastIsPage DEF Pages, Last
<1>6. n > 0 /\ n < size[x]
  BY <1>2
<1>7. y = x + n /\ y # x
  BY <1>2, <1>5
<1>8. r = size[x] - n /\ y + r - 1 = Last(x)
  BY <1>2, <1>5
<1>9. x + n - 1 \in Pages /\ y \in Int /\ Last(x) \in Int
  BY <1>5, <1>6, <1>7 DEF Pages
<1>10. y \notin allocated /\ slab[y] = FALSE /\ \A u \in Threads : cur[u] # y
  BY <1>2, Unborn, NotSlab DEF LeafInv
<1>11. PICK v : v = LeafOf(x, want[t].kind) /\ (want[t].kind = "large" => v = ExtLeaf(x, FALSE))
  BY DEF LeafOf
<1>12. /\ size' = [size EXCEPT ![x] = n, ![y] = r]
       /\ slab' = [slab EXCEPT ![y] = FALSE]
       /\ leaf' = SetEnds(SetEnds(leaf, x, n, v), y, r, ExtLeaf(y, FALSE))
       /\ pc' = [pc EXCEPT ![t] = "putback"]
       /\ UNCHANGED <<memVars, allocated, cur, want>>
  BY <1>2, <1>6, <1>7, <1>8, <1>11 DEF SplitTail, TailStart, Goto, runVars
<1>13. OthersStand(t) /\ cur'[t] = x /\ pc'[t] = "putback" /\ want'[t] = want[t]
  BY <1>1, <1>2, <1>12 DEF OthersStand, TypeOK
<1>14. /\ size'[x] = n /\ size'[y] = r /\ slab'[x] = FALSE /\ slab'[y] = FALSE
       /\ \A z \in Pages \ {x, y} : size'[z] = size[z] /\ slab'[z] = slab[z]
  BY <1>1, <1>4, <1>7, <1>12 DEF TypeOK
<1>15. \A q \in Pages : leaf'[q] = IF q = y \/ q = Last(x) THEN ExtLeaf(y, FALSE)
                                   ELSE IF q = x \/ q = x + n - 1 THEN v ELSE leaf[q]
  <2>1. leaf' = SetEnds(SetEnds(leaf, x, n, v), y, r, ExtLeaf(y, FALSE)) /\ y + r - 1 = Last(x)
    BY <1>8, <1>12
  <2>2. leaf = [q \in Pages |-> leaf[q]]
    BY <1>1 DEF TypeOK
  <2>3. QED BY <2>1, <2>2, <1>5, <1>9 DEF SetEnds
<1>16. \A q \in Pages : leaf'[q] # leaf[q] => q \in x .. Last(x)
  <2>1. {x, y, x + n - 1, Last(x)} \subseteq x .. Last(x)
    BY <1>5, <1>6, <1>7, <1>8, <1>9
  <2>2. QED BY <1>15, <2>1
<1>17. \A q \in x + 1 .. Last(x) - 1 : q \in Pages /\ leaf[q] = NullLeaf
  BY <1>4, <1>5, <1>9 DEF Tidy
<1>18. Tidy(y)'
  <2>1. Last(y)' = Last(x)
    BY <1>8, <1>14 DEF Last
  <2>2. leaf'[y] = ExtLeaf(y, FALSE) /\ leaf'[Last(x)] = ExtLeaf(y, FALSE)
    BY <1>5, <1>15
  <2>3. \A q \in y + 1 .. Last(x) - 1 : leaf'[q] = NullLeaf
    <3> TAKE q \in y + 1 .. Last(x) - 1
    <3>1. q \in x + 1 .. Last(x) - 1 /\ q # y /\ q # Last(x) /\ q # x /\ q # x + n - 1
      BY <1>5, <1>6, <1>7, <1>9
    <3>2. q \in Pages /\ leaf[q] = NullLeaf
      BY <3>1, <1>17
    <3>3. QED BY <3>1, <3>2, <1>15
  <2>4. ExtLeaf(y, FALSE).tag = "extent" /\ ExtLeaf(y, FALSE).id = y
    BY LeafKinds
  <2>5. QED BY <2>1, <2>2, <2>3, <2>4 DEF Tidy, Named
<1>19. ASSUME want'[t].kind = "large"
       PROVE  Large(x)'
  <2>1. v = ExtLeaf(x, FALSE)
    BY <1>11, <1>13, <1>19
  <2>2. PICK l \in Pages : l = x + n - 1 /\ Last(x)' = l
    BY <1>9, <1>14 DEF Last
  <2>3. x # y /\ x # Last(x) /\ x + n - 1 # y /\ x + n - 1 # Last(x)
    BY <1>5, <1>6, <1>7
  <2>4. leaf'[x] = ExtLeaf(x, FALSE) /\ leaf'[l] = ExtLeaf(x, FALSE)
    BY <1>9, <1>15, <2>1, <2>2, <2>3
  <2>5. \A q \in x + 1 .. l - 1 : leaf'[q] = NullLeaf
    <3> TAKE q \in x + 1 .. l - 1
    <3>1. q \in x + 1 .. Last(x) - 1 /\ q # y /\ q # Last(x) /\ q # x /\ q # x + n - 1
      BY <1>5, <1>6, <1>7, <1>9, <2>2
    <3>2. QED BY <3>1, <1>15, <1>17
  <2>6. ExtLeaf(x, FALSE).tag = "extent" /\ ExtLeaf(x, FALSE).id = x
    BY LeafKinds
  <2>7. Tidy(x)'
    BY <2>2, <2>4, <2>5, <2>6 DEF Tidy, Named
  <2>8. QED BY <2>4, <2>7 DEF Large
<1>20. ShapeOf(x)'
  <2>1. \A u \in Threads \ {t} : cur'[u] # x
    BY <1>2, <1>12, OthersElsewhere
  <2>2. x \notin allocated'
    BY <1>4, <1>12
  <2>3. QED BY <1>13, <1>14, <1>19, <2>1, <2>2, CutShape
<1>21. ShapeOf(y)'
  <2>1. y \notin allocated' /\ \A u \in Threads : cur'[u] # y
    BY <1>10, <1>12
  <2>2. QED BY <1>14, <1>18, <2>1, RestingShape
<1> DEFINE T == {x, y}
           S == {x}
<1>22. /\ T \in SUBSET Pages /\ S \in SUBSET T /\ \A z \in S : size[z] > 0
       /\ \A q \in Pages : leaf'[q] # leaf[q] => \E z \in S : q \in z .. Last(z)
       /\ \A z \in Pages \ T : /\ size'[z] = size[z] /\ slab'[z] = slab[z]
                               /\ z \in allocated' <=> z \in allocated
       /\ cur'[t] \in T /\ cur[t] \in T
       /\ \A z \in T : ShapeOf(z)' /\ (z \notin allocated \/ z \notin allocated')
  BY <1>2, <1>4, <1>10, <1>12, <1>13, <1>14, <1>16, <1>20, <1>21
<1> HIDE DEF T, S
<1>23. UNCHANGED memVars
  BY <1>12
<1>24. QED BY <1>13, <1>22, <1>23, WorkKeeps

(* What extent_merge_impl joins: a and, right behind it, b.                 *)
LEMMA MergePlaces ==
  ASSUME IndInv, NEW t \in Threads, Merge(t)
  PROVE  \E a, b \in Pages :
           /\ a = IF cur[t] < oth[t] THEN cur[t] ELSE oth[t]
           /\ b = IF cur[t] < oth[t] THEN oth[t] ELSE cur[t]
           /\ a \in Held(t) /\ b \in Held(t)
           /\ a \in Nat /\ size[a] \in Nat /\ size[b] \in Nat
           /\ size[a] > 0 /\ size[b] > 0 /\ b = a + size[a]
           /\ size' = [size EXCEPT ![a] = size[a] + size[b], ![b] = 0]
<1>1. TypeOK /\ Live /\ LocalOK(t) /\ HeldAlone
  BY DEF IndInv, LocalsOK
<1>2. /\ cur[t] \in Pages /\ oth[t] \in Pages
      /\ cur[t] # oth[t] /\ cur[t] \in Held(t) /\ oth[t] \in Held(t)
      /\ cur[t] + size[cur[t]] = oth[t] \/ oth[t] + size[oth[t]] = cur[t]
  BY <1>1 DEF Merge, LocalOK, WithCur, WithOth, TypeOK, Held
<1>3. \A x \in {cur[t], oth[t]} : x \in Nat /\ size[x] \in Nat /\ size[x] > 0
  BY <1>1, <1>2, ActivesExist, Counts DEF HeldAlone, Pages
<1>4. PICK a \in Pages, b \in Pages :
         /\ a = IF cur[t] < oth[t] THEN cur[t] ELSE oth[t]
         /\ b = IF cur[t] < oth[t] THEN oth[t] ELSE cur[t]
  BY <1>2
<1>5. a \in {cur[t], oth[t]} /\ b \in {cur[t], oth[t]} /\ a # b
  BY <1>2, <1>4
<1>6. b = a + size[a]
  BY <1>2, <1>3, <1>4
<1>7. size' = [size EXCEPT ![a] = size[a] + size[b], ![b] = 0]
  BY <1>4 DEF Merge
<1>8. QED BY <1>2, <1>3, <1>4, <1>5, <1>6, <1>7

(* extent_merge_impl: the ends of the two become the ends of the whole.     *)
LEMMA MergeShapes ==
  ASSUME IndInv, LeafInv, NEW t \in Threads, Merge(t)
  PROVE  LeafInv' /\ Spares
<1>1. TypeOK /\ Fenced
  BY DEF IndInv
<1>2. PICK a \in Pages, b \in Pages :
         /\ a = IF cur[t] < oth[t] THEN cur[t] ELSE oth[t]
         /\ b = IF cur[t] < oth[t] THEN oth[t] ELSE cur[t]
         /\ a \in Held(t) /\ b \in Held(t)
         /\ a \in Nat /\ size[a] \in Nat /\ size[b] \in Nat
         /\ size[a] > 0 /\ size[b] > 0 /\ b = a + size[a]
         /\ size' = [size EXCEPT ![a] = size[a] + size[b], ![b] = 0]
  BY MergePlaces
<1>3. b = a + size[a] /\ a # b
  BY <1>2
<1>4. a \in Held(t) /\ b \in Held(t)
  BY <1>2
<1>5. ~Building(t)
  BY DEF Merge, Building
<1>6. /\ size[a] > 0 /\ a \notin allocated /\ Tidy(a) /\ slab[a] = FALSE
      /\ size[b] > 0 /\ b \notin allocated /\ Tidy(b) /\ slab[b] = FALSE
  BY <1>4, <1>5, HeldTidy
<1>7. /\ Last(a) \in Pages /\ Last(a) = a + size[a] - 1 /\ size[a] \in Nat /\ a \in Int /\ Last(a) \in Int
      /\ Last(b) \in Pages /\ Last(b) = b + size[b] - 1 /\ size[b] \in Nat /\ b \in Int /\ Last(b) \in Int
      /\ \A q \in Int : a <= q /\ q <= Last(a) => q \in Pages
      /\ \A q \in Int : b <= q /\ q <= Last(b) => q \in Pages
  BY <1>1, <1>6, LastIsPage DEF Pages, Last
<1>8. b = a + size[a]
  BY <1>2
<1>9. /\ leaf' = [leaf EXCEPT ![Last(a)] = NullLeaf, ![b] = NullLeaf,
                             ![a] = ExtLeaf(a, FALSE), ![Last(b)] = ExtLeaf(a, FALSE)]
      /\ size' = [size EXCEPT ![a] = size[a] + size[b], ![b] = 0]
      /\ cur' = [cur EXCEPT ![t] = a]
      /\ \E label \in {"record", "reinsert"} : pc' = [pc EXCEPT ![t] = label]
      /\ UNCHANGED <<memVars, slab, allocated, want>>
  BY <1>2 DEF Merge, Goto, runVars
<1>10. OthersStand(t) /\ ~Building(t)'
  BY <1>1, <1>9 DEF OthersStand, Building, TypeOK
<1>11. /\ size'[a] = size[a] + size[b] /\ size'[b] = 0
       /\ \A z \in Pages \ {a, b} : size'[z] = size[z]
  BY <1>1, <1>2, <1>3 DEF TypeOK
<1>12. \A q \in Pages : leaf'[q] = IF q = a \/ q = Last(b) THEN ExtLeaf(a, FALSE)
                                   ELSE IF q = b \/ q = Last(a) THEN NullLeaf ELSE leaf[q]
  BY <1>1, <1>7, <1>9 DEF TypeOK
<1>13. \A q \in Pages : leaf'[q] # leaf[q] => q \in a .. Last(a) \/ q \in b .. Last(b)
  <2>1. {a, Last(a)} \subseteq a .. Last(a) /\ {b, Last(b)} \subseteq b .. Last(b)
    BY <1>6, <1>7
  <2>2. QED BY <1>12, <2>1
<1>14. Tidy(a)'
  <2>1. Last(a)' = Last(b)
    BY <1>7, <1>8, <1>11 DEF Last
  <2>2. leaf'[a] = ExtLeaf(a, FALSE) /\ leaf'[Last(b)] = ExtLeaf(a, FALSE)
    BY <1>7, <1>12
  <2>3. \A q \in a + 1 .. Last(b) - 1 : leaf'[q] = NullLeaf
    <3> TAKE q \in a + 1 .. Last(b) - 1
    <3>1. q # a /\ q # Last(b) /\ q \in Pages
      BY <1>6, <1>7, <1>8
    <3>2. CASE q = b \/ q = Last(a)
      BY <3>1, <3>2, <1>12
    <3>3. CASE q # b /\ q # Last(a)
      <4>1. q \in a + 1 .. Last(a) - 1 \/ q \in b + 1 .. Last(b) - 1
        BY <3>3, <1>6, <1>7, <1>8
      <4>2. leaf[q] = NullLeaf
        BY <4>1, <1>6 DEF Tidy
      <4>3. QED BY <3>1, <3>3, <4>2, <1>12
    <3>4. QED BY <3>2, <3>3
  <2>4. ExtLeaf(a, FALSE).tag = "extent" /\ ExtLeaf(a, FALSE).id = a
    BY LeafKinds
  <2>5. QED BY <2>1, <2>2, <2>3, <2>4 DEF Tidy, Named
<1>15. \A u \in Threads : Building(u)' => cur'[u] # a /\ cur'[u] # b
  <2>1. \A u \in Threads \ {t} : cur[u] # a /\ cur[u] # b
    BY <1>4, OthersElsewhere
  <2>2. QED BY <2>1, <1>10 DEF OthersStand
<1>16. ShapeOf(a)' /\ ShapeOf(b)'
  <2>1. /\ a \notin allocated' /\ slab'[a] = FALSE
        /\ b \notin allocated' /\ slab'[b] = FALSE /\ ~(size'[b] > 0)
    BY <1>6, <1>9, <1>11
  <2>2. ShapeOf(a)'
    BY <2>1, <1>14, <1>15, RestingShape
  <2>3. ShapeOf(b)'
    BY <2>1, <1>15, RestingShape
  <2>4. QED BY <2>2, <2>3
<1> DEFINE T == {a, b}
<1>17. /\ T \in SUBSET Pages /\ T \in SUBSET T /\ \A z \in T : size[z] > 0
       /\ \A q \in Pages : leaf'[q] # leaf[q] => \E z \in T : q \in z .. Last(z)
       /\ \A z \in Pages \ T : /\ size'[z] = size[z] /\ slab'[z] = slab[z]
                               /\ z \in allocated' <=> z \in allocated
       /\ \A z \in T : ShapeOf(z)' /\ (z \notin allocated \/ z \notin allocated')
  BY <1>6, <1>9, <1>11, <1>13, <1>16
<1> HIDE DEF T
<1>18. QED BY ZenonT(60), <1>5, <1>9, <1>10, <1>17, WorkKeeps

-----------------------------------------------------------------------------
(* Fresh memory. *)

LEMMA NewCounts ==
  ASSUME IndInv
  PROVE  /\ newAddr \in Nat /\ newN \in Nat
         /\ \A x \in Pages : x \in Nat /\ size[x] \in Nat
<1>1. TypeOK
  BY DEF IndInv
<1>2. newAddr \in Nat /\ newN \in Nat
  BY <1>1, Counts DEF TypeOK
<1>3. \A x \in Pages : x \in Nat /\ size[x] \in Nat
  BY <1>1, SizesAreCounts, Counts DEF Pages
<1>4. QED BY <1>2, <1>3

(* arena_activate_new_memory finds blank pages.                             *)
LEMMA BumpShapes ==
  ASSUME IndInv, LeafInv, NEW t \in Threads, AllocBump(t)
  PROVE  LeafInv' /\ Spares
<1>1. TypeOK /\ NewFree /\ LocalOK(t)
  BY DEF IndInv, LocalsOK
<1>2. newAddr \in Nat /\ newN \in Nat /\ \A x \in Pages : x \in Nat /\ size[x] \in Nat
  BY NewCounts
<1>3. PICK n \in Nat : n = want[t].n /\ n > 0 /\ n <= newN /\ newAddr + n <= NPages
  <2>1. want[t].n \in Nat /\ want[t].n > 0
    BY <1>1, RequestsPositive DEF AllocBump, LocalOK, Serving
  <2>2. QED BY <2>1 DEF AllocBump, Room
<1>4. PICK y \in Pages : y = newAddr
  BY <1>2, <1>3, Counts DEF Pages
<1>5. /\ pc[t] = "new" /\ newAddr' = y + n /\ newN' = newN - n /\ mapped' = mapped
      /\ size' = [size EXCEPT ![y] = n] /\ cur' = [cur EXCEPT ![t] = y]
      /\ pc' = [pc EXCEPT ![t] = "register"]
      /\ \E s : slab' = [slab EXCEPT ![y] = s]
      /\ UNCHANGED <<leaf, allocated, want>>
  BY <1>3, <1>4 DEF AllocBump, Goto, runVars
<1>6. /\ OthersStand(t) /\ cur'[t] = y /\ pc'[t] = "register" /\ ~Building(t)
  BY <1>1, <1>5 DEF OthersStand, Building, TypeOK
<1>7. size[y] = 0
  <2>1. ~(size[y] > 0)
    BY <1>1, <1>2, <1>3, <1>4 DEF NewFree
  <2>2. QED BY <1>2, <2>1
<1>8. y \notin allocated /\ \A u \in Threads : cur[u] # y
  BY <1>7, Unborn
<1>9. Bare(y)'
  <2>1. Last(y)' = y + n - 1
    BY <1>1, <1>5 DEF Last, TypeOK
  <2>2. \A q \in y .. y + n - 1 : q \in Pages /\ newAddr <= q /\ q < newAddr + newN
    BY <1>2, <1>3, <1>4, Counts DEF Pages
  <2>3. \A q \in y .. y + n - 1 : leaf[q] = NullLeaf
    BY <2>2 DEF LeafInv, Blank
  <2>4. QED BY <1>5, <2>1, <2>3 DEF Bare
<1>10. ShapeOf(y)'
  BY <1>5, <1>6, <1>8, <1>9, FreshShape DEF OthersStand
<1> DEFINE T == {y}
<1>11. /\ T \in SUBSET Pages
       /\ \A x \in Pages \ T : Same(x) /\ (x \in allocated' <=> x \in allocated)
       /\ cur'[t] \in T
       /\ \A x \in T : ShapeOf(x)' /\ (x \notin allocated \/ x \notin allocated')
  BY <1>1, <1>5, <1>6, <1>8, <1>10 DEF Same, TypeOK
<1> HIDE DEF T
<1>12. Shapes' /\ Spares
  BY <1>6, <1>11, ShapesKept DEF LeafInv
<1>13. Blank'
  <2>1. SUFFICES ASSUME NEW q \in Pages, leaf[q] # NullLeaf
                 PROVE  InMapped(q)' /\ ~(newAddr' <= q /\ q < newAddr' + newN')
    BY <1>5 DEF Blank
  <2>2. InMapped(q) /\ ~(newAddr <= q /\ q < newAddr + newN)
    BY <2>1 DEF LeafInv, Blank
  <2>3. InMapped(q)'
    BY <1>5, <2>2 DEF InMapped
  <2>4. QED BY <1>2, <1>3, <1>4, <1>5, <2>2, <2>3
<1>14. QED BY <1>12, <1>13 DEF LeafInv

(* A page of a chunk that is not mapped is in no mapped chunk.              *)
LEMMA UnmappedApart ==
  ASSUME TypeOK, NEW b \in ChunkBases \ mapped, NEW q \in Nat, b <= q, q < b + ChunkPages
  PROVE  ~InMapped(q)
<1>1. SUFFICES ASSUME NEW d \in mapped, d <= q, q < d + ChunkPages PROVE FALSE
  BY DEF InMapped
<1>2. d \in ChunkBases /\ d # b
  BY DEF TypeOK
<1>3. d \in Nat /\ b \in Nat /\ (d < b => d + ChunkPages <= b) /\ (b < d => b + ChunkPages <= d)
  BY <1>2, Counts
<1>4. QED BY <1>1, <1>2, <1>3, Counts

(* The rest of the newest chunk and a chunk b that is not mapped yet.       *)
LEMMA ChunkPlaces ==
  ASSUME IndInv, NEW b \in ChunkBases \ mapped
  PROVE  /\ b \in Pages /\ size[b] = 0
         /\ \A q \in Pages : b <= q /\ q < b + ChunkPages => ~InMapped(q)
         /\ \A q \in Pages : newAddr <= q /\ q < newAddr + newN => InMapped(q)
         /\ newN > 0 => /\ newAddr \in Pages /\ newAddr + newN - 1 \in Pages
                        /\ newAddr # b /\ size[newAddr] = 0
<1>1. TypeOK /\ NewFree /\ NewMapped /\ AllMapped
  BY DEF IndInv
<1>2. /\ newAddr \in Nat /\ newN \in Nat /\ \A x \in Pages : x \in Nat /\ size[x] \in Nat
      /\ b \in Nat /\ b + ChunkPages <= NPages /\ ChunkPages \in Nat /\ ChunkPages > 0
  BY NewCounts, Counts
<1>3. b \in Pages /\ NPages \in Nat
  BY <1>2, Counts DEF Pages
<1>4. \A q \in Pages : b <= q /\ q < b + ChunkPages => ~InMapped(q)
  BY <1>1, <1>2, UnmappedApart
<1>5. PICK d \in mapped : d <= newAddr /\ newAddr + newN = d + ChunkPages
  BY <1>1 DEF NewMapped
<1>6. d \in Nat /\ d + ChunkPages <= NPages
  BY <1>1, Counts DEF TypeOK
<1>7. \A q \in Pages : newAddr <= q /\ q < newAddr + newN => InMapped(q)
  BY <1>2, <1>5, <1>6 DEF InMapped
<1>8. size[b] = 0
  <2>1. ~InMapped(b)
    BY <1>2, <1>3, <1>4
  <2>2. ~(size[b] > 0)
    BY <1>1, <1>2, <1>3, <2>1 DEF AllMapped
  <2>3. QED BY <1>2, <1>3, <2>2
<1>9. ASSUME newN > 0
      PROVE  /\ newAddr \in Pages /\ newAddr + newN - 1 \in Pages
             /\ newAddr # b /\ size[newAddr] = 0
  <2>1. newAddr \in Pages /\ newAddr + newN - 1 \in Pages
    BY <1>2, <1>3, <1>5, <1>6, <1>9 DEF Pages
  <2>2. newAddr # b
    BY <1>2, <1>4, <1>7, <1>9, <2>1
  <2>3. ~(size[newAddr] > 0)
    BY <1>1, <1>2, <1>9, <2>1 DEF NewFree
  <2>4. QED BY <1>2, <2>1, <2>2, <2>3
<1>10. QED BY <1>3, <1>4, <1>7, <1>8, <1>9

LEMMA ChunkShapes ==
  ASSUME RequestsFitChunk, IndInv, LeafInv, NEW t \in Threads, NEW b \in ChunkBases \ mapped,
         AllocChunk(t, b)
  PROVE  LeafInv' /\ Spares
<1>1. TypeOK /\ NewFree /\ NewMapped /\ AllMapped /\ LocalOK(t)
  BY DEF IndInv, LocalsOK
<1>2. /\ newAddr \in Nat /\ newN \in Nat /\ \A x \in Pages : x \in Nat /\ size[x] \in Nat
      /\ b \in Nat /\ b + ChunkPages <= NPages /\ ChunkPages \in Nat /\ ChunkPages > 0
  BY NewCounts, Counts
<1>3. PICK n \in Nat : n = want[t].n /\ n > 0 /\ n <= ChunkPages
  <2>1. want[t].n \in Requests \cup {SlabPages}
    BY <1>1 DEF AllocChunk, LocalOK, Serving
  <2>2. QED BY <2>1, RequestsPositive DEF RequestsFitChunk
<1>4. b \in Pages /\ NPages \in Nat
  BY <1>2, Counts DEF Pages
<1>5. PICK rest \in BOOLEAN : rest <=> KeepRest
  OBVIOUS
<1>6. /\ pc[t] = "new" /\ mapped' = mapped \cup {b} /\ newAddr' = b + n
      /\ newN' = (ChunkPages - n) % SizeMod
      /\ cur' = [cur EXCEPT ![t] = b] /\ pc' = [pc EXCEPT ![t] = "register"]
      /\ \E s : slab' = [slab EXCEPT ![b] = s]
      /\ UNCHANGED <<allocated, want>>
      /\ IF rest
           THEN /\ size' = [size EXCEPT ![newAddr] = newN, ![b] = n]
                /\ leaf' = SetEnds(leaf, newAddr, newN, ExtLeaf(newAddr, FALSE))
           ELSE /\ size' = [size EXCEPT ![b] = n]
                /\ leaf' = leaf
  BY <1>3, <1>5 DEF AllocChunk, Goto, runVars
<1>7. newN' = ChunkPages - n
  BY <1>2, <1>3, <1>6, Counts
<1>8. OthersStand(t) /\ cur'[t] = b /\ pc'[t] = "register" /\ ~Building(t)
  BY <1>1, <1>6 DEF OthersStand, Building, TypeOK
<1>9. \A q \in Pages : b <= q /\ q < b + ChunkPages => ~InMapped(q)
  BY ChunkPlaces
<1>10. \A q \in Pages : newAddr <= q /\ q < newAddr + newN => InMapped(q) /\ leaf[q] = NullLeaf
  BY ChunkPlaces DEF LeafInv, Blank
<1>11. size[b] = 0
  BY ChunkPlaces
<1>12. b \notin allocated /\ \A u \in Threads : cur[u] # b
  BY <1>4, <1>11, Unborn
<1>13. newN > 0 => newAddr \in Pages /\ newAddr # b /\ size[newAddr] = 0 /\ newAddr + newN - 1 \in Pages
  BY ChunkPlaces
<1>14. rest => newN > 0
  BY <1>2, <1>5, ExtentsAssumption DEF KeepRest
<1>15. \A q \in Pages : leaf'[q] # leaf[q] => rest /\ newAddr <= q /\ q < newAddr + newN
  <2>1. CASE ~rest
    BY <2>1, <1>6
  <2>2. CASE rest
    <3>1. leaf' = SetEnds(leaf, newAddr, newN, ExtLeaf(newAddr, FALSE))
      BY <2>2, <1>6
    <3>2. \A q \in Pages : q # newAddr /\ q # newAddr + newN - 1 => leaf'[q] = leaf[q]
      BY <3>1, <1>1 DEF SetEnds, TypeOK
    <3>3. QED BY <2>2, <3>2, <1>2, <1>14
  <2>3. QED BY <2>1, <2>2
<1>16. size'[b] = n /\ \A x \in Pages \ {b} : size'[x] = IF rest /\ x = newAddr THEN newN ELSE size[x]
  <2>1. CASE ~rest
    BY <2>1, <1>1, <1>4, <1>6 DEF TypeOK
  <2>2. CASE rest
    BY <2>2, <1>1, <1>4, <1>6, <1>13, <1>14 DEF TypeOK
  <2>3. QED BY <2>1, <2>2
<1>17. \A x \in Pages \ {b} : slab'[x] = slab[x]
  BY <1>1, <1>6 DEF TypeOK
<1>18. ShapeOf(b)'
  <2>1. Last(b)' = b + n - 1
    BY <1>16 DEF Last
  <2>2. \A q \in b .. b + n - 1 : q \in Pages /\ b <= q /\ q < b + ChunkPages
    BY <1>2, <1>3, <1>4 DEF Pages
  <2>3. \A q \in b .. b + n - 1 : ~InMapped(q)
    BY <1>9, <2>2
  <2>4. \A q \in b .. b + n - 1 : leaf[q] = NullLeaf
    BY <2>2, <2>3 DEF LeafInv, Blank
  <2>5. \A q \in b .. b + n - 1 : leaf'[q] = leaf[q]
    BY <1>10, <1>15, <2>2, <2>3
  <2>6. Bare(b)'
    BY <2>1, <2>4, <2>5 DEF Bare
  <2>7. QED BY <1>4, <1>6, <1>8, <1>12, <2>6, FreshShape DEF OthersStand
<1>19. ASSUME NEW y \in Pages, y = newAddr, rest
       PROVE  ShapeOf(y)' /\ y \notin allocated
  <2>1. size[y] = 0 /\ y # b /\ newN > 0 /\ size'[y] = newN
    BY <1>13, <1>14, <1>16, <1>19
  <2>2. y \notin allocated /\ \A u \in Threads : cur[u] # y
    BY <2>1, Unborn
  <2>3. slab'[y] = FALSE
    BY <1>17, <2>1, <2>2, NotSlab DEF LeafInv
  <2>4. PICK l \in Pages : l = y + newN - 1 /\ Last(y)' = l
    BY <1>13, <1>14, <1>16, <1>19, <2>1 DEF Last
  <2>5. leaf' = SetEnds(leaf, y, newN, ExtLeaf(y, FALSE)) /\ leaf = [q \in Pages |-> leaf[q]]
    BY <1>1, <1>6, <1>19 DEF TypeOK
  <2>6. \A q \in Pages : leaf'[q] = IF q = y \/ q = l THEN ExtLeaf(y, FALSE) ELSE leaf[q]
    BY <2>4, <2>5 DEF SetEnds
  <2>7. \A q \in y + 1 .. l - 1 : leaf'[q] = NullLeaf
    <3> TAKE q \in y + 1 .. l - 1
    <3>1. q \in Pages /\ q # y /\ q # l /\ newAddr <= q /\ q < newAddr + newN
      BY <1>2, <1>4, <1>19, <2>4 DEF Pages
    <3>2. QED BY <1>10, <2>6, <3>1
  <2>8. ExtLeaf(y, FALSE).tag = "extent" /\ ExtLeaf(y, FALSE).id = y
    BY LeafKinds
  <2>9. Tidy(y)'
    BY <2>4, <2>6, <2>7, <2>8 DEF Tidy, Named
  <2>10. \A u \in Threads : Building(u)' => cur'[u] # y
    BY <1>8, <2>1, <2>2 DEF OthersStand
  <2>11. QED BY <1>6, <2>2, <2>3, <2>9, <2>10, RestingShape
<1> DEFINE T == {b} \cup {y \in Pages : rest /\ y = newAddr}
<1>20. ASSUME NEW x \in Pages \ T
       PROVE  Same(x) /\ (x \in allocated' <=> x \in allocated)
  <2>1. size'[x] = size[x] /\ slab'[x] = slab[x]
    BY <1>16, <1>17, <1>20
  <2>2. ASSUME size[x] > 0, NEW q \in x .. Last(x), leaf'[q] # leaf[q]
        PROVE  FALSE
    <3>1. q \in Pages /\ q < x + size[x] /\ x <= q
      BY <1>2, <2>2, LastIsPage DEF IndInv, Last, Pages
    <3>2. newAddr <= q /\ q < newAddr + newN
      BY <1>15, <2>2, <3>1
    <3>3. x + size[x] <= newAddr \/ newAddr + newN <= x
      BY <1>1, <1>2, <2>2, <3>2, <3>1, Counts DEF NewFree, Pages
    <3>4. QED BY <1>2, <3>1, <3>2, <3>3, Counts DEF Pages
  <2>3. QED BY <1>6, <2>1, <2>2 DEF Same
<1>21. /\ T \in SUBSET Pages /\ cur'[t] \in T
       /\ \A x \in T : ShapeOf(x)' /\ (x \notin allocated \/ x \notin allocated')
  BY <1>4, <1>8, <1>12, <1>18, <1>19
<1> HIDE DEF T
<1>22. Shapes' /\ Spares
  BY <1>8, <1>20, <1>21, ShapesKept DEF LeafInv
<1>23. Blank'
  <2>1. SUFFICES ASSUME NEW q \in Pages, leaf'[q] # NullLeaf
                 PROVE  InMapped(q)' /\ ~(newAddr' <= q /\ q < newAddr' + newN')
    BY DEF Blank
  <2>2. InMapped(q)
    BY <1>10, <1>15, <2>1 DEF LeafInv, Blank
  <2>3. InMapped(q)'
    BY <1>6, <2>2 DEF InMapped
  <2>4. ~(b <= q /\ q < b + ChunkPages)
    BY <1>9, <2>2
  <2>5. QED BY <1>2, <1>3, <1>6, <1>7, <2>3, <2>4, Counts DEF Pages
<1>24. QED BY <1>22, <1>23 DEF LeafInv

-----------------------------------------------------------------------------
(* The invariant. *)

LEMMA InitLeaves == Init => LeafInv
<1>1. SUFFICES ASSUME Init PROVE LeafInv
  OBVIOUS
<1>2. /\ leaf = [q \in Pages |-> NullLeaf] /\ size = [q \in Pages |-> 0]
      /\ slab = [q \in Pages |-> FALSE]
      /\ allocated = {} /\ pc = [t \in Threads |-> "idle"]
  BY <1>1 DEF Init
<1>3. \A q \in Pages : leaf[q] = NullLeaf /\ size[q] = 0 /\ slab[q] = FALSE
  BY <1>2
<1>4. \A t \in Threads : pc[t] = "idle"
  BY <1>2
<1>5. Shapes
  BY <1>2, <1>3, <1>4 DEF Shapes, ShapeOf
<1>6. Blank
  BY <1>3 DEF Blank
<1>7. QED BY <1>5, <1>6 DEF LeafInv

LEMMA NextLeaves ==
  ASSUME RequestsFitChunk, IndInv, LeafInv, [Next]_vars
  PROVE  LeafInv' /\ Spares
<1>1. CASE UNCHANGED <<memVars, size, slab, leaf, allocated, pc, cur, want>>
  <2>1. Blank'
    BY <1>1 DEF LeafInv, Blank, InMapped, memVars
  <2>2. Shapes'
    <3>1. SUFFICES ASSUME NEW x \in Pages PROVE ShapeOf(x)'
      BY DEF Shapes
    <3>2. /\ Tidy(x)' <=> Tidy(x)
          /\ Slabby(x)' <=> Slabby(x)
          /\ Bare(x)' <=> Bare(x)
      BY <1>1 DEF Slabby, Tidy, Bare, Named, Last
    <3>3. Large(x)' <=> Large(x)
      BY <1>1, <3>2 DEF Large
    <3>4. ShapeOf(x)
      BY DEF LeafInv, Shapes
    <3>5. QED BY <1>1, <3>2, <3>3, <3>4 DEF ShapeOf, Building
  <2>3. Spares
    BY <1>1 DEF Spares, Same
  <2>4. QED BY <2>1, <2>2, <2>3 DEF LeafInv
<1>2. ASSUME NEW t \in Threads, Progress(t)
      PROVE  LeafInv' /\ Spares
  <2>1. CASE AllocBump(t)
    BY <2>1, BumpShapes
  <2>2. CASE \E b \in ChunkBases \ mapped : AllocChunk(t, b)
    BY <2>2, ChunkShapes
  <2>3. CASE Serve(t)
    BY <2>3, RegisterShapes, SplitExactShapes, SplitTailShapes, PutBackShapes, CommitShapes DEF Serve
  <2>4. CASE Merge(t)
    BY <2>4, MergeShapes
  <2>5. CASE AllocMuzzy(t) \/ Record(t) \/ Age(t)
    BY <2>5, QuietShapes
  <2>6. QED BY <1>2, <2>1, <2>2, <2>3, <2>4, <2>5 DEF Progress
<1>3. ASSUME NEW t \in Threads, Ask(t)
      PROVE  LeafInv' /\ Spares
  BY <1>3, FreeShapes, QuietShapes DEF Ask
<1>4. ASSUME NEW t \in Threads, Fail(t)
      PROVE  LeafInv' /\ Spares
  BY <1>1, <1>4 DEF Fail, objVars, runVars
<1>5. CASE UNCHANGED vars
  BY <1>1, <1>5 DEF vars, memVars
<1>6. QED BY <1>2, <1>3, <1>4, <1>5 DEF Next, Run

LEMMA LeavesInductive == RequestsFitChunk => (Spec => [](IndInv /\ LeafInv))
<1>1. SUFFICES ASSUME RequestsFitChunk PROVE Spec => [](IndInv /\ LeafInv)
  OBVIOUS
<1>2. IndInv /\ LeafInv /\ [Next]_vars => LeafInv'
  BY <1>1, NextLeaves
<1>3. QED BY <1>1, <1>2, Inductive, InitLeaves, PTL DEF Spec

(* extents_rtree agrees with the extents at rest: coalescing reads the ends *)
(* of the neighbour it means, and a free dispatches on the right kind.      *)
THEOREM LeavesAgree == RequestsFitChunk => (Spec => []LeafAgrees)
<1>1. ASSUME IndInv, LeafInv
      PROVE  LeafAgrees
  <2>1. SUFFICES ASSUME NEW x \in Pages
        PROVE  /\ state[x] \in Pools =>
                    \A q \in x .. Last(x) :
                      IF q \in {x, Last(x)} THEN leaf[q].tag = "extent" /\ leaf[q].id = x
                                            ELSE leaf[q] = NullLeaf
               /\ x \in allocated /\ slab[x] => \A q \in x .. Last(x) : leaf[q] = SlabLeaf(x)
               /\ x \in allocated /\ ~slab[x] =>
                    /\ leaf[x] = ExtLeaf(x, FALSE)
                    /\ leaf[Last(x)].tag = "extent" /\ leaf[Last(x)].id = x
                    /\ \A q \in x + 1 .. Last(x) - 1 : leaf[q] = NullLeaf
    BY DEF LeafAgrees
  <2>2. ShapeOf(x)
    BY <1>1 DEF LeafInv, Shapes
  <2>3. ASSUME state[x] \in Pools
        PROVE  \A q \in x .. Last(x) :
                 IF q \in {x, Last(x)} THEN leaf[q].tag = "extent" /\ leaf[q].id = x
                                       ELSE leaf[q] = NullLeaf
    <3>1. state[x] # "active" /\ state[x] # "none"
      BY <2>3 DEF Pools
    <3>2. size[x] > 0 /\ x \notin allocated
      BY <1>1, <3>1 DEF IndInv, Live, ClientsActive
    <3>3. \A u \in Threads : cur[u] # x
      BY <1>1, <3>1, NobodyOn
    <3>4. Tidy(x)
      BY <2>2, <3>2, <3>3 DEF ShapeOf
    <3>5. x \in Int /\ Last(x) \in Int
      BY <1>1, <3>2, LastIsPage DEF IndInv, Pages
    <3>6. QED BY <3>4, <3>5 DEF Tidy, Named
  <2>4. QED BY <2>2, <2>3 DEF ShapeOf, Slabby, Large, Tidy, Named
<1>2. QED BY <1>1, LeavesInductive, PTL

(* What a client holds keeps its length, its kind, its state and its leaves *)
(* through every step of every thread.                                      *)
THEOREM ClientsLeftAlone == RequestsFitChunk => (Spec => ClientUndisturbed)
<1>1. SUFFICES ASSUME RequestsFitChunk PROVE Spec => ClientUndisturbed
  OBVIOUS
<1>2. ASSUME IndInv, LeafInv, IndInv', [Next]_vars
      PROVE  \A x \in allocated \cap allocated' :
               /\ size'[x] = size[x] /\ slab'[x] = slab[x] /\ state'[x] = state[x]
               /\ leaf'[x] = leaf[x] /\ leaf'[Last(x)] = leaf[Last(x)]
  <2> TAKE x \in allocated \cap allocated'
  <2>1. TypeOK /\ Live /\ Fenced /\ ClientsActive /\ ClientsActive'
    BY <1>2 DEF IndInv
  <2>2. x \in Pages /\ state[x] = "active" /\ state'[x] = "active"
    BY <2>1 DEF TypeOK, ClientsActive
  <2>3. size[x] > 0
    BY <2>1, <2>2, ActivesExist
  <2>4. Same(x)
    BY <1>1, <1>2, NextLeaves DEF Spares
  <2>5. x \in x .. Last(x) /\ Last(x) \in x .. Last(x)
    BY <2>1, <2>2, <2>3, LastIsPage DEF Pages
  <2>6. QED BY <2>2, <2>3, <2>4, <2>5 DEF Same
<1>3. QED BY <1>1, <1>2, LeavesInductive, PTL DEF ClientUndisturbed, Spec

-----------------------------------------------------------------------------
(* Pages. *)

Kept(q) ==
  \/ q \in Accounted'
  \/ mapped' # mapped /\ newAddr <= q /\ q < newAddr + newN /\ newN \notin PClasses

(* The pages of the extents and the rest of the newest chunk.               *)
LEMMA AccountedBy ==
  ASSUME NEW q \in Accounted
  PROVE  /\ q \in Pages
         /\ \/ \E x \in Pages : x <= q /\ q < x + size[x]
            \/ newAddr <= q /\ q < newAddr + newN
BY DEF Accounted

LEMMA CoveredKept ==
  ASSUME NEW q \in Pages, NEW x \in Pages, x <= q, q < x + size'[x]
  PROVE  Kept(q)
BY DEF Kept, Accounted

LEMMA BumpCovers ==
  ASSUME IndInv, NEW t \in Threads, AllocBump(t), NEW q \in Accounted
  PROVE  Kept(q)
<1>1. TypeOK /\ NewFree /\ LocalOK(t)
  BY DEF IndInv, LocalsOK
<1>2. newAddr \in Nat /\ newN \in Nat /\ \A x \in Pages : x \in Nat /\ size[x] \in Nat
  BY NewCounts
<1>3. PICK n \in Nat : n = want[t].n /\ n > 0 /\ n <= newN /\ newAddr + n <= NPages
  <2>1. want[t].n \in Nat /\ want[t].n > 0
    BY <1>1, RequestsPositive DEF AllocBump, LocalOK, Serving
  <2>2. QED BY <2>1 DEF AllocBump, Room
<1>4. PICK y \in Pages : y = newAddr
  BY <1>2, <1>3, Counts DEF Pages
<1>5. newAddr' = y + n /\ newN' = newN - n /\ size' = [size EXCEPT ![y] = n]
  BY <1>3, <1>4 DEF AllocBump
<1>6. size'[y] = n /\ \A x \in Pages \ {y} : size'[x] = size[x]
  BY <1>1, <1>5 DEF TypeOK
<1>7. q \in Pages /\ q \in Nat
  BY AccountedBy, Counts DEF Pages
<1>8. ASSUME NEW x \in Pages, x <= q, q < x + size[x]
      PROVE  Kept(q)
  <2>1. size[x] > 0
    BY <1>2, <1>7, <1>8
  <2>2. x # y
    BY <1>1, <1>2, <1>3, <1>4, <2>1 DEF NewFree
  <2>3. QED BY <1>6, <1>7, <1>8, <2>2, CoveredKept
<1>9. ASSUME newAddr <= q, q < newAddr + newN
      PROVE  Kept(q)
  <2>1. CASE q < y + n
    BY <1>4, <1>6, <1>7, <1>9, <2>1, CoveredKept
  <2>2. CASE ~(q < y + n)
    <3>1. newAddr' <= q /\ q < newAddr' + newN'
      BY <1>2, <1>4, <1>5, <1>7, <1>9, <2>2
    <3>2. QED BY <1>7, <3>1 DEF Kept, Accounted
  <2>3. QED BY <2>1, <2>2
<1>10. QED BY <1>8, <1>9, AccountedBy

(* A rest that is not a size class is the one thing that is forgotten.      *)
LEMMA ChunkCovers ==
  ASSUME IndInv, NEW t \in Threads, NEW b \in ChunkBases \ mapped, AllocChunk(t, b),
         NEW q \in Accounted
  PROVE  Kept(q)
<1>1. TypeOK
  BY DEF IndInv
<1>2. /\ newAddr \in Nat /\ newN \in Nat /\ \A x \in Pages : x \in Nat /\ size[x] \in Nat
      /\ q \in Pages /\ q \in Nat
  BY NewCounts, AccountedBy, Counts DEF Pages
<1>3. /\ b \in Pages /\ size[b] = 0
      /\ newN > 0 => newAddr \in Pages /\ newAddr # b /\ size[newAddr] = 0
  BY ChunkPlaces
<1>4. mapped' # mapped
  BY DEF AllocChunk
<1>5. CASE KeepRest
  <2>1. PICK y \in Pages : y = newAddr /\ y # b /\ size[y] = 0
    <3>1. newN > 0
      BY <1>2, <1>5, ExtentsAssumption DEF KeepRest
    <3>2. QED BY <1>3, <3>1
  <2>2. size' = [size EXCEPT ![y] = newN, ![b] = want[t].n]
    BY <1>5, <2>1 DEF AllocChunk
  <2>3. size'[y] = newN /\ \A x \in Pages \ {y, b} : size'[x] = size[x]
    BY <1>1, <2>1, <2>2 DEF TypeOK
  <2>4. ASSUME NEW x \in Pages, x <= q, q < x + size[x]
        PROVE  Kept(q)
    <3>1. x # y /\ x # b
      BY <1>2, <1>3, <2>1, <2>4
    <3>2. QED BY <1>2, <2>3, <2>4, <3>1, CoveredKept
  <2>5. ASSUME newAddr <= q, q < newAddr + newN
        PROVE  Kept(q)
    BY <1>2, <2>1, <2>3, <2>5, CoveredKept
  <2>6. QED BY <2>4, <2>5, AccountedBy
<1>6. CASE ~KeepRest
  <2>1. size' = [size EXCEPT ![b] = want[t].n]
    BY <1>6 DEF AllocChunk
  <2>2. \A x \in Pages \ {b} : size'[x] = size[x]
    BY <1>1, <2>1 DEF TypeOK
  <2>3. ASSUME NEW x \in Pages, x <= q, q < x + size[x]
        PROVE  Kept(q)
    <3>1. x # b
      BY <1>2, <1>3, <2>3
    <3>2. QED BY <1>2, <2>2, <2>3, <3>1, CoveredKept
  <2>4. ASSUME newAddr <= q, q < newAddr + newN
        PROVE  Kept(q)
    BY <1>4, <1>6, <2>4 DEF Kept, KeepRest
  <2>5. QED BY <2>3, <2>4, AccountedBy
<1>7. QED BY <1>5, <1>6

(* A step that leaves the newest chunk alone keeps every page when it keeps *)
(* those of the extents.                                                    *)
LEMMA ExtentsCover ==
  ASSUME UNCHANGED memVars, NEW q \in Accounted,
         \A x \in Pages : x <= q /\ q < x + size[x] => Kept(q)
  PROVE  Kept(q)
<1>1. CASE newAddr <= q /\ q < newAddr + newN
  BY <1>1, AccountedBy DEF Kept, Accounted, memVars
<1>2. QED BY <1>1, AccountedBy

LEMMA SplitCovers ==
  ASSUME IndInv, NEW t \in Threads, SplitTail(t), NEW q \in Accounted
  PROVE  Kept(q)
<1>1. TypeOK /\ UNCHANGED memVars
  BY DEF IndInv, SplitTail
<1>2. PICK x \in Pages, y \in Pages, n \in Nat, r \in Nat :
         /\ x = cur[t] /\ x \in Held(t) /\ n = want[t].n
         /\ n > 0 /\ r > 0 /\ size[x] = n + r /\ y = x + n /\ size[y] = 0
         /\ size' = [size EXCEPT ![x] = n, ![y] = r]
  BY SplitPlaces
<1>3. q \in Pages /\ \A z \in Pages : z \in Nat
  BY AccountedBy, Counts DEF Pages
<1>4. /\ x # y /\ size'[x] = n /\ size'[y] = r
      /\ \A z \in Pages \ {x, y} : size'[z] = size[z]
  <2>1. x # y
    BY <1>2, <1>3
  <2>2. QED BY <1>1, <1>2, <2>1 DEF TypeOK
<1>5. ASSUME NEW z \in Pages, z <= q, q < z + size[z]
      PROVE  Kept(q)
  <2>1. CASE z = x
    <3>1. CASE q < x + n
      BY <1>3, <1>4, <1>5, <2>1, <3>1, CoveredKept
    <3>2. CASE ~(q < x + n)
      <4>1. y <= q /\ q < y + size'[y]
        BY <1>2, <1>3, <1>4, <1>5, <2>1, <3>2
      <4>2. QED BY <1>3, <4>1, CoveredKept
    <3>3. QED BY <3>1, <3>2
  <2>2. CASE z # x
    <3>1. z # y
      BY <1>2, <1>3, <1>5
    <3>2. QED BY <1>3, <1>4, <1>5, <2>2, <3>1, CoveredKept
  <2>3. QED BY <2>1, <2>2
<1>6. QED BY <1>1, <1>5, ExtentsCover

LEMMA MergeCovers ==
  ASSUME IndInv, NEW t \in Threads, Merge(t), NEW q \in Accounted
  PROVE  Kept(q)
<1>1. TypeOK /\ UNCHANGED memVars
  BY DEF IndInv, Merge
<1>2. PICK a \in Pages, b \in Pages :
         /\ a = IF cur[t] < oth[t] THEN cur[t] ELSE oth[t]
         /\ b = IF cur[t] < oth[t] THEN oth[t] ELSE cur[t]
         /\ a \in Held(t) /\ b \in Held(t)
         /\ a \in Nat /\ size[a] \in Nat /\ size[b] \in Nat
         /\ size[a] > 0 /\ size[b] > 0 /\ b = a + size[a]
         /\ size' = [size EXCEPT ![a] = size[a] + size[b], ![b] = 0]
  BY MergePlaces
<1>3. q \in Pages /\ \A z \in Pages : z \in Nat
  BY AccountedBy, Counts DEF Pages
<1>4. /\ a # b /\ size'[a] = size[a] + size[b]
      /\ \A z \in Pages \ {a, b} : size'[z] = size[z]
  <2>1. a # b
    BY <1>2
  <2>2. QED BY <1>1, <1>2, <2>1 DEF TypeOK
<1>5. ASSUME NEW z \in Pages, z <= q, q < z + size[z]
      PROVE  Kept(q)
  <2>1. CASE z \in {a, b}
    <3>1. a <= q /\ q < a + size'[a]
      BY <1>2, <1>3, <1>4, <1>5, <2>1
    <3>2. QED BY <1>3, <3>1, CoveredKept
  <2>2. CASE z \notin {a, b}
    BY <1>3, <1>4, <1>5, <2>2, CoveredKept
  <2>3. QED BY <2>1, <2>2
<1>6. QED BY <1>1, <1>5, ExtentsCover

LEMMA StillCovers ==
  ASSUME UNCHANGED <<memVars, size>>, NEW q \in Accounted
  PROVE  Kept(q)
<1>1. UNCHANGED memVars /\ UNCHANGED size
  OBVIOUS
<1>2. \A x \in Pages : x <= q /\ q < x + size[x] => Kept(q)
  BY <1>1, AccountedBy, CoveredKept
<1>3. QED BY <1>1, <1>2, ExtentsCover

LEMMA NextCovers ==
  ASSUME IndInv, [Next]_vars, NEW q \in Accounted
  PROVE  Kept(q)
<1>1. CASE UNCHANGED <<memVars, size>>
  BY <1>1, StillCovers
<1>2. ASSUME NEW t \in Threads, Progress(t)
      PROVE  Kept(q)
  <2>1. CASE AllocBump(t)
    BY <2>1, BumpCovers
  <2>2. CASE \E b \in ChunkBases \ mapped : AllocChunk(t, b)
    BY <2>2, ChunkCovers
  <2>3. CASE SplitTail(t)
    BY <2>3, SplitCovers
  <2>4. CASE Merge(t)
    BY <2>4, MergeCovers
  <2>5. CASE Register(t) \/ SplitExact(t) \/ PutBack(t) \/ Commit(t)
    BY <1>1, <2>5 DEF Register, SplitExact, PutBack, Commit
  <2>6. CASE AllocMuzzy(t) \/ Record(t)
    BY <1>1, <2>6 DEF AllocMuzzy, Record
  <2>7. CASE Age(t)
    BY <1>1, <2>7 DEF Age, EvictNone, EvictOne, EvictCoalesce, EvictStep, Stash, DecayEnd, objVars
  <2>8. QED BY <1>2, <2>1, <2>2, <2>3, <2>4, <2>5, <2>6, <2>7 DEF Progress, Serve
<1>3. ASSUME NEW t \in Threads, Ask(t)
      PROVE  Kept(q)
  BY <1>1, <1>3 DEF Ask, AllocDirty, Free, DecayStart, objVars
<1>4. ASSUME NEW t \in Threads, Fail(t)
      PROVE  Kept(q)
  BY <1>1, <1>4 DEF Fail, objVars
<1>5. CASE UNCHANGED vars
  BY <1>1, <1>5 DEF vars, memVars
<1>6. QED BY <1>2, <1>3, <1>4, <1>5 DEF Next, Run

(* No step of any thread loses a page, except the one that maps a fresh     *)
(* chunk and forgets a rest of the old one that is not a size class.        *)
THEOREM PagesKept == RequestsFitChunk => (Spec => OnlyOddRestsLost)
<1>1. SUFFICES ASSUME RequestsFitChunk PROVE Spec => OnlyOddRestsLost
  OBVIOUS
<1>2. ASSUME IndInv, [Next]_vars
      PROVE  \A q \in Accounted \ Accounted' :
               /\ mapped' # mapped
               /\ newAddr <= q /\ q < newAddr + newN
               /\ newN \notin PClasses
  BY <1>2, NextCovers DEF Kept
<1>3. QED BY <1>1, <1>2, Inductive, PTL DEF OnlyOddRestsLost, Spec
=============================================================================
