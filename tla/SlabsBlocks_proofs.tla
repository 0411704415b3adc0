-------------------------- MODULE SlabsBlocks_proofs --------------------------
(***************************************************************************)
(* Proofs about the blocks of Slabs, on top of the lock discipline of      *)
(* Slabs_proofs: bitmap and counters of a slab are exactly the blocks that *)
(* are out of it, through caches, remote frees and morphing, whatever the  *)
(* threads do in between; for any number of threads, slabs and classes.    *)
(* All of it is conditional on ~stale: it says nothing of what follows a   *)
(* free, a far free or a morph that works with an outdated layout.         *)
(***************************************************************************)
EXTENDS Slabs_proofs, FiniteSetTheorems, FunctionTheorems

-----------------------------------------------------------------------------
(* A slab's fields against the set of the blocks that are out of it. *)

LayoutSet == {Fit(c, off) : c \in Classes, off \in 1 .. SlabSize - 1}
Vslabs ==
  [live : BOOLEAN, sc : LayoutSet, scb : LayoutSet, numb : Nat, used : SUBSET Indices,
   nbits : Nat, dnum : [Indices -> Nat], rb : SUBSET Indices, rdirty : BOOLEAN]

OldOf(r, B)   == {b \in B : b.len # Size[r.sc.cls]}
Over(r, B, i) == {b \in OldOf(r, B) : i \in Covered(r.sc, b)}

(* A block is one of the slab's layout, or one of the layout before that    *)
(* lies behind the header of the new one.                                   *)
Placed(s, r, b) ==
  IF b.len = Size[r.sc.cls]
  THEN \E i \in 0 .. r.sc.n - 1 : b = Block(s, r.sc, i)
  ELSE r.sc.off <= b.at /\ \E j \in 0 .. r.scb.n - 1 : b = Block(s, r.scb, j)

Exact(s, r, B) ==
  /\ r \in Vslabs
  /\ \A b \in B : Placed(s, r, b)
  /\ IsFiniteSet(OldOf(r, B)) /\ r.numb = Cardinality(OldOf(r, B))
  /\ \A i \in Indices :
       /\ r.dnum[i] = Cardinality(Over(r, B, i))
       /\ i \in r.used <=> Block(s, r.sc, i) \in B \/ Over(r, B, i) # {}
       /\ Block(s, r.sc, i) \in B => Over(r, B, i) = {}
  /\ r.nbits = Cardinality(r.used)

(* While it is morphed with blocks in use, o holds their old indices.       *)
Moving(s, r, B, o) ==
  /\ r \in Vslabs
  /\ o # {} /\ o \subseteq 0 .. r.scb.n - 1
  /\ r.sc.cls # r.scb.cls
  /\ B = {Block(s, r.scb, j) : j \in o}
  /\ \A b \in B : r.sc.off <= b.at
  /\ r.numb = Cardinality(o) /\ r.nbits = 0 /\ r.dnum = [i \in Indices |-> 0]
  /\ r.rb = {} /\ r.rdirty = FALSE

-----------------------------------------------------------------------------
(* The inductive invariant *)

Blks    == [slab : Slots, at : Nat, len : Nat]
Entries == [blk : Blks, mi : Int]
Works ==
  [cls : Classes, cur : Slots \union {Root}, idx : Int, blk : Blks \union {NoBlock},
   sc : LayoutSet, scb : LayoutSet, val : Int, next : Pcs, old : SUBSET Indices,
   then : {"idle", "putback"}]

Types ==
  /\ v \in [Slots -> Vslabs]
  /\ cache \in [Threads -> [Classes -> [Banks -> Seq(Entries)]]]
  /\ turn \in [Threads -> [Classes -> Banks]]
  /\ held \subseteq Blks /\ lost \subseteq Blks
  /\ my \in [Threads -> Works]
  /\ lru \in Seq(Slots)
  /\ lruLen \in Int /\ morphLen \in Int

(* Where a block is, and that it is in one place only.                      *)
BlksIn(l) == {l[i].blk : i \in DOMAIN l}
Spots ==
  {<<"held">>, <<"lost">>, <<"back">>} \union {<<"hand", t>> : t \in Threads}
    \union {<<"bank", t, c, k>> : t \in Threads, c \in Classes, k \in Banks}
Holds(p) ==
  CASE p[1] = "held" -> held
    [] p[1] = "lost" -> lost
    [] p[1] = "back" -> UNION {Returned(s) : s \in Slots}
    [] p[1] = "hand" -> {my[p[2]].blk} \ {NoBlock}
    [] p[1] = "bank" -> BlksIn(cache[p[2]][p[3]][p[4]])
Whereabouts == [p \in Spots |-> Holds(p)]
Apart(f)  == \A p, q \in Spots : p # q => f[p] \cap f[q] = {}
NoTwice(l) == \A i, j \in DOMAIN l : l[i].blk = l[j].blk => i = j
Once ==
  /\ Apart(Whereabouts)
  /\ \A t \in Threads, c \in Classes, k \in Banks :
       /\ NoTwice(cache[t][c][k])
       /\ \A e \in Members(cache[t][c][k]) : e.blk.len = Size[c]

Of(s) == {b \in Blocks : b.slab = s}

(* What a thread in the middle of a free has in hand.                       *)
InHand == {"unset", "new", "old", "far"}
HandOK(t) ==
  /\ pc[t] \notin InHand => my[t].blk = NoBlock
  /\ pc[t] \in InHand => my[t].blk \in Blks /\ my[t].blk.slab = my[t].cur
  /\ pc[t] \in {"unset", "new", "far"} => my[t].idx = Index(my[t].sc, my[t].blk.at)
Hands == \A t \in Threads : HandOK(t)

(* Morphing with blocks in use, from the new layout to the new bitmap.      *)
InMorph   == {"unbin", "table", "metas"}
Morphs(t) == pc[t] \in {"table", "metas"} \/ (pc[t] = "unbin" /\ my[t].old # {})
Slabwise ==
  \A s \in Slots : (\A t \in Threads : Morphs(t) => my[t].cur # s) => Exact(s, v[s], Of(s))
MorphOK(t) ==
  /\ Morphs(t) =>
       /\ Moving(my[t].cur, v[my[t].cur], Of(my[t].cur), my[t].old)
       /\ my[t].sc = v[my[t].cur].scb /\ my[t].cls = v[my[t].cur].sc.cls
  /\ pc[t] = "unbin" =>
       /\ v[my[t].cur].used = my[t].old
       /\ v[my[t].cur].rdirty = FALSE
Morphing == \A t \in Threads : MorphOK(t)

(* Slabs that are alive, on the LRU list, about to leave or enter it.       *)
OnLive(t) == pc[t] \in OnSlab => v[my[t].cur].live
Alive ==
  /\ \A s \in Slots : ~v[s].live => v[s] = NoSlab
  /\ \A t \in Threads : OnLive(t)

Leaving(t) == pc[t] = "relist" \/ (pc[t] \in {"unlink", "check"} /\ my[t].next = "check")
Walks(t) ==
  /\ pc[t] = "walk" => my[t].cur \in Members(lru) \union {Root}
  /\ pc[t] \in {"seize", "unbin"} => my[t].cur \in Members(lru)
  /\ pc[t] = "seize" => v[my[t].cur].sc.cls # my[t].cls
  /\ pc[t] \in {"unlink", "check"} => my[t].next \in {"check", "drop"}
  /\ Leaving(t) => my[t].cur \notin Members(lru) /\ v[my[t].cur].numb = 0
Alone(t) == Leaving(t) => \A u \in Threads \ {t} : Leaving(u) => my[u].cur # my[t].cur
Listed(s) == v[s].live /\ (v[s].numb = 0 \/ \E t \in Threads : pc[t] = "unbin" /\ my[t].cur = s)
Aged ==
  /\ Distinct(lru) /\ \A s \in Members(lru) : Listed(s)
  /\ \A t \in Threads : Walks(t) /\ Alone(t)

(* Remote frees.                                                            *)
Dirty(s) ==
  /\ v[s].rdirty <=> v[s].rb # {}
  /\ v[s].rdirty => \/ s \in Members(numaList)
                    \/ \E t \in Threads : pc[t] = "enlist" /\ my[t].cur = s
Remote ==
  /\ Distinct(numaList) /\ \A s \in Members(numaList) : v[s].live
  /\ \A s \in Slots : Dirty(s)

(* malloc goes on from a fill with an entry in some bank.                   *)
Ready(t) == pc[t] \in {"full", "take"} \/ (pc[t] = "len" /\ my[t].next = "full")
FillOK(t) == Ready(t) => \E k \in Banks : cache[t][my[t].cls][k] # <<>>
Filling == \A t \in Threads : FillOK(t)

(* A slab that is in no bin, and will not be put into one, is empty.        *)
NoBin(s) == \A c \in Classes : s \notin Members(bin[c])
Out(s) ==
  v[s].live /\ NoBin(s) /\ (\A t \in Threads : pc[t] = "insert" => my[t].cur # s)
    => v[s].nbits = 0
Unbinned == \A s \in Slots : Out(s)

Good == /\ Types /\ Once /\ Hands /\ Slabwise /\ Morphing /\ Alive /\ Aged /\ Remote /\ Filling /\ Bins
        /\ Unbinned

(* The types that a step leaves which ends the program.                     *)
Shape(r) == r.used \subseteq Indices /\ r.nbits \in Int /\ r.numb \in Int
Shapes ==
  /\ \A s \in Slots : Shape(v[s])
  /\ \A c \in Classes : Members(bin[c]) \subseteq Slots /\ now[c] \in Slots \union {Root}
  /\ Members(lru) \subseteq Slots /\ lruLen \in Int /\ morphLen \in Int

Outer == home \in [Threads -> Homes] /\ logged \in [Threads -> 0 .. LogMax]

IndInv ==
  ~stale => /\ Locks /\ numaList \in Seq(Slots) /\ Outer /\ Shapes
            /\ failed = "no" => Good
-----------------------------------------------------------------------------
(* Layouts *)

LEMMA LayoutType ==
  ASSUME NEW sc \in LayoutSet
  PROVE  /\ sc.cls \in Classes /\ Size[sc.cls] \in Nat \ {0}
         /\ sc.off \in 1 .. SlabSize - 1 /\ SlabSize \in Nat
         /\ sc.n \in Nat /\ sc.n < SlabSize
         /\ sc.n * Size[sc.cls] <= SlabSize - sc.off
         /\ SlabSize - sc.off < (sc.n + 1) * Size[sc.cls]
<1>1. PICK c \in Classes, off \in 1 .. SlabSize - 1 : sc = Fit(c, off)
  BY DEF LayoutSet
<1>2. sc.cls = c /\ sc.off = off /\ sc.n = (SlabSize - off) \div Size[c]
  BY <1>1 DEF Fit
<1>3. SlabSize \in Nat /\ Size[c] \in Nat \ {0}
  BY SlabsAssumption
<1> DEFINE d == Size[c]
           n == sc.n
<1>4. \A x \in Nat, y \in Nat \ {0} :
         x \div y \in Nat /\ (x \div y) * y <= x /\ x < (x \div y + 1) * y
  OBVIOUS
<1>5. n \in Nat /\ n * d <= SlabSize - off /\ SlabSize - off < (n + 1) * d
  <2>1. SlabSize - off \in Nat /\ d \in Nat \ {0} /\ n = (SlabSize - off) \div d
    BY <1>2, <1>3
  <2> HIDE DEF d, n
  <2>2. QED BY <1>4, <2>1
<1>6. n < SlabSize
  <2> HIDE DEF n, d
  <2>1. \A x \in Nat, y \in Nat \ {0} : x <= x * y
    OBVIOUS
  <2>2. d \in Nat \ {0}
    BY <1>3 DEF d
  <2>3. n <= n * d
    BY <1>5, <2>1, <2>2
  <2>4. n * d \in Nat
    BY <1>5, <2>2
  <2>5. QED BY <1>3, <1>5, <2>3, <2>4
<1>7. QED BY <1>2, <1>3, <1>5, <1>6

LEMMA AtType ==
  ASSUME NEW sc \in LayoutSet, NEW i \in Int
  PROVE  At(sc, i) \in Int /\ (i \in Nat => At(sc, i) \in Nat /\ At(sc, i) >= sc.off)
<1>1. i * Size[sc.cls] \in Int /\ (i \in Nat => i * Size[sc.cls] \in Nat)
  BY LayoutType
<1>2. QED BY <1>1, LayoutType DEF At

LEMMA IndexType ==
  ASSUME NEW sc \in LayoutSet, NEW a \in Int
  PROVE  Index(sc, a) \in Int /\ (a >= sc.off => Index(sc, a) \in Nat)
<1>1. \A x \in Int, y \in Nat \ {0} : x \div y \in Int /\ (x >= 0 => x \div y \in Nat)
  OBVIOUS
<1>2. a - sc.off \in Int /\ (a >= sc.off => a - sc.off >= 0)
  BY LayoutType
<1>3. QED BY <1>1, <1>2, LayoutType DEF Index

(* The index of the block at an address, and the block's place.             *)
LEMMA IndexAt ==
  ASSUME NEW sc \in LayoutSet, NEW i \in Int
  PROVE  Index(sc, At(sc, i)) = i
<1> DEFINE d == Size[sc.cls]
<1>1. d \in Nat \ {0} /\ sc.off \in Int
  BY LayoutType
<1>2. \A y \in Nat \ {0} : (i * y) \div y = i
  OBVIOUS
<1>3. At(sc, i) - sc.off = i * d
  <2>1. i * d \in Int
    BY <1>1
  <2>2. QED BY <1>1, <2>1 DEF At
<1>4. QED BY <1>1, <1>2, <1>3 DEF Index

LEMMA AtIndex ==
  ASSUME NEW sc \in LayoutSet, NEW a \in Int
  PROVE  At(sc, Index(sc, a)) <= a /\ a < At(sc, Index(sc, a) + 1)
<1> DEFINE d == Size[sc.cls]
           q == (a - sc.off) \div d
<1>1. d \in Nat \ {0} /\ sc.off \in Int
  BY LayoutType
<1>2. \A x \in Int, y \in Nat \ {0} :
         x \div y \in Int /\ (x \div y) * y <= x /\ x < (x \div y + 1) * y
  OBVIOUS
<1>3. q \in Int /\ q * d <= a - sc.off /\ a - sc.off < (q + 1) * d
  <2>1. a - sc.off \in Int
    BY <1>1
  <2> HIDE DEF d
  <2>2. QED BY <1>1, <1>2, <2>1
<1>4. q * d \in Int /\ (q + 1) * d \in Int
  BY <1>1, <1>3
<1>5. At(sc, Index(sc, a)) = sc.off + q * d /\ At(sc, Index(sc, a) + 1) = sc.off + (q + 1) * d
  BY DEF At, Index
<1> HIDE DEF d, q
<1>6. QED BY <1>1, <1>3, <1>4, <1>5

LEMMA AtOrder ==
  ASSUME NEW sc \in LayoutSet, NEW i \in Int, NEW j \in Int, i < j
  PROVE  At(sc, i) + Size[sc.cls] <= At(sc, j)
<1> DEFINE d == Size[sc.cls]
<1>1. d \in Nat \ {0} /\ sc.off \in Int
  BY LayoutType
<1>2. \A y \in Nat \ {0} : i * y + y <= j * y
  <2>1. SUFFICES ASSUME NEW y \in Nat \ {0} PROVE i * y + y <= j * y
    OBVIOUS
  <2>2. PICK k \in Nat : j = i + 1 + k
    <3>1. j - i - 1 \in Nat /\ j = i + 1 + (j - i - 1)
      OBVIOUS
    <3>2. QED BY <3>1
  <2>3. j * y = i * y + y + k * y
    BY <2>2
  <2>4. k * y \in Nat /\ i * y \in Int
    BY <2>2
  <2>5. QED BY <2>3, <2>4
<1>3. i * d \in Int /\ j * d \in Int /\ i * d + d <= j * d
  BY <1>1, <1>2
<1>4. QED BY <1>1, <1>3 DEF At

LEMMA BlockIs ==
  ASSUME NEW s, NEW sc \in LayoutSet, NEW i \in Int
  PROVE  /\ Block(s, sc, i).slab = s /\ Block(s, sc, i).at = At(sc, i)
         /\ Block(s, sc, i).len = Size[sc.cls]
         /\ Index(sc, Block(s, sc, i).at) = i
         /\ \A j \in Int : Block(s, sc, i) = Block(s, sc, j) => i = j
<1>1. \A j \in Int : Block(s, sc, j).at = At(sc, j) /\ Index(sc, At(sc, j)) = j
  BY IndexAt DEF Block
<1>2. Block(s, sc, i).slab = s /\ Block(s, sc, i).len = Size[sc.cls]
  BY DEF Block
<1>3. QED BY <1>1, <1>2
LEMMA LastAt ==
  ASSUME NEW sc \in LayoutSet
  PROVE  /\ At(sc, sc.n) <= SlabSize /\ SlabSize < At(sc, sc.n + 1)
         /\ \A i \in 0 .. sc.n - 1 : At(sc, i) + Size[sc.cls] <= SlabSize
<1> DEFINE d == Size[sc.cls]
           n == sc.n
<1>1. /\ d \in Nat \ {0} /\ sc.off \in Int /\ n \in Nat /\ SlabSize \in Nat
      /\ n * d <= SlabSize - sc.off /\ SlabSize - sc.off < (n + 1) * d
  BY LayoutType
<1>2. n * d \in Int /\ (n + 1) * d \in Int
  BY <1>1
<1>3. At(sc, n) = sc.off + n * d /\ At(sc, n + 1) = sc.off + (n + 1) * d
  BY DEF At
<1>4. At(sc, n) <= SlabSize /\ SlabSize < At(sc, n + 1)
  <2> HIDE DEF d, n
  <2>1. QED BY <1>1, <1>2, <1>3
<1>5. ASSUME NEW i \in 0 .. n - 1 PROVE At(sc, i) + d <= SlabSize
  <2>1. i \in Int /\ n \in Int /\ i < n
    BY <1>1
  <2>2. At(sc, i) + d <= At(sc, n) /\ At(sc, i) \in Int /\ At(sc, n) \in Int
    BY <2>1, AtOrder, AtType
  <2>3. QED BY <1>1, <1>4, <2>2
<1>6. QED BY <1>4, <1>5

(* A block reaches into blocks of the layout, the one past the end included.*)
LEMMA CoveredIn ==
  ASSUME NEW sc \in LayoutSet, NEW b, b.at \in Nat, b.len \in Nat \ {0},
         sc.off <= b.at, b.at + b.len <= SlabSize
  PROVE  /\ Covered(sc, b) \subseteq 0 .. sc.n
         /\ Index(sc, b.at) \in Covered(sc, b)
<1>1. /\ sc.n \in Nat /\ sc.n < SlabSize /\ SlabSize \in Nat
  BY LayoutType
<1>2. ASSUME NEW i \in Nat, At(sc, i) < SlabSize
      PROVE  i \in 0 .. sc.n
  <2>1. SUFFICES ASSUME i > sc.n PROVE FALSE
    BY <1>1
  <2>2. At(sc, sc.n + 1) <= At(sc, i)
    <3>1. CASE i = sc.n + 1
      BY <3>1, AtType, <1>1
    <3>2. CASE i # sc.n + 1
      <4>1. sc.n + 1 < i
        BY <1>1, <2>1, <3>2
      <4>2. At(sc, sc.n + 1) + Size[sc.cls] <= At(sc, i)
        BY <1>1, <4>1, AtOrder
      <4>3. QED BY <1>1, <4>2, AtType, LayoutType
    <3>3. QED BY <3>1, <3>2
  <2>3. QED BY <1>1, <1>2, <2>2, LastAt, AtType
<1>3. ASSUME NEW i \in Covered(sc, b)
      PROVE  i \in 0 .. sc.n
  <2>1. i \in Nat /\ At(sc, i) < b.at + b.len
    BY <1>1 DEF Covered, Reach, Indices
  <2>2. At(sc, i) < SlabSize
    BY <1>1, <2>1, AtType
  <2>3. QED BY <1>2, <2>1, <2>2
<1>4. Index(sc, b.at) \in Nat /\ At(sc, Index(sc, b.at)) <= b.at
  BY IndexType, AtIndex
<1>5. At(sc, Index(sc, b.at)) < b.at + b.len /\ At(sc, Index(sc, b.at)) < SlabSize
  BY <1>1, <1>4, AtType
<1>6. Index(sc, b.at) \in 0 .. sc.n
  BY <1>2, <1>4, <1>5
<1>7. Index(sc, b.at) \in Covered(sc, b)
  BY <1>1, <1>5, <1>6 DEF Covered, Reach, Indices
<1>8. QED BY <1>3, <1>7

(* A block of the layout that an other block overlaps is one it covers.     *)
LEMMA OverlapCovers ==
  ASSUME NEW sc \in LayoutSet, NEW b, b.at \in Nat, b.len \in Nat, NEW i \in Indices,
         At(sc, i) < b.at + b.len, b.at < At(sc, i) + Size[sc.cls]
  PROVE  i \in Covered(sc, b)
<1>1. i \in Nat
  BY LayoutType DEF Indices
<1>2. Index(sc, b.at) \in Int /\ At(sc, Index(sc, b.at)) <= b.at
  BY IndexType, AtIndex
<1>3. i >= Index(sc, b.at)
  <2>1. SUFFICES ASSUME i < Index(sc, b.at) PROVE FALSE
    BY <1>1, <1>2
  <2>2. At(sc, i) + Size[sc.cls] <= At(sc, Index(sc, b.at))
    BY <1>1, <1>2, <2>1, AtOrder
  <2>3. QED BY <1>1, <1>2, <2>2, AtType, LayoutType
<1>4. QED BY <1>3 DEF Covered, Reach

LEMMA SlabType ==
  ASSUME NEW r \in Vslabs
  PROVE  /\ DOMAIN r = SlabFields
         /\ r.live \in BOOLEAN /\ r.rdirty \in BOOLEAN
         /\ r.sc \in LayoutSet /\ r.scb \in LayoutSet /\ r.numb \in Nat /\ r.nbits \in Nat
         /\ r.used \subseteq Indices /\ r.rb \subseteq Indices /\ r.dnum \in [Indices -> Nat]
         /\ Indices \subseteq Nat /\ Indices = 0 .. SlabSize /\ SlabSize \in Nat
<1>1. SlabSize \in Nat /\ Indices = 0 .. SlabSize /\ Indices \subseteq Nat
  BY SlabsAssumption DEF Indices
<1>2. QED BY <1>1 DEF Vslabs, SlabFields

LEMMA LayoutBlock ==
  ASSUME NEW s, NEW sc \in LayoutSet, NEW b, NEW i \in 0 .. sc.n - 1, b = Block(s, sc, i)
  PROVE  /\ b.slab = s /\ b.at \in Nat /\ b.len = Size[sc.cls] /\ b.len \in Nat \ {0}
         /\ sc.off <= b.at /\ b.at + b.len <= SlabSize
         /\ Index(sc, b.at) = i
<1>1. i \in Nat /\ i \in Int
  BY LayoutType
<1>2. b.slab = s /\ b.at = At(sc, i) /\ b.len = Size[sc.cls] /\ Index(sc, b.at) = i
  BY <1>1, BlockIs
<1>3. QED BY <1>1, <1>2, AtType, LastAt, LayoutType

LEMMA OwnBlock ==
  ASSUME NEW s, NEW r \in Vslabs, NEW b, Placed(s, r, b), b.len = Size[r.sc.cls]
  PROVE  b = Block(s, r.sc, Index(r.sc, b.at)) /\ Index(r.sc, b.at) \in 0 .. r.sc.n - 1
<1>1. PICK i \in 0 .. r.sc.n - 1 : b = Block(s, r.sc, i)
  BY DEF Placed
<1>2. r.sc \in LayoutSet
  BY SlabType
<1>3. Index(r.sc, b.at) = i
  BY <1>1, <1>2, LayoutBlock
<1>4. QED BY <1>1, <1>3

LEMMA OldBlock ==
  ASSUME NEW s, NEW r \in Vslabs, NEW b, Placed(s, r, b), b.len # Size[r.sc.cls]
  PROVE  /\ b = Block(s, r.scb, Index(r.scb, b.at)) /\ Index(r.scb, b.at) \in 0 .. r.scb.n - 1
         /\ r.sc.off <= b.at
<1>1. PICK i \in 0 .. r.scb.n - 1 : b = Block(s, r.scb, i)
  BY DEF Placed
<1>2. r.scb \in LayoutSet
  BY SlabType
<1>3. Index(r.scb, b.at) = i
  BY <1>1, <1>2, LayoutBlock
<1>4. QED BY <1>1, <1>3 DEF Placed

LEMMA PlacedFacts ==
  ASSUME NEW s, NEW r \in Vslabs, NEW b, Placed(s, r, b)
  PROVE  /\ b.slab = s /\ b.at \in Nat /\ b.len \in Nat \ {0}
         /\ r.sc.off <= b.at /\ b.at + b.len <= SlabSize
         /\ Covered(r.sc, b) \subseteq 0 .. r.sc.n
         /\ Index(r.sc, b.at) \in Covered(r.sc, b)
<1>1. r.sc \in LayoutSet /\ r.scb \in LayoutSet
  BY SlabType
<1>2. CASE b.len = Size[r.sc.cls]
  <2>1. b = Block(s, r.sc, Index(r.sc, b.at)) /\ Index(r.sc, b.at) \in 0 .. r.sc.n - 1
    BY <1>2, OwnBlock
  <2>2. /\ b.slab = s /\ b.at \in Nat /\ b.len \in Nat \ {0}
        /\ r.sc.off <= b.at /\ b.at + b.len <= SlabSize
    BY <1>1, <2>1, LayoutBlock
  <2>3. QED BY <1>1, <2>2, CoveredIn
<1>3. CASE b.len # Size[r.sc.cls]
  <2>1. /\ b = Block(s, r.scb, Index(r.scb, b.at)) /\ Index(r.scb, b.at) \in 0 .. r.scb.n - 1
        /\ r.sc.off <= b.at
    BY <1>3, OldBlock
  <2>2. /\ b.slab = s /\ b.at \in Nat /\ b.len \in Nat \ {0}
        /\ b.at + b.len <= SlabSize
    BY <1>1, <2>1, LayoutBlock
  <2>3. QED BY <1>1, <2>1, <2>2, CoveredIn
<1>4. QED BY <1>2, <1>3

-----------------------------------------------------------------------------
(* Slabs and their blocks *)

LEMMA ExactFacts ==
  ASSUME NEW s, NEW r, NEW B, Exact(s, r, B)
  PROVE  /\ r.used \subseteq 0 .. r.sc.n /\ IsFiniteSet(r.used)
         /\ \A i \in Indices : Block(s, r.sc, i) \in B => i \in 0 .. r.sc.n - 1 /\ i \in r.used
         /\ r.nbits = 0 <=> r.used = {}
         /\ r.used = {} <=> B = {}
         /\ r.numb = 0 <=> OldOf(r, B) = {}
<1>1. r \in Vslabs /\ r.sc \in LayoutSet /\ r.sc.n \in Nat /\ r.sc.n < SlabSize /\ SlabSize \in Nat
  BY SlabType, LayoutType DEF Exact
<1>2. \A b \in B : Placed(s, r, b)
  BY DEF Exact
<1>3. ASSUME NEW i \in Indices, Block(s, r.sc, i) \in B
      PROVE  i \in 0 .. r.sc.n - 1 /\ i \in r.used
  <2>1. i \in Int
    BY <1>1, SlabType
  <2>2. Block(s, r.sc, i).len = Size[r.sc.cls] /\ Index(r.sc, Block(s, r.sc, i).at) = i
    BY <1>1, <2>1, BlockIs
  <2>3. Placed(s, r, Block(s, r.sc, i))
    BY <1>2, <1>3
  <2>4. i \in 0 .. r.sc.n - 1
    BY <1>1, <2>2, <2>3, OwnBlock
  <2>5. QED BY <1>3, <2>4 DEF Exact
<1>4. r.used \subseteq 0 .. r.sc.n
  <2>1. SUFFICES ASSUME NEW i \in r.used PROVE i \in 0 .. r.sc.n
    OBVIOUS
  <2>2. i \in Indices
    BY <1>1, SlabType
  <2>3. CASE Block(s, r.sc, i) \in B
    <3>1. i \in 0 .. r.sc.n - 1
      BY <1>3, <2>2, <2>3
    <3>2. QED BY <1>1, <3>1
  <2>4. CASE Over(r, B, i) # {}
    <3>1. PICK b \in B : i \in Covered(r.sc, b)
      BY <2>4 DEF Over, OldOf
    <3>2. QED BY <1>1, <1>2, <3>1, PlacedFacts
  <2>5. QED BY <2>2, <2>3, <2>4 DEF Exact
<1>5. IsFiniteSet(r.used)
  <2>1. IsFiniteSet(0 .. r.sc.n)
    BY <1>1, FS_Interval
  <2>2. QED BY <1>4, <2>1, FS_Subset
<1>6. r.nbits = 0 <=> r.used = {}
  BY <1>5, FS_EmptySet DEF Exact
<1>7. r.numb = 0 <=> OldOf(r, B) = {}
  BY FS_EmptySet DEF Exact
<1>8. ASSUME NEW b \in B
      PROVE  r.used # {}
  <2>1. Placed(s, r, b)
    BY <1>2
  <2>2. Index(r.sc, b.at) \in Covered(r.sc, b) /\ Index(r.sc, b.at) \in Indices
    BY <1>1, <2>1, PlacedFacts DEF Covered, Reach
  <2>3. CASE b.len = Size[r.sc.cls]
    <3>1. b = Block(s, r.sc, Index(r.sc, b.at))
      BY <1>1, <2>1, <2>3, OwnBlock
    <3>2. QED BY <1>3, <2>2, <3>1
  <2>4. CASE b.len # Size[r.sc.cls]
    <3>1. b \in Over(r, B, Index(r.sc, b.at))
      BY <2>2, <2>4 DEF Over, OldOf
    <3>2. Index(r.sc, b.at) \in r.used
      BY <2>2, <3>1 DEF Exact
    <3>3. QED BY <3>2
  <2>5. QED BY <2>3, <2>4
<1>9. r.used = {} <=> B = {}
  <2>1. B = {} => r.used = {}
    <3>1. SUFFICES ASSUME B = {}, NEW i \in r.used PROVE FALSE
      OBVIOUS
    <3>2. i \in Indices
      BY <1>1, SlabType
    <3>3. QED BY <3>1, <3>2 DEF Exact, Over, OldOf
  <2>2. QED BY <1>8, <2>1
<1>10. QED BY <1>3, <1>4, <1>5, <1>6, <1>7, <1>9

(* The fields the account is about.                                         *)
SameAccount(r, q) ==
  q.sc = r.sc /\ q.scb = r.scb /\ q.numb = r.numb /\ q.used = r.used /\ q.nbits = r.nbits
    /\ q.dnum = r.dnum

LEMMA ExactSame ==
  ASSUME NEW s, NEW r, NEW q \in Vslabs, NEW B, Exact(s, r, B), SameAccount(r, q)
  PROVE  Exact(s, q, B)
<1>1. \A b : Placed(s, q, b) <=> Placed(s, r, b)
  BY DEF Placed, SameAccount
<1>2. OldOf(q, B) = OldOf(r, B)
  BY DEF OldOf, SameAccount
<1>3. \A i : Over(q, B, i) = Over(r, B, i)
  BY <1>2 DEF Over, SameAccount
<1>4. QED BY <1>1, <1>2, <1>3 DEF Exact, SameAccount

LEMMA ExactEmpty ==
  ASSUME NEW s, NEW q \in Vslabs, q.numb = 0, q.used = {}, q.nbits = 0,
         q.dnum = [i \in Indices |-> 0]
  PROVE  Exact(s, q, {})
<1>1. OldOf(q, {}) = {} /\ \A i : Over(q, {}, i) = {}
  BY DEF OldOf, Over
<1>2. IsFiniteSet({}) /\ Cardinality({}) = 0
  BY FS_EmptySet
<1>3. QED BY <1>1, <1>2 DEF Exact

(* A block is taken out.                                                    *)
LEMMA ExactEnter ==
  ASSUME NEW s, NEW r, NEW q \in Vslabs, NEW B, Exact(s, r, B),
         NEW i \in 0 .. r.sc.n - 1, i \notin r.used,
         q.sc = r.sc, q.scb = r.scb, q.numb = r.numb, q.dnum = r.dnum,
         q.used = r.used \union {i}, q.nbits = r.nbits + 1
  PROVE  Exact(s, q, B \union {Block(s, r.sc, i)}) /\ Block(s, r.sc, i) \notin B
<1> DEFINE x == Block(s, r.sc, i)
           D == B \union {x}
<1>1. r \in Vslabs /\ r.sc \in LayoutSet /\ r.sc.n \in Nat /\ r.sc.n < SlabSize /\ SlabSize \in Nat
  BY SlabType, LayoutType DEF Exact
<1>2. i \in Indices /\ i \in Int /\ \A j \in Indices : j \in Int
  BY <1>1 DEF Indices
<1>3. x.len = Size[r.sc.cls] /\ \A j \in Int : x = Block(s, r.sc, j) => i = j
  BY <1>1, <1>2, BlockIs
<1>4. x \notin B /\ Over(r, B, i) = {}
  BY <1>2 DEF Exact
<1>5. Placed(s, q, x)
  BY <1>3 DEF Placed
<1>6. \A b \in D : Placed(s, q, b)
  <2>1. \A b \in B : Placed(s, r, b)
    BY DEF Exact
  <2>2. \A b \in B : Placed(s, q, b)
    BY <2>1 DEF Placed
  <2>3. QED BY <1>5, <2>2
<1>7. OldOf(q, D) = OldOf(r, B)
  BY <1>3 DEF OldOf
<1>8. \A j : Over(q, D, j) = Over(r, B, j)
  BY <1>7 DEF Over
<1>9. q.nbits = Cardinality(q.used)
  <2>1. IsFiniteSet(r.used) /\ r.nbits = Cardinality(r.used)
    BY ExactFacts DEF Exact
  <2>2. QED BY <2>1, FS_AddElement
<1>10. ASSUME NEW j \in Indices
       PROVE  /\ j \in q.used <=> Block(s, q.sc, j) \in D \/ Over(q, D, j) # {}
              /\ Block(s, q.sc, j) \in D => Over(q, D, j) = {}
  <2>1. /\ j \in r.used <=> Block(s, r.sc, j) \in B \/ Over(r, B, j) # {}
        /\ Block(s, r.sc, j) \in B => Over(r, B, j) = {}
    BY DEF Exact
  <2>2. Block(s, q.sc, j) \in D <=> Block(s, r.sc, j) \in B \/ j = i
    BY <1>2, <1>3
  <2>3. Over(q, D, j) = Over(r, B, j)
    BY <1>8
  <2> HIDE DEF D, x
  <2>4. QED BY <1>4, <2>1, <2>2, <2>3
<1>11. IsFiniteSet(OldOf(q, D)) /\ q.numb = Cardinality(OldOf(q, D))
  BY <1>7 DEF Exact
<1>12. \A j \in Indices : q.dnum[j] = Cardinality(Over(q, D, j))
  BY <1>8 DEF Exact
<1> HIDE DEF D, x
<1>13. Exact(s, q, D)
  BY <1>6, <1>9, <1>10, <1>11, <1>12 DEF Exact
<1>14. QED BY <1>4, <1>13 DEF D, x

(* Blocks of the slab's own layout come back.                               *)
LEMMA ExactLeave ==
  ASSUME NEW s, NEW r, NEW q \in Vslabs, NEW B, Exact(s, r, B),
         NEW D \in SUBSET Indices, \A i \in D : Block(s, r.sc, i) \in B,
         q.sc = r.sc, q.scb = r.scb, q.numb = r.numb, q.dnum = r.dnum,
         q.used = r.used \ D, q.nbits = r.nbits - Cardinality(D)
  PROVE  Exact(s, q, B \ {Block(s, r.sc, i) : i \in D}) 
<1> DEFINE X == {Block(s, r.sc, i) : i \in D}
           C == B \ X
<1>1. r \in Vslabs /\ r.sc \in LayoutSet /\ \A j \in Indices : j \in Int
  BY SlabType DEF Exact
<1>2. \A j \in Indices : Block(s, r.sc, j) \in X <=> j \in D
  <2>1. \A i, j \in Indices : Block(s, r.sc, j) = Block(s, r.sc, i) => i = j
    BY <1>1, BlockIs
  <2>2. QED BY <2>1
<1>3. \A b \in C : Placed(s, q, b)
  <2>1. \A b \in B : Placed(s, r, b)
    BY DEF Exact
  <2>2. \A b \in B : Placed(s, q, b)
    BY <2>1 DEF Placed
  <2>3. QED BY <2>2
<1>4. OldOf(q, C) = OldOf(r, B)
  <2>1. \A b \in X : b.len = Size[r.sc.cls]
    BY <1>1, BlockIs
  <2>2. QED BY <2>1 DEF OldOf
<1>5. \A j : Over(q, C, j) = Over(r, B, j)
  BY <1>4 DEF Over
<1>6. D \subseteq r.used /\ IsFiniteSet(r.used) /\ r.nbits = Cardinality(r.used)
  BY ExactFacts DEF Exact
<1>7. q.nbits = Cardinality(q.used)
  <2>1. IsFiniteSet(D) /\ r.used \cap D = D
    BY <1>6, FS_Subset
  <2>2. Cardinality(r.used \ D) = Cardinality(r.used) - Cardinality(r.used \cap D)
    BY <1>6, <2>1, FS_Difference
  <2>3. QED BY <1>6, <2>1, <2>2
<1>8. ASSUME NEW j \in Indices
      PROVE  /\ j \in q.used <=> Block(s, q.sc, j) \in C \/ Over(q, C, j) # {}
             /\ Block(s, q.sc, j) \in C => Over(q, C, j) = {}
  <2>1. /\ j \in r.used <=> Block(s, r.sc, j) \in B \/ Over(r, B, j) # {}
        /\ Block(s, r.sc, j) \in B => Over(r, B, j) = {}
    BY DEF Exact
  <2>2. Block(s, q.sc, j) \in C <=> Block(s, r.sc, j) \in B /\ j \notin D
    BY <1>2
  <2>3. Over(q, C, j) = Over(r, B, j)
    BY <1>5
  <2>4. j \in D => Block(s, r.sc, j) \in B
    OBVIOUS
  <2> HIDE DEF C, X
  <2>5. QED BY <2>1, <2>2, <2>3, <2>4
<1>9. IsFiniteSet(OldOf(q, C)) /\ q.numb = Cardinality(OldOf(q, C))
  BY <1>4 DEF Exact
<1>10. \A j \in Indices : q.dnum[j] = Cardinality(Over(q, C, j))
  BY <1>5 DEF Exact
<1> HIDE DEF C, X
<1>11. Exact(s, q, C)
  BY <1>3, <1>7, <1>8, <1>9, <1>10 DEF Exact
<1>12. QED BY <1>11 DEF C, X
(* A block of the layout before comes back.                                 *)
Uncovered(r, b) == Uncover(r, Covered(r.sc, b))
SameRest(r, q)  == q.sc = r.sc /\ q.scb = r.scb /\ q.rb = r.rb /\ q.rdirty = r.rdirty /\ q.live = r.live

LEMMA ExactUncover ==
  ASSUME NEW s, NEW r, NEW B, Exact(s, r, B), NEW b \in OldOf(r, B)
  PROVE  /\ Uncovered(r, b) \in Vslabs /\ Exact(s, Uncovered(r, b), B \ {b})
         /\ r.numb > 0 /\ r.nbits > 0 /\ SameRest(r, Uncovered(r, b))
<1> DEFINE over == Covered(r.sc, b)
           out  == {i \in over : r.dnum[i] = 1}
           left == Uncover(r, over)
           C    == B \ {b}
<1>1. r \in Vslabs /\ r.sc \in LayoutSet /\ over \subseteq Indices /\ \A j \in Indices : j \in Int
  BY SlabType DEF Exact, Covered, Reach
<1>2. /\ IsFiniteSet(OldOf(r, B)) /\ r.numb = Cardinality(OldOf(r, B))
      /\ r.dnum \in [Indices -> Nat] /\ r.nbits \in Nat /\ r.numb \in Nat
      /\ IsFiniteSet(r.used) /\ r.nbits = Cardinality(r.used) /\ r.used \subseteq Indices
  BY <1>1, SlabType, ExactFacts DEF Exact
<1>3. ASSUME NEW i \in Indices
      PROVE  /\ IsFiniteSet(Over(r, B, i)) /\ r.dnum[i] = Cardinality(Over(r, B, i))
             /\ i \in over <=> b \in Over(r, B, i)
  <2>1. Over(r, B, i) \subseteq OldOf(r, B)
    BY DEF Over
  <2>2. IsFiniteSet(Over(r, B, i))
    BY <1>2, <2>1, FS_Subset
  <2>3. QED BY <2>2 DEF Over, Exact
<1>4. ASSUME NEW i \in over
      PROVE  /\ r.dnum[i] > 0 /\ i \in r.used
             /\ Cardinality(Over(r, B, i) \ {b}) = r.dnum[i] - 1
             /\ r.dnum[i] = 1 <=> Over(r, B, i) \ {b} = {}
  <2>1. i \in Indices /\ b \in Over(r, B, i) /\ IsFiniteSet(Over(r, B, i))
    BY <1>1, <1>3
  <2>2. Cardinality(Over(r, B, i) \ {b}) = r.dnum[i] - 1 /\ IsFiniteSet(Over(r, B, i) \ {b})
    BY <1>3, <2>1, FS_RemoveElement
  <2>3. Cardinality(Over(r, B, i) \ {b}) \in Nat /\ r.dnum[i] \in Nat
    BY <1>2, <2>1, <2>2, FS_CardinalityType
  <2>4. i \in r.used
    BY <2>1 DEF Exact
  <2>5. QED BY <2>2, <2>3, <2>4, FS_EmptySet
<1>5. r.numb > 0 /\ r.numb - 1 = Cardinality(OldOf(r, B) \ {b}) /\ IsFiniteSet(OldOf(r, B) \ {b})
  <2>1. Cardinality(OldOf(r, B) \ {b}) = Cardinality(OldOf(r, B)) - 1 /\ IsFiniteSet(OldOf(r, B) \ {b})
    BY <1>2, FS_RemoveElement
  <2>2. Cardinality(OldOf(r, B) \ {b}) \in Nat
    BY <2>1, FS_CardinalityType
  <2>3. QED BY <1>2, <2>1, <2>2
<1>6. out \subseteq r.used /\ out \in SUBSET Indices
  BY <1>1, <1>4
<1>7. IsFiniteSet(out) /\ r.nbits - Cardinality(out) = Cardinality(r.used \ out)
      /\ r.nbits - Cardinality(out) \in Nat
  <2>1. IsFiniteSet(out) /\ r.used \cap out = out
    BY <1>2, <1>6, FS_Subset
  <2>2. Cardinality(r.used \ out) = Cardinality(r.used) - Cardinality(r.used \cap out)
    BY <1>2, <2>1, FS_Difference
  <2>3. IsFiniteSet(r.used \ out)
    BY <1>2, FS_Subset
  <2>4. QED BY <1>2, <2>1, <2>2, <2>3, FS_CardinalityType
<1> DEFINE d == [i \in Indices |-> IF i \in over THEN r.dnum[i] - 1 ELSE r.dnum[i]]
<1>8. d \in [Indices -> Nat]
  <2>1. \A i \in Indices : (IF i \in over THEN r.dnum[i] - 1 ELSE r.dnum[i]) \in Nat
    <3>1. \A i \in Indices : r.dnum[i] \in Nat
      BY <1>2
    <3>2. \A i \in over : r.dnum[i] > 0
      BY <1>4
    <3> HIDE DEF over
    <3>3. QED BY <3>1, <3>2
  <2>2. QED BY <2>1
<1>9. left = [r EXCEPT !.numb = r.numb - 1, !.used = r.used \ out,
                       !.nbits = r.nbits - Cardinality(out), !.dnum = d]
  <2>1. DOMAIN r = SlabFields
    BY <1>1, SlabType
  <2>2. QED BY <2>1 DEF Uncover, SlabFields
<1>10. /\ left.sc = r.sc /\ left.scb = r.scb /\ left.numb = r.numb - 1 /\ left.used = r.used \ out
       /\ left.nbits = r.nbits - Cardinality(out) /\ left.dnum = d
       /\ left \in Vslabs
  <2> DEFINE n == r.nbits - Cardinality(out)
             m == r.numb - 1
             V == r.used \ out
  <2>1. n \in Nat /\ m \in Nat /\ V \in SUBSET Indices /\ d \in [Indices -> Nat]
    BY <1>2, <1>5, <1>6, <1>7, <1>8
  <2>2. left = [r EXCEPT !.numb = m, !.used = V, !.nbits = n, !.dnum = d]
    BY <1>9
  <2> HIDE DEF n, m, V, d, left
  <2>3. /\ left.sc = r.sc /\ left.scb = r.scb /\ left.numb = m /\ left.used = V
        /\ left.nbits = n /\ left.dnum = d /\ left \in Vslabs
    BY <1>1, <2>1, <2>2 DEF Vslabs
  <2>4. QED BY <2>3 DEF n, m, V
<1> HIDE DEF left
<1>11. \A x \in C : Placed(s, left, x)
  <2>1. \A x \in B : Placed(s, r, x)
    BY DEF Exact
  <2>2. \A x \in B : Placed(s, left, x)
    BY <1>10, <2>1 DEF Placed
  <2>3. QED BY <2>2
<1>12. OldOf(left, C) = OldOf(r, B) \ {b}
  BY <1>10 DEF OldOf
<1>13. \A i : Over(left, C, i) = Over(r, B, i) \ {b}
  BY <1>10, <1>12 DEF Over
<1>14. ASSUME NEW i \in Indices
       PROVE  /\ left.dnum[i] = Cardinality(Over(left, C, i))
              /\ i \in left.used <=> Block(s, left.sc, i) \in C \/ Over(left, C, i) # {}
              /\ Block(s, left.sc, i) \in C => Over(left, C, i) = {}
  <2>1. /\ r.dnum[i] = Cardinality(Over(r, B, i))
        /\ i \in r.used <=> Block(s, r.sc, i) \in B \/ Over(r, B, i) # {}
        /\ Block(s, r.sc, i) \in B => Over(r, B, i) = {}
    BY DEF Exact
  <2>2. Block(s, left.sc, i) \in C <=> Block(s, r.sc, i) \in B
    <3>1. Block(s, r.sc, i).len = Size[r.sc.cls]
      BY <1>1, BlockIs
    <3>2. Block(s, r.sc, i) # b
      BY <3>1 DEF OldOf
    <3>3. QED BY <1>10, <3>2
  <2>3. Over(left, C, i) = Over(r, B, i) \ {b}
    BY <1>13
  <2>4. left.dnum[i] = IF i \in over THEN r.dnum[i] - 1 ELSE r.dnum[i]
    BY <1>10
  <2>5. CASE i \in over
    <3>1. left.dnum[i] = Cardinality(Over(left, C, i))
      BY <1>4, <2>3, <2>4, <2>5
    <3>2. i \in left.used <=> i \in r.used /\ r.dnum[i] # 1
      BY <1>10, <2>5
    <3>3. Block(s, r.sc, i) \notin B
      BY <1>3, <2>1, <2>5
    <3>4. QED BY <1>4, <2>1, <2>2, <2>3, <2>5, <3>1, <3>2, <3>3
  <2>6. CASE i \notin over
    <3>1. Over(left, C, i) = Over(r, B, i)
      BY <1>3, <2>3, <2>6
    <3>2. i \in left.used <=> i \in r.used
      BY <1>10, <2>6
    <3>3. QED BY <2>1, <2>2, <2>4, <2>6, <3>1, <3>2
  <2>7. QED BY <2>5, <2>6
<1>15. left.nbits = Cardinality(left.used)
  BY <1>7, <1>10
<1>16. IsFiniteSet(OldOf(left, C)) /\ left.numb = Cardinality(OldOf(left, C))
  BY <1>5, <1>10, <1>12
<1> HIDE DEF C
<1>17. Exact(s, left, C)
  BY <1>10, <1>11, <1>14, <1>15, <1>16 DEF Exact
<1>18. r.nbits > 0
  <2>1. over # {}
    <3>1. Placed(s, r, b)
      BY DEF Exact, OldOf
    <3>2. QED BY <1>1, <3>1, PlacedFacts
  <2>2. r.used # {}
    BY <1>4, <2>1
  <2>3. QED BY <1>2, <2>2, ExactFacts
<1>19. SameRest(r, left)
  <2>1. left = [r EXCEPT !.used = r.used \ out, !.nbits = r.nbits - Cardinality(out),
                         !.numb = r.numb - 1, !.dnum = d]
    BY <1>9
  <2>2. DOMAIN r = SlabFields
    BY <1>1, SlabType
  <2> HIDE DEF d, out, left
  <2>3. QED BY <2>1, <2>2 DEF SameRest, SlabFields
<1>20. Uncovered(r, b) = left
  BY DEF Uncovered, over, left
<1>21. QED BY <1>5, <1>10, <1>17, <1>18, <1>19, <1>20 DEF C
(* A slab whose blocks are all of its layout is to be morphed: they become  *)
(* the old blocks.                                                          *)
Remade(r, c) ==
  [r EXCEPT !.sc = Mixed(c, r.nbits), !.scb = r.sc, !.numb = r.nbits, !.nbits = 0]

LEMMA ExactMoves ==
  ASSUME NEW s, NEW r, NEW B, Exact(s, r, B), r.numb = 0, r.rb = {}, r.rdirty = FALSE,
         NEW c \in Classes, c # r.sc.cls, r.nbits # 0,
         ~Under(r, Mixed(c, r.nbits))
  PROVE  Moving(s, Remade(r, c), B, r.used)
<1> DEFINE sc == Mixed(c, r.nbits)
           q  == [r EXCEPT !.sc = sc, !.scb = r.sc, !.numb = r.nbits, !.nbits = 0]
           o  == r.used
<1>1. r \in Vslabs /\ r.sc \in LayoutSet /\ \A j \in Indices : j \in Nat
  BY SlabType DEF Exact
<1>2. /\ o # {} /\ IsFiniteSet(o) /\ r.nbits = Cardinality(o) /\ o \subseteq Indices
      /\ OldOf(r, B) = {}
  BY <1>1, ExactFacts, SlabType DEF Exact
<1>3. \A i : Over(r, B, i) = {}
  BY <1>2 DEF Over
<1>4. \A i \in o : Block(s, r.sc, i) \in B /\ i \in 0 .. r.sc.n - 1
  <2>1. \A i \in o : Block(s, r.sc, i) \in B
    BY <1>2, <1>3 DEF Exact
  <2>2. QED BY <1>2, <2>1, ExactFacts
<1>5. ASSUME NEW b \in B
      PROVE  \E j \in o : b = Block(s, r.sc, j)
  <2>1. Placed(s, r, b) /\ b.len = Size[r.sc.cls]
    BY <1>2 DEF Exact, OldOf
  <2>2. b = Block(s, r.sc, Index(r.sc, b.at)) /\ Index(r.sc, b.at) \in 0 .. r.sc.n - 1
    BY <1>1, <2>1, OwnBlock
  <2>3. Index(r.sc, b.at) \in Indices
    <3>1. r.sc.n \in Nat /\ r.sc.n < SlabSize /\ SlabSize \in Nat
      BY <1>1, LayoutType
    <3>2. QED BY <2>2, <3>1 DEF Indices
  <2>4. Index(r.sc, b.at) \in o
    BY <2>2, <2>3 DEF Exact
  <2>5. QED BY <2>2, <2>4
<1>6. B = {Block(s, r.sc, j) : j \in o}
  BY <1>4, <1>5
<1>7. Min(o) \in o /\ \A j \in o : Min(o) <= j
  <2>1. o \in SUBSET Nat
    BY <1>1, <1>2
  <2>2. QED BY <1>2, <2>1, MinIn
<1>8. sc.off \in Nat \ {0} /\ sc.off <= At(r.sc, Min(o))
  <2>1. sc.off = MixHeader + (r.nbits + TableLine - 1) \div TableLine
    BY DEF Mixed, Fit
  <2>2. r.nbits \in Nat /\ TableLine \in Nat \ {0} /\ MixHeader \in Nat /\ MixHeader > 0
    BY <1>1, SlabType, SlabsAssumption
  <2>3. \A x \in Nat, y \in Nat \ {0} : (x + y - 1) \div y \in Nat
    OBVIOUS
  <2>4. (r.nbits + TableLine - 1) \div TableLine \in Nat
    BY <2>2, <2>3
  <2>5. sc.off \in Nat \ {0}
    <3> HIDE DEF sc
    <3>1. QED BY <2>1, <2>2, <2>4
  <2>6. At(r.sc, Min(o)) \in Nat
    BY <1>1, <1>2, <1>7, AtType
  <2>7. ~(At(r.sc, Min(o)) < sc.off)
    BY <1>7 DEF Under
  <2> HIDE DEF sc, o
  <2>8. QED BY <2>5, <2>6, <2>7
<1>9. \A b \in B : sc.off <= b.at
  <2>1. SUFFICES ASSUME NEW j \in o PROVE sc.off <= Block(s, r.sc, j).at
    BY <1>6
  <2>2. j \in Nat /\ Min(o) \in Nat /\ Min(o) <= j
    BY <1>1, <1>2, <1>7
  <2>3. Block(s, r.sc, j).at = At(r.sc, j)
    BY <1>1, <2>2, BlockIs
  <2>4. At(r.sc, Min(o)) <= At(r.sc, j)
    <3>1. CASE Min(o) = j
      BY <1>1, <2>2, <3>1, AtType
    <3>2. CASE Min(o) # j
      <4>1. Min(o) \in Int /\ j \in Int /\ Min(o) < j
        BY <2>2, <3>2
      <4>2. At(r.sc, Min(o)) + Size[r.sc.cls] <= At(r.sc, j)
        BY <1>1, <4>1, AtOrder
      <4>3. At(r.sc, Min(o)) \in Int /\ At(r.sc, j) \in Int /\ Size[r.sc.cls] \in Nat
        BY <1>1, <4>1, AtType, LayoutType
      <4> HIDE DEF o
      <4>4. QED BY <4>2, <4>3
    <3>3. QED BY <3>1, <3>2
  <2>5. At(r.sc, Min(o)) \in Nat /\ At(r.sc, j) \in Nat
    BY <1>1, <2>2, AtType
  <2> HIDE DEF sc, o
  <2>6. QED BY <1>8, <2>3, <2>4, <2>5
<1>10. sc \in LayoutSet
  <2>1. PICK j \in o : TRUE
    BY <1>2
  <2>2. sc.off <= At(r.sc, j) /\ At(r.sc, j) + Size[r.sc.cls] <= SlabSize /\ At(r.sc, j) \in Nat
    <3>1. Block(s, r.sc, j) \in B /\ j \in 0 .. r.sc.n - 1 /\ j \in Nat
      BY <1>1, <1>2, <1>4
    <3>2. Block(s, r.sc, j).at = At(r.sc, j)
      BY <1>1, <3>1, BlockIs
    <3>3. QED BY <1>1, <1>9, <3>1, <3>2, LastAt, AtType
  <2>3. Size[r.sc.cls] \in Nat \ {0} /\ SlabSize \in Nat
    BY <1>1, LayoutType
  <2>4. sc.off \in 1 .. SlabSize - 1
    <3> HIDE DEF sc
    <3>1. QED BY <1>8, <2>2, <2>3
  <2>5. sc = Fit(c, sc.off)
    BY DEF Mixed, Fit
  <2> HIDE DEF sc
  <2>6. QED BY <2>4, <2>5 DEF LayoutSet
<1>11. r.dnum = [i \in Indices |-> 0]
  <2>1. r.dnum \in [Indices -> Nat] /\ \A i \in Indices : r.dnum[i] = 0
    BY <1>1, <1>3, SlabType, FS_EmptySet DEF Exact
  <2>2. QED BY <2>1
<1>12. /\ q.sc = sc /\ q.scb = r.sc /\ q.numb = r.nbits /\ q.nbits = 0 /\ q.dnum = r.dnum
       /\ q.rb = {} /\ q.rdirty = FALSE /\ q \in Vslabs
  <2> HIDE DEF sc
  <2>1. r.nbits \in Nat /\ 0 \in Nat /\ r.sc \in LayoutSet
    BY <1>1, SlabType
  <2>2. QED BY <1>1, <1>10, <2>1 DEF Vslabs
<1>13. sc.cls = c
  BY DEF Mixed, Fit
<1> HIDE DEF sc, q
<1>14. Moving(s, q, B, o)
  BY <1>2, <1>4, <1>6, <1>9, <1>11, <1>12, <1>13 DEF Moving
<1>15. QED BY <1>14 DEF q, sc, Remade

(* What the new bitmap is computed from.                                    *)
Overs(s, sc, scb, o) ==
  [i \in Indices |-> Cardinality({j \in o : i \in Covered(sc, Block(s, scb, j))})]

InUse(over)    == {i \in Indices : over[i] > 0}
Ended(r, over) ==
  [r EXCEPT !.dnum = over, !.used = InUse(over), !.nbits = Cardinality(InUse(over))]

LEMMA MovingEnds ==
  ASSUME NEW s, NEW r, NEW B, NEW o, Moving(s, r, B, o)
  PROVE  /\ Exact(s, Ended(r, Overs(s, r.sc, r.scb, o)), B)
         /\ Ended(r, Overs(s, r.sc, r.scb, o)) \in Vslabs
         /\ Ended(r, Overs(s, r.sc, r.scb, o)).sc = r.sc
         /\ InUse(Overs(s, r.sc, r.scb, o)) # {}
         /\ InUse(Overs(s, r.sc, r.scb, o)) \subseteq 0 .. r.sc.n
<1> DEFINE over  == Overs(s, r.sc, r.scb, o)
           inUse == {i \in Indices : over[i] > 0}
           q == [r EXCEPT !.dnum = over, !.used = inUse, !.nbits = Cardinality(inUse)]
           F(i) == {j \in o : i \in Covered(r.sc, Block(s, r.scb, j))}
<1>1. /\ r \in Vslabs /\ r.sc \in LayoutSet /\ r.scb \in LayoutSet /\ \A j \in Indices : j \in Nat
      /\ o # {} /\ o \subseteq 0 .. r.scb.n - 1 /\ r.sc.cls # r.scb.cls
      /\ B = {Block(s, r.scb, j) : j \in o} /\ \A b \in B : r.sc.off <= b.at
      /\ r.numb = Cardinality(o)
  BY SlabType DEF Moving
<1>2. o \subseteq Nat /\ IsFiniteSet(o)
  <2>1. r.scb.n \in Nat /\ o \subseteq 0 .. r.scb.n - 1 
    BY <1>1, LayoutType
  <2>2. IsFiniteSet(0 .. r.scb.n - 1)
    BY <2>1, FS_Interval
  <2>3. QED BY <2>1, <2>2, FS_Subset
<1>3. ASSUME NEW j \in o
      PROVE  /\ Block(s, r.scb, j) \in B /\ j \in Int
             /\ Block(s, r.scb, j).len = Size[r.scb.cls]
             /\ Size[r.scb.cls] # Size[r.sc.cls]
             /\ \A k \in o : Block(s, r.scb, j) = Block(s, r.scb, k) => j = k
  <2>1. j \in Int /\ \A k \in o : k \in Int
    BY <1>2
  <2>2. Size[r.scb.cls] # Size[r.sc.cls]
    <3>1. r.scb.cls \in Classes /\ r.sc.cls \in Classes
      BY <1>1, LayoutType
    <3>2. QED BY <1>1, <3>1, SlabsAssumption
  <2>3. QED BY <1>1, <2>1, <2>2, BlockIs
<1>4. OldOf(r, B) = B
  BY <1>1, <1>3 DEF OldOf
<1>5. ASSUME NEW b \in B
      PROVE  Placed(s, r, b) /\ Covered(r.sc, b) # {} /\ Covered(r.sc, b) \subseteq 0 .. r.sc.n
  <2>1. PICK j \in o : b = Block(s, r.scb, j)
    BY <1>1
  <2>2. Placed(s, r, b)
    BY <1>1, <1>3, <2>1 DEF Placed
  <2>3. QED BY <1>1, <2>2, PlacedFacts
<1>6. ASSUME NEW P \in SUBSET o
      PROVE  LET X == {Block(s, r.scb, j) : j \in P}
             IN  IsFiniteSet(P) /\ IsFiniteSet(X) /\ Cardinality(X) = Cardinality(P)
  <2> DEFINE X == {Block(s, r.scb, j) : j \in P}
             f == [j \in P |-> Block(s, r.scb, j)]
  <2>1. IsFiniteSet(P)
    BY <1>2, FS_Subset
  <2>2. f \in Bijection(P, X)
    <3>1. \A j, k \in P : f[j] = f[k] => j = k
      BY <1>3
    <3>2. f \in [P -> X] /\ \A x \in X : \E j \in P : f[j] = x
      OBVIOUS
    <3> HIDE DEF f, X
    <3>3. QED BY <3>1, <3>2 DEF Bijection, Injection, Surjection, IsInjective
  <2>3. ExistsBijection(P, X)
    BY <2>2 DEF ExistsBijection
  <2>4. QED BY <2>1, <2>3, FS_Bijection
<1>7. Cardinality(OldOf(r, B)) = r.numb /\ IsFiniteSet(OldOf(r, B))
  BY <1>1, <1>4, <1>6
<1>8. ASSUME NEW i \in Indices
      PROVE  /\ over[i] = Cardinality(F(i)) /\ IsFiniteSet(F(i))
             /\ Over(r, B, i) = {Block(s, r.scb, j) : j \in F(i)}
             /\ Cardinality(Over(r, B, i)) = over[i]
             /\ over[i] \in Nat
             /\ over[i] > 0 <=> Over(r, B, i) # {}
  <2>1. over[i] = Cardinality(F(i))
    BY DEF Overs
  <2>2. F(i) \in SUBSET o
    OBVIOUS
  <2>3. Over(r, B, i) = {Block(s, r.scb, j) : j \in F(i)}
    BY <1>1, <1>4 DEF Over
  <2>4. IsFiniteSet(F(i)) /\ Cardinality(Over(r, B, i)) = Cardinality(F(i))
    BY <1>6, <2>2, <2>3
  <2>5. Cardinality(F(i)) \in Nat /\ (Cardinality(F(i)) = 0 <=> F(i) = {})
    BY <2>4, FS_CardinalityType, FS_EmptySet
  <2>6. Over(r, B, i) = {} <=> F(i) = {}
    BY <2>3
  <2> HIDE DEF F, over
  <2>7. QED BY <2>1, <2>3, <2>4, <2>5, <2>6
<1>9. over \in [Indices -> Nat]
  BY <1>8 DEF Overs
<1>10. inUse \subseteq 0 .. r.sc.n /\ inUse # {} /\ inUse \in SUBSET Indices
  <2>1. \A i \in inUse : \E b \in B : i \in Covered(r.sc, b)
    BY <1>8 DEF Over, OldOf
  <2>2. PICK b \in B : TRUE
    BY <1>1
  <2>3. PICK i \in Covered(r.sc, b) : TRUE
    BY <1>5
  <2>4. i \in Indices /\ Over(r, B, i) # {}
    BY <1>4, <2>3 DEF Covered, Reach, Over
  <2>5. i \in inUse
    BY <1>8, <2>4
  <2>6. inUse # {} /\ inUse \in SUBSET Indices
    BY <2>5
  <2> HIDE DEF inUse
  <2>7. QED BY <1>5, <2>1, <2>6
<1>11. IsFiniteSet(inUse) /\ Cardinality(inUse) \in Nat
  <2>1. r.sc.n \in Nat
    BY <1>1, LayoutType
  <2>2. IsFiniteSet(0 .. r.sc.n)
    BY <2>1, FS_Interval
  <2> HIDE DEF inUse
  <2>3. QED BY <1>10, <2>2, FS_Subset, FS_CardinalityType
<1>12. /\ q.sc = r.sc /\ q.scb = r.scb /\ q.numb = r.numb /\ q.dnum = over /\ q.used = inUse
       /\ q.nbits = Cardinality(inUse) /\ q \in Vslabs
  <2> DEFINE n == Cardinality(inUse)
  <2>1. n \in Nat
    BY <1>11
  <2> HIDE DEF inUse, over, n
  <2>2. q = [r EXCEPT !.dnum = over, !.used = inUse, !.nbits = n]
    BY DEF n
  <2> HIDE DEF q
  <2>3. /\ q.sc = r.sc /\ q.scb = r.scb /\ q.numb = r.numb /\ q.dnum = over /\ q.used = inUse
        /\ q.nbits = n /\ q \in Vslabs
    BY <1>1, <1>9, <1>10, <2>1, <2>2 DEF Vslabs
  <2>4. QED BY <2>3 DEF n
<1> HIDE DEF q
<1>13. /\ OldOf(q, B) = OldOf(r, B) /\ \A i : Over(q, B, i) = Over(r, B, i)
  BY <1>12 DEF OldOf, Over
<1>14. \A b \in B : Placed(s, q, b)
  BY <1>5, <1>12 DEF Placed
<1>15. ASSUME NEW i \in Indices
       PROVE  /\ q.dnum[i] = Cardinality(Over(q, B, i))
              /\ i \in q.used <=> Block(s, q.sc, i) \in B \/ Over(q, B, i) # {}
              /\ Block(s, q.sc, i) \in B => Over(q, B, i) = {}
  <2>1. Block(s, r.sc, i) \notin B
    <3>1. Block(s, r.sc, i).len = Size[r.sc.cls]
      BY <1>1, BlockIs
    <3>2. QED BY <1>4, <3>1 DEF OldOf
  <2>2. i \in inUse <=> Over(r, B, i) # {}
    BY <1>8
  <2>3. over[i] = Cardinality(Over(r, B, i))
    BY <1>8
  <2> HIDE DEF over, inUse
  <2>4. QED BY <1>12, <1>13, <2>1, <2>2, <2>3
<1> HIDE DEF over, inUse
<1>16. Exact(s, q, B)
  BY <1>7, <1>12, <1>13, <1>14, <1>15 DEF Exact
<1>17. QED BY <1>10, <1>12, <1>16 DEF q, over, inUse, Ended, InUse
(* Blocks of a layout lie apart, and so do they from the old blocks.        *)
Beside(a, b) == a.at + a.len <= b.at \/ b.at + b.len <= a.at
Within(r, b) == r.sc.off <= b.at /\ b.at + b.len <= SlabSize

LEMMA SameLayoutApart ==
  ASSUME NEW s, NEW sc \in LayoutSet, NEW i \in Int, NEW j \in Int, i # j
  PROVE  Beside(Block(s, sc, i), Block(s, sc, j))
<1>1. /\ Block(s, sc, i).at = At(sc, i) /\ Block(s, sc, i).len = Size[sc.cls]
      /\ Block(s, sc, j).at = At(sc, j) /\ Block(s, sc, j).len = Size[sc.cls]
  BY BlockIs
<1>2. CASE i < j
  <2>1. At(sc, i) + Size[sc.cls] <= At(sc, j)
    BY <1>2, AtOrder
  <2>2. QED BY <1>1, <2>1 DEF Beside
<1>3. CASE j < i
  <2>1. At(sc, j) + Size[sc.cls] <= At(sc, i)
    BY <1>3, AtOrder
  <2>2. QED BY <1>1, <2>1 DEF Beside
<1>4. QED BY <1>2, <1>3

LEMMA ExactApart ==
  ASSUME NEW s, NEW r, NEW B, Exact(s, r, B)
  PROVE  /\ \A a, b \in B : a # b => Beside(a, b)
         /\ \A b \in B : b.slab = s /\ Within(r, b)
<1>1. r \in Vslabs /\ r.sc \in LayoutSet /\ r.scb \in LayoutSet /\ \A j \in Indices : j \in Int
  BY SlabType DEF Exact
<1>2. \A b \in B : Placed(s, r, b)
  BY DEF Exact
<1>3. ASSUME NEW a \in B, NEW b \in B, a.len = Size[r.sc.cls], b.len # Size[r.sc.cls]
      PROVE  Beside(a, b)
  <2> DEFINE i == Index(r.sc, a.at)
  <2>1. a = Block(s, r.sc, i)
    <3>1. Placed(s, r, a) /\ r \in Vslabs
      BY <1>1, <1>2
    <3>2. QED BY <1>3, <3>1, OwnBlock
  <2>2. i \in Indices
    <3>1. i \in 0 .. r.sc.n - 1
      BY <1>1, <1>2, <1>3, OwnBlock
    <3>2. r.sc.n \in Nat /\ r.sc.n < SlabSize /\ SlabSize \in Nat
      BY <1>1, LayoutType
    <3> HIDE DEF i
    <3>3. QED BY <3>1, <3>2 DEF Indices
  <2> HIDE DEF i
  <2>3. Over(r, B, i) = {}
    BY <2>1, <2>2 DEF Exact
  <2>4. i \notin Covered(r.sc, b)
    BY <1>3, <2>3 DEF Over, OldOf
  <2>5. b.at \in Nat /\ b.len \in Nat
    BY <1>1, <1>2, PlacedFacts
  <2>6. a.at = At(r.sc, i) /\ a.len = Size[r.sc.cls] /\ i \in Int
    BY <1>1, <2>1, <2>2, BlockIs
  <2>7. ~(At(r.sc, i) < b.at + b.len /\ b.at < At(r.sc, i) + Size[r.sc.cls])
    BY <1>1, <2>2, <2>4, <2>5, OverlapCovers
  <2>8. At(r.sc, i) \in Int /\ Size[r.sc.cls] \in Nat
    BY <1>1, <2>6, AtType, LayoutType
  <2>9. QED BY <2>5, <2>6, <2>7, <2>8 DEF Beside
<1>4. ASSUME NEW a \in B, NEW b \in B, a # b, NEW sc \in LayoutSet,
             NEW i \in Int, NEW j \in Int, a = Block(s, sc, i), b = Block(s, sc, j)
      PROVE  Beside(a, b)
  <2>1. i # j
    BY <1>4
  <2>2. QED BY <1>4, <2>1, SameLayoutApart
<1>5. ASSUME NEW a \in B, NEW b \in B, a # b
      PROVE  Beside(a, b)
  <2>1. a.at \in Nat /\ b.at \in Nat
    BY <1>1, <1>2, PlacedFacts
  <2>2. /\ Index(r.sc, a.at) \in Int /\ Index(r.sc, b.at) \in Int
        /\ Index(r.scb, a.at) \in Int /\ Index(r.scb, b.at) \in Int
    <3>1. a.at \in Int /\ b.at \in Int
      BY <2>1
    <3>2. QED BY <1>1, <3>1, IndexType
  <2>3. CASE a.len = Size[r.sc.cls] /\ b.len = Size[r.sc.cls]
    <3>1. a = Block(s, r.sc, Index(r.sc, a.at))
      BY <1>1, <1>2, <2>3, OwnBlock
    <3>2. b = Block(s, r.sc, Index(r.sc, b.at))
      BY <1>1, <1>2, <2>3, OwnBlock
    <3>3. QED BY <1>1, <1>4, <1>5, <2>2, <3>1, <3>2
  <2>4. CASE a.len # Size[r.sc.cls] /\ b.len # Size[r.sc.cls]
    <3>1. a = Block(s, r.scb, Index(r.scb, a.at))
      BY <1>1, <1>2, <2>4, OldBlock
    <3>2. b = Block(s, r.scb, Index(r.scb, b.at))
      BY <1>1, <1>2, <2>4, OldBlock
    <3>3. QED BY <1>1, <1>4, <1>5, <2>2, <3>1, <3>2
  <2>5. CASE a.len = Size[r.sc.cls] /\ b.len # Size[r.sc.cls]
    BY <1>3, <2>5
  <2>6. CASE a.len # Size[r.sc.cls] /\ b.len = Size[r.sc.cls]
    BY <1>3, <2>6 DEF Beside
  <2>7. QED BY <2>3, <2>4, <2>5, <2>6
<1>6. ASSUME NEW b \in B
      PROVE  b.slab = s /\ Within(r, b)
  BY <1>1, <1>2, PlacedFacts DEF Within
<1>7. QED BY <1>5, <1>6

LEMMA MovingApart ==
  ASSUME NEW s, NEW r, NEW B, NEW o, Moving(s, r, B, o)
  PROVE  /\ \A a, b \in B : a # b => Beside(a, b)
         /\ \A b \in B : b.slab = s /\ Within(r, b) /\ b.len # Size[r.sc.cls]
<1>1. \E q : Exact(s, q, B) /\ q.sc = r.sc
  BY MovingEnds
<1>2. PICK q : Exact(s, q, B) /\ q.sc = r.sc
  BY <1>1
<1>3. \A b \in B : b.len # Size[r.sc.cls]
  <2>1. /\ r.sc \in LayoutSet /\ r.scb \in LayoutSet /\ r.sc.cls # r.scb.cls
        /\ o \subseteq 0 .. r.scb.n - 1 /\ B = {Block(s, r.scb, j) : j \in o}
    BY SlabType DEF Moving
  <2>2. Size[r.scb.cls] # Size[r.sc.cls]
    <3>1. r.scb.cls \in Classes /\ r.sc.cls \in Classes
      BY <2>1, LayoutType
    <3>2. QED BY <2>1, <3>1, SlabsAssumption
  <2>3. \A j \in o : Block(s, r.scb, j).len = Size[r.scb.cls]
    BY DEF Block
  <2>4. QED BY <2>1, <2>2, <2>3
<1>4. QED BY <1>2, <1>3, ExactApart DEF Within

(* The first index that is free.                                            *)
LEMMA FirstFree ==
  ASSUME NEW s, NEW r, NEW B, Exact(s, r, B), r.nbits < r.sc.n
  PROVE  Min(Indices \ r.used) \in 0 .. r.sc.n - 1 /\ Min(Indices \ r.used) \notin r.used
<1>1. /\ r \in Vslabs /\ r.sc.n \in Nat /\ r.sc.n < SlabSize /\ SlabSize \in Nat
      /\ r.nbits = Cardinality(r.used) /\ IsFiniteSet(r.used)
  BY SlabType, LayoutType, ExactFacts DEF Exact
<1>2. PICK i \in 0 .. r.sc.n - 1 : i \notin r.used
  <2>1. SUFFICES ASSUME 0 .. r.sc.n - 1 \subseteq r.used PROVE FALSE
    OBVIOUS
  <2>2. Cardinality(0 .. r.sc.n - 1) <= Cardinality(r.used)
    BY <1>1, <2>1, FS_Subset
  <2>3. Cardinality(0 .. r.sc.n - 1) = r.sc.n
    <3> DEFINE m == r.sc.n - 1
    <3>1. m \in Int /\ 0 \in Int
      BY <1>1
    <3>2. Cardinality(0 .. m) = IF 0 > m THEN 0 ELSE m - 0 + 1
      <4> HIDE DEF m
      <4>1. QED BY <3>1, FS_Interval
    <3>3. QED BY <1>1, <3>2
  <2>4. r.nbits \in Nat
    BY <1>1, SlabType
  <2>5. QED BY <1>1, <2>2, <2>3, <2>4
<1> DEFINE F == Indices \ r.used
<1>3. F \in SUBSET Nat /\ i \in F /\ i \in Nat
  BY <1>1, <1>2 DEF Indices
<1>4. Min(F) \in F /\ Min(F) <= i
  <2> HIDE DEF F
  <2>1. F # {}
    BY <1>3
  <2>2. QED BY <1>3, <2>1, MinIn
<1>5. Min(F) \in Nat
  BY <1>3, <1>4
<1>6. QED BY <1>1, <1>2, <1>4, <1>5
-----------------------------------------------------------------------------
(* Where blocks are *)

LEMMA SpotsAre ==
  /\ <<"held">> \in Spots /\ <<"lost">> \in Spots /\ <<"back">> \in Spots
  /\ \A t \in Threads : <<"hand", t>> \in Spots
  /\ \A t \in Threads, c \in Classes, k \in Banks : <<"bank", t, c, k>> \in Spots
  /\ \A x \in Spots :
       \/ x = <<"held">> \/ x = <<"lost">> \/ x = <<"back">>
       \/ \E t \in Threads : x = <<"hand", t>>
       \/ \E t \in Threads, c \in Classes, k \in Banks : x = <<"bank", t, c, k>>
BY DEF Spots

LEMMA SpotsDiffer ==
  /\ <<"held">> # <<"lost">> /\ <<"held">> # <<"back">> /\ <<"lost">> # <<"back">>
  /\ \A t : <<"hand", t>> # <<"held">> /\ <<"hand", t>> # <<"lost">> /\ <<"hand", t>> # <<"back">>
  /\ \A t, u : <<"hand", t>> = <<"hand", u>> => t = u
  /\ \A t, c, k : /\ <<"bank", t, c, k>> # <<"held">> /\ <<"bank", t, c, k>> # <<"lost">>
                  /\ <<"bank", t, c, k>> # <<"back">>
                  /\ \A u : <<"bank", t, c, k>> # <<"hand", u>>
  /\ \A t, c, k, u, d, j : <<"bank", t, c, k>> = <<"bank", u, d, j>> => t = u /\ c = d /\ k = j
OBVIOUS

LEMMA HoldsAt ==
  /\ Holds(<<"held">>) = held /\ Holds(<<"lost">>) = lost
  /\ Holds(<<"back">>) = UNION {Returned(s) : s \in Slots}
  /\ \A t \in Threads : Holds(<<"hand", t>>) = {my[t].blk} \ {NoBlock}
  /\ \A t \in Threads, c \in Classes, k \in Banks :
       Holds(<<"bank", t, c, k>>) = BlksIn(cache[t][c][k])
BY DEF Holds

LEMMA WhereIs ==
  /\ Whereabouts[<<"held">>] = held /\ Whereabouts[<<"lost">>] = lost
  /\ Whereabouts[<<"back">>] = UNION {Returned(s) : s \in Slots}
  /\ \A t \in Threads : Whereabouts[<<"hand", t>>] = {my[t].blk} \ {NoBlock}
  /\ \A t \in Threads, c \in Classes, k \in Banks :
       Whereabouts[<<"bank", t, c, k>>] = BlksIn(cache[t][c][k])
BY HoldsAt, SpotsAre DEF Whereabouts

LEMMA WhereIsNext ==
  /\ Whereabouts'[<<"held">>] = held' /\ Whereabouts'[<<"lost">>] = lost'
  /\ Whereabouts'[<<"back">>] = UNION {Returned(s)' : s \in Slots}
  /\ \A t \in Threads : Whereabouts'[<<"hand", t>>] = {my'[t].blk} \ {NoBlock}
  /\ \A t \in Threads, c \in Classes, k \in Banks :
       Whereabouts'[<<"bank", t, c, k>>] = BlksIn(cache'[t][c][k])
<1>1. /\ Holds(<<"held">>)' = held' /\ Holds(<<"lost">>)' = lost'
      /\ Holds(<<"back">>)' = UNION {Returned(s)' : s \in Slots}
      /\ \A t \in Threads : Holds(<<"hand", t>>)' = {my'[t].blk} \ {NoBlock}
      /\ \A t \in Threads, c \in Classes, k \in Banks :
           Holds(<<"bank", t, c, k>>)' = BlksIn(cache'[t][c][k])
  BY DEF Holds
<1>2. \A x \in Spots : Whereabouts'[x] = Holds(x)'
  BY DEF Whereabouts
<1>3. QED BY <1>1, <1>2, SpotsAre
Union(f) == UNION {f[x] : x \in Spots}

LEMMA Gathered == Blocks = Union(Whereabouts) /\ Blocks' = Union(Whereabouts')
<1>1. /\ \A b : b \in Blocks <=>
            \/ b \in held \/ b \in lost \/ \E s \in Slots : b \in Returned(s)
            \/ \E t \in Threads : my[t].blk = b /\ b # NoBlock
            \/ \E t \in Threads, c \in Classes, k \in Banks : b \in BlksIn(cache[t][c][k])
      /\ \A b : b \in Blocks' <=>
            \/ b \in held' \/ b \in lost' \/ \E s \in Slots : b \in Returned(s)'
            \/ \E t \in Threads : my'[t].blk = b /\ b # NoBlock
            \/ \E t \in Threads, c \in Classes, k \in Banks : b \in BlksIn(cache'[t][c][k])
  BY DEF Blocks, Cached, Caches, InFlight, BlksIn, Members
<1>2. \A b : b \in Union(Whereabouts) <=>
            \/ b \in held \/ b \in lost \/ \E s \in Slots : b \in Returned(s)
            \/ \E t \in Threads : my[t].blk = b /\ b # NoBlock
            \/ \E t \in Threads, c \in Classes, k \in Banks : b \in BlksIn(cache[t][c][k])
  <2>1. ASSUME NEW b, NEW x \in Spots, b \in Whereabouts[x]
        PROVE  \/ b \in held \/ b \in lost \/ \E s \in Slots : b \in Returned(s)
               \/ \E t \in Threads : my[t].blk = b /\ b # NoBlock
               \/ \E t \in Threads, c \in Classes, k \in Banks : b \in BlksIn(cache[t][c][k])
    <3>1. CASE x = <<"held">> \/ x = <<"lost">> \/ x = <<"back">>
      BY <2>1, <3>1, WhereIs
    <3>2. CASE \E t \in Threads : x = <<"hand", t>>
      BY <2>1, <3>2, WhereIs
    <3>3. CASE \E t \in Threads, c \in Classes, k \in Banks : x = <<"bank", t, c, k>>
      BY <2>1, <3>3, WhereIs
    <3>4. QED BY <3>1, <3>2, <3>3, SpotsAre
  <2>2. ASSUME NEW b,
               \/ b \in held \/ b \in lost \/ \E s \in Slots : b \in Returned(s)
               \/ \E t \in Threads : my[t].blk = b /\ b # NoBlock
               \/ \E t \in Threads, c \in Classes, k \in Banks : b \in BlksIn(cache[t][c][k])
        PROVE  \E x \in Spots : b \in Whereabouts[x]
    <3>1. CASE b \in held \/ b \in lost \/ \E s \in Slots : b \in Returned(s)
      <4>1. b \in Whereabouts[<<"held">>] \/ b \in Whereabouts[<<"lost">>]
              \/ b \in Whereabouts[<<"back">>]
        BY <3>1, WhereIs
      <4>2. QED BY <4>1, SpotsAre
    <3>2. CASE \E t \in Threads : my[t].blk = b /\ b # NoBlock
      <4>1. PICK t \in Threads : b \in Whereabouts[<<"hand", t>>]
        BY <3>2, WhereIs
      <4>2. QED BY <4>1, SpotsAre
    <3>3. CASE \E t \in Threads, c \in Classes, k \in Banks : b \in BlksIn(cache[t][c][k])
      <4>1. PICK t \in Threads, c \in Classes, k \in Banks : b \in Whereabouts[<<"bank", t, c, k>>]
        BY <3>3, WhereIs
      <4>2. QED BY <4>1, SpotsAre
    <3>4. QED BY <2>2, <3>1, <3>2, <3>3
  <2>3. QED BY <2>1, <2>2 DEF Union
<1>3. \A b : b \in Union(Whereabouts') <=>
            \/ b \in held' \/ b \in lost' \/ \E s \in Slots : b \in Returned(s)'
            \/ \E t \in Threads : my'[t].blk = b /\ b # NoBlock
            \/ \E t \in Threads, c \in Classes, k \in Banks : b \in BlksIn(cache'[t][c][k])
  <2>1. ASSUME NEW b, NEW x \in Spots, b \in Whereabouts'[x]
        PROVE  \/ b \in held' \/ b \in lost' \/ \E s \in Slots : b \in Returned(s)'
               \/ \E t \in Threads : my'[t].blk = b /\ b # NoBlock
               \/ \E t \in Threads, c \in Classes, k \in Banks : b \in BlksIn(cache'[t][c][k])
    <3>1. CASE x = <<"held">> \/ x = <<"lost">> \/ x = <<"back">>
      BY <2>1, <3>1, WhereIsNext
    <3>2. CASE \E t \in Threads : x = <<"hand", t>>
      BY <2>1, <3>2, WhereIsNext
    <3>3. CASE \E t \in Threads, c \in Classes, k \in Banks : x = <<"bank", t, c, k>>
      BY <2>1, <3>3, WhereIsNext
    <3>4. QED BY <3>1, <3>2, <3>3, SpotsAre
  <2>2. ASSUME NEW b,
               \/ b \in held' \/ b \in lost' \/ \E s \in Slots : b \in Returned(s)'
               \/ \E t \in Threads : my'[t].blk = b /\ b # NoBlock
               \/ \E t \in Threads, c \in Classes, k \in Banks : b \in BlksIn(cache'[t][c][k])
        PROVE  \E x \in Spots : b \in Whereabouts'[x]
    <3>1. CASE b \in held' \/ b \in lost' \/ \E s \in Slots : b \in Returned(s)'
      <4>1. b \in Whereabouts'[<<"held">>] \/ b \in Whereabouts'[<<"lost">>]
              \/ b \in Whereabouts'[<<"back">>]
        BY <3>1, WhereIsNext
      <4>2. QED BY <4>1, SpotsAre
    <3>2. CASE \E t \in Threads : my'[t].blk = b /\ b # NoBlock
      <4>1. PICK t \in Threads : b \in Whereabouts'[<<"hand", t>>]
        BY <3>2, WhereIsNext
      <4>2. QED BY <4>1, SpotsAre
    <3>3. CASE \E t \in Threads, c \in Classes, k \in Banks : b \in BlksIn(cache'[t][c][k])
      <4>1. PICK t \in Threads, c \in Classes, k \in Banks : b \in Whereabouts'[<<"bank", t, c, k>>]
        BY <3>3, WhereIsNext
      <4>2. QED BY <4>1, SpotsAre
    <3>4. QED BY <2>2, <3>1, <3>2, <3>3
  <2>3. QED BY <2>1, <2>2 DEF Union
<1>4. QED BY <1>1, <1>2, <1>3

(* The spots a step does not touch.                                         *)
LEMMA Elsewhere ==
  ASSUME NEW X,
         <<"held">> \in X \/ held' = held, <<"lost">> \in X \/ lost' = lost,
         <<"back">> \in X \/ \A s \in Slots : Returned(s)' = Returned(s),
         \A t \in Threads : <<"hand", t>> \in X \/ my'[t].blk = my[t].blk,
         \A t \in Threads, c \in Classes, k \in Banks :
           <<"bank", t, c, k>> \in X \/ cache'[t][c][k] = cache[t][c][k]
  PROVE  \A x \in Spots \ X : Whereabouts'[x] = Whereabouts[x]
<1> SUFFICES ASSUME NEW x \in Spots \ X PROVE Whereabouts'[x] = Whereabouts[x]
  OBVIOUS
<1>1. CASE x = <<"held">> \/ x = <<"lost">>
  BY <1>1, WhereIs, WhereIsNext
<1>2. CASE x = <<"back">>
  BY <1>2, WhereIs, WhereIsNext
<1>3. CASE \E t \in Threads : x = <<"hand", t>>
  <2>1. PICK t \in Threads : x = <<"hand", t>>
    BY <1>3
  <2>2. QED BY ZenonT(60), <2>1, WhereIs, WhereIsNext
<1>4. CASE \E t \in Threads, c \in Classes, k \in Banks : x = <<"bank", t, c, k>>
  <2>1. PICK t \in Threads, c \in Classes, k \in Banks : x = <<"bank", t, c, k>>
    BY <1>4
  <2>2. QED BY <2>1, WhereIs, WhereIsNext
<1>5. QED BY <1>1, <1>2, <1>3, <1>4, SpotsAre

LEMMA Shift ==
  ASSUME NEW f, NEW g, Apart(f), NEW p \in Spots, NEW q \in Spots, p # q, NEW b \in f[p],
         g[p] = f[p] \ {b}, g[q] = f[q] \union {b},
         \A x \in Spots \ {p, q} : g[x] = f[x]
  PROVE  Apart(g) /\ Union(g) = Union(f)
<1>1. \A x \in Spots : x # p => b \notin f[x]
  BY DEF Apart
<1>2. \A x \in Spots : /\ x # q => g[x] = f[x] \ {b}
                       /\ g[q] = (f[q] \ {b}) \union {b}
  BY <1>1
<1>3. Apart(g)
  <2>1. SUFFICES ASSUME NEW x \in Spots, NEW y \in Spots, x # y PROVE g[x] \cap g[y] = {}
    BY DEF Apart
  <2>2. f[x] \cap f[y] = {}
    BY <2>1 DEF Apart
  <2>3. QED BY <1>2, <2>1, <2>2
<1>4. Union(g) = Union(f)
  <2>1. ASSUME NEW x \in Spots, NEW c \in g[x] PROVE c \in Union(f)
    BY <1>2, <2>1 DEF Union
  <2>2. ASSUME NEW x \in Spots, NEW c \in f[x] PROVE c \in Union(g)
    <3>1. CASE c = b
      BY <3>1 DEF Union
    <3>2. CASE c # b
      BY <1>2, <2>2, <3>2 DEF Union
    <3>3. QED BY <3>1, <3>2
  <2>3. QED BY <2>1, <2>2 DEF Union
<1>5. QED BY <1>3, <1>4

(* Blocks leave the heap from one spot; one comes into it.                  *)
Drains(f, g, p, D) ==
  /\ Apart(f) /\ p \in Spots /\ D \subseteq f[p]
  /\ g[p] = f[p] \ D /\ \A x \in Spots \ {p} : g[x] = f[x]
Gains(f, g, q, b) ==
  /\ Apart(f) /\ q \in Spots /\ b \notin Union(f)
  /\ g[q] = f[q] \union {b} /\ \A x \in Spots \ {q} : g[x] = f[x]

LEMMA Leave ==
  ASSUME NEW f, NEW g, NEW p, NEW D, Drains(f, g, p, D)
  PROVE  Apart(g) /\ Union(g) = Union(f) \ D
<1>1. \A x \in Spots : x # p => f[x] \cap D = {}
  BY DEF Drains, Apart
<1>2. \A x \in Spots : g[x] = f[x] \ D
  BY <1>1 DEF Drains
<1>3. Apart(g)
  BY <1>2 DEF Drains, Apart
<1>4. Union(g) = Union(f) \ D
  BY <1>2 DEF Union
<1>5. QED BY <1>3, <1>4

LEMMA Enter ==
  ASSUME NEW f, NEW g, NEW q, NEW b, Gains(f, g, q, b)
  PROVE  Apart(g) /\ Union(g) = Union(f) \union {b}
<1>1. \A x \in Spots : b \notin f[x]
  BY DEF Gains, Union
<1>2. Apart(g)
  <2>1. SUFFICES ASSUME NEW x \in Spots, NEW y \in Spots, x # y PROVE g[x] \cap g[y] = {}
    BY DEF Apart
  <2>2. f[x] \cap f[y] = {}
    BY <2>1 DEF Gains, Apart
  <2>3. QED BY <1>1, <2>1, <2>2 DEF Gains
<1>3. Union(g) = Union(f) \union {b}
  BY DEF Gains, Union
<1>4. QED BY <1>2, <1>3

LEMMA Stay ==
  ASSUME NEW f, NEW g, Apart(f), \A x \in Spots : g[x] = f[x]
  PROVE  Apart(g) /\ Union(g) = Union(f)
BY DEF Apart, Union
-----------------------------------------------------------------------------
(* Banks and the lists of slabs *)

LEMMA DistinctAppend ==
  ASSUME NEW S, NEW l \in Seq(S), NEW x, Distinct(l), x \notin Members(l)
  PROVE  Distinct(Append(l, x))
<1> DEFINE a == Append(l, x)
<1>1. Len(l) \in Nat /\ DOMAIN l = 1 .. Len(l)
  OBVIOUS
<1>2. l \in Seq(S \union {x}) /\ x \in S \union {x}
  OBVIOUS
<1>3. /\ DOMAIN a = 1 .. Len(l) + 1 /\ \A j \in 1 .. Len(l) : a[j] = l[j]
      /\ a[Len(l) + 1] = x
  BY <1>2
<1> HIDE DEF a
<1>4. \A i, j \in DOMAIN a : a[i] = a[j] => i = j
  <2>1. SUFFICES ASSUME NEW i \in DOMAIN a, NEW j \in DOMAIN a, a[i] = a[j] PROVE i = j
    OBVIOUS
  <2>2. \A k \in DOMAIN a : k = Len(l) + 1 \/ (k \in DOMAIN l /\ a[k] = l[k] /\ a[k] # x)
    BY <1>1, <1>3 DEF Members
  <2>3. CASE i = Len(l) + 1
    BY <1>3, <2>1, <2>2, <2>3
  <2>4. CASE j = Len(l) + 1
    BY <1>3, <2>1, <2>2, <2>4
  <2>5. CASE i # Len(l) + 1 /\ j # Len(l) + 1
    BY <2>1, <2>2, <2>5 DEF Distinct
  <2>6. QED BY <2>3, <2>4, <2>5
<1>5. QED BY <1>4 DEF Distinct, a

LEMMA DistinctTail ==
  ASSUME NEW S, NEW l \in Seq(S), l # <<>>, Distinct(l)
  PROVE  Distinct(Tail(l)) /\ Members(Tail(l)) = Members(l) \ {Front(l)}
<1>1. Len(l) \in Nat \ {0} /\ DOMAIN l = 1 .. Len(l)
  OBVIOUS
<1> DEFINE u == Tail(l)
<1>2. u \in Seq(S) /\ DOMAIN u = 1 .. Len(l) - 1 /\ \A j \in 1 .. Len(l) - 1 : u[j] = l[j + 1]
  BY <1>1
<1>3. Front(l) = l[1] /\ 1 \in DOMAIN l
  BY <1>1 DEF Front
<1> HIDE DEF u
<1>4. \A j \in DOMAIN u : j + 1 \in DOMAIN l /\ u[j] = l[j + 1] /\ j \in Nat /\ j + 1 # 1
  BY <1>1, <1>2
<1>5. Distinct(u)
  <2>1. SUFFICES ASSUME NEW i \in DOMAIN u, NEW j \in DOMAIN u, u[i] = u[j] PROVE i = j
    BY DEF Distinct
  <2>2. i + 1 = j + 1
    BY <1>4, <2>1 DEF Distinct
  <2>3. QED BY <1>4, <2>2
<1>6. ASSUME NEW x \in Members(u)
      PROVE  x \in Members(l) \ {Front(l)}
  <2>1. PICK j \in DOMAIN u : u[j] = x
    BY DEF Members
  <2>2. l[j + 1] # l[1]
    BY <1>3, <1>4 DEF Distinct
  <2>3. QED BY <1>3, <1>4, <2>1, <2>2 DEF Members
<1>7. ASSUME NEW x \in Members(l) \ {Front(l)}
      PROVE  x \in Members(u)
  <2>1. PICK j \in DOMAIN l : l[j] = x
    BY DEF Members
  <2>2. j # 1
    BY <1>3, <2>1
  <2>3. j - 1 \in DOMAIN u /\ (j - 1) + 1 = j
    BY <1>1, <1>2, <2>2
  <2>4. u[j - 1] = x
    BY <1>4, <2>1, <2>3
  <2>5. QED BY <2>3, <2>4 DEF Members
<1>8. QED BY <1>5, <1>6, <1>7 DEF u

LEMMA BankPut ==
  ASSUME NEW E, NEW l \in Seq(E), NEW e \in E, NoTwice(l), e.blk \notin BlksIn(l)
  PROVE  /\ Append(l, e) \in Seq(E) /\ NoTwice(Append(l, e))
         /\ BlksIn(Append(l, e)) = BlksIn(l) \union {e.blk}
         /\ Members(Append(l, e)) = Members(l) \union {e}
         /\ Append(l, e) # <<>>
<1> DEFINE a == Append(l, e)
<1>1. Len(l) \in Nat /\ DOMAIN l = 1 .. Len(l)
  OBVIOUS
<1>2. /\ a \in Seq(E) /\ DOMAIN a = 1 .. Len(l) + 1
      /\ \A j \in 1 .. Len(l) : a[j] = l[j]
      /\ a[Len(l) + 1] = e
  OBVIOUS
<1> HIDE DEF a
<1>3. \A k \in DOMAIN a :
         k = Len(l) + 1 \/ (k \in DOMAIN l /\ a[k] = l[k] /\ a[k].blk # e.blk)
  BY <1>1, <1>2 DEF BlksIn
<1>4. NoTwice(a)
  <2>1. SUFFICES ASSUME NEW i \in DOMAIN a, NEW j \in DOMAIN a, a[i].blk = a[j].blk PROVE i = j
    BY DEF NoTwice
  <2>2. CASE i = Len(l) + 1
    BY <1>2, <1>3, <2>1, <2>2
  <2>3. CASE j = Len(l) + 1
    BY <1>2, <1>3, <2>1, <2>3
  <2>4. CASE i # Len(l) + 1 /\ j # Len(l) + 1
    BY <1>3, <2>1, <2>4 DEF NoTwice
  <2>5. QED BY <2>2, <2>3, <2>4
<1>5. BlksIn(a) = BlksIn(l) \union {e.blk}
  <2>1. \A j \in DOMAIN l : j \in DOMAIN a /\ a[j] = l[j]
    BY <1>1, <1>2
  <2>2. Len(l) + 1 \in DOMAIN a /\ a[Len(l) + 1] = e
    BY <1>1, <1>2
  <2>3. QED BY <1>2, <1>3, <2>1, <2>2 DEF BlksIn
<1>6. Members(a) = Members(l) \union {e} /\ a # <<>>
  BY AppendIn DEF a
<1>7. QED BY <1>2, <1>4, <1>5, <1>6 DEF a

LEMMA BankPop ==
  ASSUME NEW E, NEW l \in Seq(E), l # <<>>, NoTwice(l)
  PROVE  /\ Shorter(l) \in Seq(E) /\ NoTwice(Shorter(l)) /\ Len(Shorter(l)) = Len(l) - 1
         /\ BlksIn(Shorter(l)) = BlksIn(l) \ {l[Len(l)].blk} /\ l[Len(l)].blk \in BlksIn(l)
         /\ Members(Shorter(l)) \subseteq Members(l) /\ l[Len(l)] \in Members(l)
<1>1. Len(l) \in Nat \ {0} /\ DOMAIN l = 1 .. Len(l)
  OBVIOUS
<1> DEFINE u == SubSeq(l, 1, Len(l) - 1)
<1>2. u \in Seq(E) /\ DOMAIN u = 1 .. Len(l) - 1 /\ \A j \in 1 .. Len(l) - 1 : u[j] = l[j]
  BY <1>1
<1>3. u = Shorter(l)
  BY DEF Shorter
<1> HIDE DEF u
<1>4. \A j \in DOMAIN u : j \in DOMAIN l /\ u[j] = l[j] /\ j # Len(l)
  BY <1>1, <1>2
<1>5. Len(l) \in DOMAIN l /\ \A j \in DOMAIN l : j = Len(l) \/ j \in DOMAIN u
  BY <1>1, <1>2
<1>6. NoTwice(u)
  BY <1>4 DEF NoTwice
<1>7. BlksIn(u) = BlksIn(l) \ {l[Len(l)].blk} /\ l[Len(l)].blk \in BlksIn(l)
  <2>1. \A j \in DOMAIN u : l[j].blk # l[Len(l)].blk
    BY <1>4, <1>5 DEF NoTwice
  <2>2. QED BY <1>4, <1>5, <2>1 DEF BlksIn
<1>8. QED BY <1>3, <1>6, <1>7, ShorterIn

LEMMA BankTail ==
  ASSUME NEW E, NEW l \in Seq(E), l # <<>>, NoTwice(l)
  PROVE  /\ Tail(l) \in Seq(E) /\ NoTwice(Tail(l))
         /\ BlksIn(Tail(l)) = BlksIn(l) \ {Front(l).blk} /\ Front(l).blk \in BlksIn(l)
         /\ Members(Tail(l)) \subseteq Members(l) /\ Front(l) \in Members(l)
<1>1. Len(l) \in Nat \ {0} /\ DOMAIN l = 1 .. Len(l)
  OBVIOUS
<1> DEFINE u == Tail(l)
<1>2. u \in Seq(E) /\ DOMAIN u = 1 .. Len(l) - 1 /\ \A j \in 1 .. Len(l) - 1 : u[j] = l[j + 1]
  BY <1>1
<1>3. Front(l) = l[1] /\ 1 \in DOMAIN l
  BY <1>1 DEF Front
<1> HIDE DEF u
<1>4. \A j \in DOMAIN u : j + 1 \in DOMAIN l /\ u[j] = l[j + 1] /\ j \in Nat /\ j + 1 # 1
  BY <1>1, <1>2
<1>5. NoTwice(u)
  <2>1. SUFFICES ASSUME NEW i \in DOMAIN u, NEW j \in DOMAIN u, u[i].blk = u[j].blk PROVE i = j
    BY DEF NoTwice
  <2>2. i + 1 = j + 1
    BY <1>4, <2>1 DEF NoTwice
  <2>3. QED BY <1>4, <2>2
<1>6. BlksIn(u) = BlksIn(l) \ {Front(l).blk} /\ Front(l).blk \in BlksIn(l)
  <2>1. \A j \in DOMAIN u : u[j].blk # l[1].blk
    BY <1>3, <1>4 DEF NoTwice
  <2>2. \A j \in DOMAIN l : j = 1 \/ (j - 1 \in DOMAIN u /\ u[j - 1] = l[j])
    <3>1. SUFFICES ASSUME NEW j \in DOMAIN l, j # 1 PROVE j - 1 \in DOMAIN u /\ u[j - 1] = l[j]
      OBVIOUS
    <3>2. j - 1 \in DOMAIN u /\ (j - 1) + 1 = j
      BY <1>1, <1>2, <3>1
    <3>3. QED BY <1>4, <3>2
  <2>3. QED BY <1>3, <1>4, <2>1, <2>2 DEF BlksIn
<1>7. Members(u) \subseteq Members(l) /\ Front(l) \in Members(l)
  BY TailIn DEF u
<1>8. QED BY <1>2, <1>5, <1>6, <1>7 DEF u
-----------------------------------------------------------------------------
(* What a step leaves as it was *)

LEMMA GoodTypes ==
  ASSUME Types
  PROVE  /\ \A s \in Slots : v[s] \in Vslabs
         /\ \A t \in Threads : my[t] \in Works
         /\ \A t \in Threads, c \in Classes, k \in Banks : cache[t][c][k] \in Seq(Entries)
BY DEF Types

LEMMA WorkType ==
  ASSUME NEW w \in Works
  PROVE  /\ DOMAIN w = WorkFields
         /\ w.cls \in Classes /\ w.cur \in Slots \union {Root} /\ w.idx \in Int
         /\ w.blk \in Blks \union {NoBlock} /\ w.sc \in LayoutSet /\ w.scb \in LayoutSet
        /\ w.val \in Int
         /\ w.next \in Pcs /\ w.old \subseteq Indices /\ w.then \in {"idle", "putback"}
BY DEF Works, WorkFields

LEMMA PlainType ==
  /\ \A c \in Classes : Plain(c) \in LayoutSet
  /\ NoWork \in Works /\ NoBlock \notin Blks /\ NoWork.blk = NoBlock /\ NoWork.cur = Root
  /\ \A c \in Classes : NewSlab(c) \in Vslabs
  /\ NoSlab \in Vslabs
<1>1. ASSUME NEW c \in Classes
      PROVE  Plain(c) \in LayoutSet
  <2>1. Header \in 1 .. SlabSize - 1
    BY SlabsAssumption
  <2>2. QED BY <2>1 DEF Plain, LayoutSet
<1>2. AnyClass \in Classes
  BY Names
<1>3. NoBlock \notin Blks
  BY Names DEF NoBlock, Blks
<1>4. NoWork \in Works
  <2>1. "idle" \in Pcs /\ 0 \in Int
    BY DEF Pcs
  <2>2. Plain(AnyClass) \in LayoutSet
    BY <1>1, <1>2
  <2>3. QED BY <1>2, <2>1, <2>2 DEF NoWork, Works
<1>5. \A c \in Classes : NewSlab(c) \in Vslabs
  <2>1. SUFFICES ASSUME NEW c \in Classes PROVE NewSlab(c) \in Vslabs
    OBVIOUS
  <2>2. Plain(c) \in LayoutSet /\ [i \in Indices |-> 0] \in [Indices -> Nat]
    BY <1>1
  <2>3. QED BY <2>2 DEF NewSlab, Vslabs
<1>6. NoSlab \in Vslabs
  <2>1. NewSlab(AnyClass) \in Vslabs
    BY <1>2, <1>5
  <2> HIDE DEF NewSlab
  <2>2. QED BY <2>1 DEF NoSlab, Vslabs
<1>7. QED BY <1>1, <1>3, <1>4, <1>5, <1>6 DEF NoWork

LEMMA NewSlabIs ==
  /\ \A c \in Classes :
       /\ NewSlab(c).live /\ NewSlab(c).numb = 0 /\ NewSlab(c).used = {} /\ NewSlab(c).nbits = 0
       /\ NewSlab(c).dnum = [i \in Indices |-> 0] /\ NewSlab(c).rb = {} /\ ~NewSlab(c).rdirty
       /\ NewSlab(c).sc.cls = c
  /\ ~NoSlab.live /\ NoSlab.numb = 0 /\ NoSlab.used = {} /\ NoSlab.nbits = 0
  /\ NoSlab.dnum = [i \in Indices |-> 0] /\ NoSlab.rb = {} /\ ~NoSlab.rdirty
BY DEF NoSlab, NewSlab, Plain, Fit

(* The threads that are morphing go on doing so.                            *)
Unmoved ==
  \A u \in Threads :
    /\ pc'[u] \in InMorph <=> pc[u] \in InMorph
    /\ pc[u] \in InMorph => pc'[u] = pc[u] /\ my'[u] = my[u]

LEMMA StepsUnmoved ==
  ASSUME NEW t \in Threads, Steps(t), pc[t] \notin InMorph, pc'[t] \notin InMorph
  PROVE  Unmoved
BY DEF Steps, Unmoved

LEMMA NotInMorph ==
  ASSUME Locks, NEW s \in Slots, NEW t, slabLock[s] \in {None, t},
         t \in Threads => pc[t] \notin InMorph
  PROVE  \A u \in Threads : pc[u] \in InMorph => my[u].cur # s
<1> SUFFICES ASSUME NEW u \in Threads, pc[u] \in InMorph, my[u].cur = s PROVE FALSE
  OBVIOUS
<1>1. slabLock[s] = u
  BY DEF Locks, ThreadOK, InMorph, WithSlab
<1>2. QED BY <1>1, Names

LEMMA MorphCur ==
  ASSUME Locks, NEW u \in Threads, pc[u] \in InMorph
  PROVE  my[u].cur \in Slots /\ slabLock[my[u].cur] = u
BY DEF Locks, ThreadOK, InMorph, OnSlab, WithSlab

LEMMA SlabwiseStep ==
  ASSUME Slabwise, Morphing, Locks, Unmoved,
         \A s \in Slots :
           \/ v'[s] = v[s] /\ Of(s)' = Of(s)
           \/ /\ \A u \in Threads : pc[u] \in InMorph => my[u].cur # s
              /\ Exact(s, v'[s], Of(s)')
  PROVE  Slabwise' /\ Morphing'
<1>1. \A u \in Threads : Morphs(u)' <=> Morphs(u)
  BY DEF Unmoved, Morphs, InMorph
<1>2. \A u \in Threads : Morphs(u) => pc[u] \in InMorph
  BY DEF Morphs, InMorph
<1>3. ASSUME NEW s \in Slots, \A u \in Threads : Morphs(u)' => my'[u].cur # s
      PROVE  Exact(s, v'[s], Of(s)')
  <2>1. \A u \in Threads : Morphs(u) => my[u].cur # s
    BY <1>1, <1>2, <1>3 DEF Unmoved
  <2>2. Exact(s, v[s], Of(s))
    BY <2>1 DEF Slabwise
  <2>3. QED BY <2>2
<1>4. Slabwise'
  BY <1>3 DEF Slabwise
<1>5. ASSUME NEW u \in Threads
      PROVE  MorphOK(u)'
  <2>1. CASE pc[u] \notin InMorph
    <3>1. ~Morphs(u)' /\ pc'[u] # "unbin"
      BY <1>1, <1>2, <2>1 DEF Unmoved, InMorph
    <3>2. QED BY <3>1 DEF MorphOK
  <2>2. CASE pc[u] \in InMorph
    <3>1. my[u].cur \in Slots
      BY <2>2, MorphCur
    <3> DEFINE s == my[u].cur
    <3>2. my'[u] = my[u] /\ pc'[u] = pc[u] /\ v'[s] = v[s] /\ Of(s)' = Of(s)
      BY <2>2, <3>1 DEF Unmoved
    <3>3. Morphs(u)' <=> Morphs(u)
      BY <1>1
    <3>4. MorphOK(u)
      BY DEF Morphing
    <3> DEFINE w == my[u]
    <3>5. /\ Morphs(u) => /\ Moving(s, v[s], Of(s), w.old)
                          /\ w.sc = v[s].scb /\ w.cls = v[s].sc.cls
          /\ pc[u] = "unbin" => v[s].used = w.old /\ v[s].rdirty = FALSE
      BY <3>4 DEF MorphOK
    <3>6. PICK x : x = s
      OBVIOUS
    <3>7. Of(x)' = Of(x) /\ v'[x] = v[x]
      BY <3>2, <3>6
    <3>8. Morphs(u)' => /\ Moving(x, v'[x], Of(x)', w.old)
                        /\ w.sc = v'[x].scb /\ w.cls = v'[x].sc.cls
      BY <3>3, <3>5, <3>6, <3>7
    <3>9. pc'[u] = "unbin" => v'[x].used = w.old /\ v'[x].rdirty = FALSE
      BY <3>2, <3>5, <3>6, <3>7
    <3>10. my'[u].cur = x /\ my'[u] = w
      BY <3>2, <3>6
    <3> HIDE DEF w, s
    <3>11. QED BY <3>8, <3>9, <3>10 DEF MorphOK, Of
  <2>3. QED BY <2>1, <2>2
<1>6. QED BY <1>4, <1>5 DEF Morphing
(* All threads but t stay where they are; the flusher is no thread.         *)
Others(t) == \A u \in Threads \ {t} : pc'[u] = pc[u] /\ my'[u] = my[u]

LEMMA HandsStep ==
  ASSUME Hands, NEW t, Others(t), t \in Threads => HandOK(t)'
  PROVE  Hands'
<1>1. ASSUME NEW u \in Threads \ {t}
      PROVE  HandOK(u)'
  <2>1. HandOK(u) /\ pc'[u] = pc[u] /\ my'[u] = my[u]
    BY DEF Hands, Others
  <2>2. QED BY <2>1 DEF HandOK
<1>2. QED BY <1>1 DEF Hands

LEMMA AliveStep ==
  ASSUME Alive, Locks, NEW t, Others(t), t \in Threads => OnLive(t)',
         \A s \in Slots : v'[s] = v[s] \/ v'[s].live
  PROVE  Alive'
<1>1. \A s \in Slots : ~v'[s].live => v'[s] = NoSlab
  BY DEF Alive
<1>2. ASSUME NEW u \in Threads \ {t}
      PROVE  OnLive(u)'
  <2>1. OnLive(u) /\ pc'[u] = pc[u] /\ my'[u] = my[u]
    BY DEF Alive, Others
  <2>2. pc[u] \in OnSlab => my[u].cur \in Slots
    BY DEF Locks, ThreadOK
  <2>3. PICK x : x = my[u].cur
    OBVIOUS
  <2>4. pc[u] \in OnSlab => v'[x].live
    BY <2>1, <2>2, <2>3 DEF OnLive
  <2>5. QED BY <2>1, <2>3, <2>4 DEF OnLive
<1>3. QED BY <1>1, <1>2 DEF Alive

LEMMA AgedFrame ==
  ASSUME Aged, NEW t, Others(t), Distinct(lru'), \A s \in Members(lru') : Listed(s)',
         t \in Threads => Walks(t)' /\ Alone(t)',
         \A u \in Threads \ {t} :
           /\ pc[u] \in {"walk", "seize", "unbin"} /\ my[u].cur \in Members(lru)
                => my[u].cur \in Members(lru')
           /\ pc[u] = "seize" => v'[my[u].cur].sc.cls = v[my[u].cur].sc.cls
           /\ Leaving(u) => my[u].cur \notin Members(lru') /\ v'[my[u].cur].numb = 0
  PROVE  Aged'
<1>1. ASSUME NEW u \in Threads \ {t}
      PROVE  Walks(u)'
  <2>1. Walks(u) /\ pc'[u] = pc[u] /\ my'[u] = my[u]
    BY DEF Aged, Others
  <2> DEFINE w == my[u]
  <2>2. PICK x : x = w.cur
    OBVIOUS
  <2>3. Leaving(u)' <=> Leaving(u)
    BY <2>1 DEF Leaving
  <2>4. Leaving(u) => x \notin Members(lru') /\ v'[x].numb = 0
    BY <2>2
  <2>5. pc[u] = "seize" => v'[x].sc.cls # w.cls
    BY <2>1, <2>2 DEF Walks
  <2>6. /\ pc[u] = "walk" => w.cur \in Members(lru') \union {Root}
        /\ pc[u] \in {"seize", "unbin"} => w.cur \in Members(lru')
        /\ pc[u] \in {"unlink", "check"} => w.next \in {"check", "drop"}
    BY <2>1 DEF Walks
  <2>7. my'[u] = w /\ pc'[u] = pc[u] /\ my'[u].cur = x
    BY <2>1, <2>2
  <2> HIDE DEF w
  <2>8. QED BY <2>3, <2>4, <2>5, <2>6, <2>7 DEF Walks
<1>2. ASSUME NEW u \in Threads \ {t}
      PROVE  Alone(u)'
  <2>1. SUFFICES ASSUME Leaving(u)', NEW z \in Threads \ {u}, Leaving(z)' PROVE my'[z].cur # my'[u].cur
    BY DEF Alone
  <2>2. pc'[u] = pc[u] /\ my'[u] = my[u] /\ Leaving(u) /\ Alone(u)
    BY <2>1 DEF Others, Leaving, Aged
  <2>3. CASE z = t
    BY <2>1, <2>3 DEF Alone
  <2>4. CASE z # t
    <3>1. pc'[z] = pc[z] /\ my'[z] = my[z] /\ Leaving(z)
      BY <2>1, <2>4 DEF Others, Leaving
    <3>2. QED BY <2>2, <3>1 DEF Alone
  <2>5. QED BY <2>3, <2>4
<1>3. QED BY <1>1, <1>2 DEF Aged

LEMMA AgedStep ==
  ASSUME Aged, Locks, NEW t, Others(t), Distinct(lru'), Members(lru') = Members(lru),
         t \in Threads => Walks(t)' /\ Alone(t)' /\ pc[t] # "unbin",
         \A s \in Slots :
           \/ /\ v'[s].live = v[s].live /\ v'[s].numb = v[s].numb
              /\ v'[s].sc.cls = v[s].sc.cls
           \/ /\ v'[s].sc.cls = v[s].sc.cls /\ s \notin Members(lru)
              /\ \A u \in Threads \ {t} : Leaving(u) => my[u].cur # s,
         lru \in Seq(Slots)
  PROVE  Aged'
<1>1. Members(lru) \subseteq Slots
  BY DEF Members
<1>2. ASSUME NEW s \in Members(lru)
      PROVE  Listed(s)'
  <2>1. Listed(s)
    BY DEF Aged
  <2>2. v'[s].live = v[s].live /\ v'[s].numb = v[s].numb
    BY <1>1
  <2>3. CASE v[s].numb = 0
    BY <2>1, <2>2, <2>3 DEF Listed
  <2>4. CASE \E u \in Threads : pc[u] = "unbin" /\ my[u].cur = s
    <3>1. PICK u \in Threads : pc[u] = "unbin" /\ my[u].cur = s
      BY <2>4
    <3>2. u # t
      BY <3>1
    <3>3. pc'[u] = "unbin" /\ my'[u].cur = s
      BY <3>1, <3>2 DEF Others
    <3>4. QED BY <2>1, <2>2, <3>3 DEF Listed
  <2>5. QED BY <2>1, <2>3, <2>4 DEF Listed
<1>3. ASSUME NEW u \in Threads \ {t}
      PROVE  /\ pc[u] = "seize" => v'[my[u].cur].sc.cls = v[my[u].cur].sc.cls
             /\ Leaving(u) => my[u].cur \notin Members(lru') /\ v'[my[u].cur].numb = 0
  <2>1. (pc[u] = "seize" \/ Leaving(u)) => my[u].cur \in Slots
    BY DEF Locks, ThreadOK, OnSlab, Leaving
  <2>2. Leaving(u) => my[u].cur \notin Members(lru) /\ v[my[u].cur].numb = 0
    BY DEF Aged, Walks
  <2>3. Leaving(u) => v'[my[u].cur].numb = v[my[u].cur].numb
    BY <2>1
  <2>4. QED BY <2>1, <2>2, <2>3
<1>4. QED BY <1>2, <1>3, AgedFrame

LEMMA RemoteStep ==
  ASSUME Remote, NEW t, Others(t), numaList' = numaList, numaList \in Seq(Slots),
         t \in Threads => pc[t] # "enlist",
         \A s \in Slots : \/ v'[s] = v[s]
                          \/ v'[s].rb = v[s].rb /\ v'[s].rdirty = v[s].rdirty /\ v'[s].live
  PROVE  Remote'
<1>1. Members(numaList) \subseteq Slots
  BY DEF Members
<1>2. \A s \in Members(numaList) : v'[s].live
  BY <1>1 DEF Remote
<1>3. ASSUME NEW s \in Slots
      PROVE  Dirty(s)'
  <2>1. Dirty(s) /\ v'[s].rb = v[s].rb /\ v'[s].rdirty = v[s].rdirty
    BY DEF Remote
  <2>2. (\E u \in Threads : pc[u] = "enlist" /\ my[u].cur = s)
          => \E u \in Threads : pc'[u] = "enlist" /\ my'[u].cur = s
    BY DEF Others
  <2>3. QED BY <2>1, <2>2 DEF Dirty
<1>4. QED BY <1>2, <1>3 DEF Remote

LEMMA FillStep ==
  ASSUME Filling, NEW t, Others(t), t \in Threads => FillOK(t)',
         \A u \in Threads \ {t} : cache'[u] = cache[u]
  PROVE  Filling'
<1>1. ASSUME NEW u \in Threads \ {t}
      PROVE  FillOK(u)'
  <2>1. FillOK(u) /\ pc'[u] = pc[u] /\ my'[u] = my[u] /\ cache'[u] = cache[u]
    BY DEF Filling, Others
  <2>2. Ready(u)' <=> Ready(u)
    BY <2>1 DEF Ready
  <2>3. QED BY <2>1, <2>2 DEF FillOK
<1>2. QED BY <1>1 DEF Filling

LEMMA BinsStep ==
  ASSUME Bins, Locks, NEW t, Others(t), bin' = bin, DOMAIN now' = Classes,
         \A c \in Classes : now'[c] = now[c] \/ now'[c] \in Members(bin[c]) \union {Root},
         t \in Threads => BinOK(t)',
         \A s \in Slots : v'[s] = v[s] \/ v'[s].live
  PROVE  Bins'
<1>1. \A c \in Classes : Members(bin[c]) \subseteq Slots
  BY DEF Bins, Members
<1>2. \A c \in Classes : \A s \in Members(bin[c]) : v'[s].live
  BY <1>1 DEF Bins
<1>3. ASSUME NEW u \in Threads \ {t}
      PROVE  BinOK(u)'
  <2>1. BinOK(u) /\ pc'[u] = pc[u] /\ my'[u] = my[u]
    BY DEF Bins, Others
  <2>2. AtBin(u)' <=> AtBin(u)
    BY <2>1 DEF AtBin
  <2>3. AtBin(u)' => my'[u].cur \in Members(bin'[my'[u].cls])
    BY <2>1, <2>2 DEF BinOK
  <2>4. ASSUME pc'[u] = "insert"
        PROVE  /\ v'[my'[u].cur].live
               /\ \A c \in Classes : my'[u].cur \notin Members(bin'[c])
    <3>1. my[u].cur \in Slots /\ v[my[u].cur].live
            /\ \A c \in Classes : my[u].cur \notin Members(bin[c])
      BY ZenonT(60), <2>1, <2>4 DEF BinOK, Locks, ThreadOK, OnSlab
    <3>2. QED BY <2>1, <3>1
  <2>5. ASSUME pc'[u] = "insert", NEW z \in Threads \ {u}, pc'[z] = "insert"
        PROVE  my'[z].cur # my'[u].cur
    <3>1. CASE z = t
      BY <2>5, <3>1 DEF BinOK
    <3>2. CASE z # t
      BY <2>1, <2>5, <3>2 DEF BinOK, Others
    <3>3. QED BY <3>1, <3>2
  <2> DEFINE w == my'[u]
  <2>6. PICK x : x = w.cur
    OBVIOUS
  <2>7. AtBin(u)' => x \in Members(bin'[w.cls])
    BY <2>3, <2>6
  <2>8. pc'[u] = "insert" => /\ v'[x].live /\ \A c \in Classes : x \notin Members(bin'[c])
                             /\ \A z \in Threads \ {u} : pc'[z] = "insert" => my'[z].cur # x
    BY <2>4, <2>5, <2>6
  <2>9. QED BY <2>6, <2>7, <2>8 DEF BinOK
<1>4. QED BY <1>2, <1>3 DEF Bins

LEMMA UnbinnedStep ==
  ASSUME Unbinned, NEW t, Others(t), bin' = bin, t \in Threads => pc[t] # "insert",
         \A s \in Slots : \/ v'[s] = v[s] \/ v'[s].nbits = 0
                          \/ ~NoBin(s)
                          \/ v[s].live /\ v[s].nbits # 0
  PROVE  Unbinned'
<1> SUFFICES ASSUME NEW s \in Slots PROVE Out(s)'
  BY DEF Unbinned
<1>1. Out(s) /\ NoBin(s)' = NoBin(s)
  BY DEF Unbinned, NoBin
<1>2. (\A u \in Threads : pc'[u] = "insert" => my'[u].cur # s)
        => \A u \in Threads : pc[u] = "insert" => my[u].cur # s
  BY DEF Others
<1>3. QED BY <1>1, <1>2 DEF Out

(* No block moves.                                                          *)
LEMMA StillStep ==
  ASSUME Once, cache' = cache, held' = held, lost' = lost,
         \A u \in Threads : my'[u].blk = my[u].blk,
         \A s \in Slots : Returned(s)' = Returned(s)
  PROVE  Once' /\ \A s : Of(s)' = Of(s)
<1>1. \A x \in Spots \ {} : Whereabouts'[x] = Whereabouts[x]
  BY Elsewhere
<1>2. Apart(Whereabouts') /\ Union(Whereabouts') = Union(Whereabouts)
  BY <1>1, Stay DEF Once
<1>3. Blocks' = Blocks
  BY <1>2, Gathered
<1>4. Once'
  BY <1>2 DEF Once
<1>5. QED BY <1>3, <1>4 DEF Of

LEMMA ReturnedStep ==
  ASSUME \A s \in Slots : v'[s] = v[s] \/ (v'[s].rb = v[s].rb /\ (v'[s].sc = v[s].sc \/ v[s].rb = {}))
  PROVE  \A s \in Slots : Returned(s)' = Returned(s)
<1>1. \A s \in Slots : Returned(s)' = {Block(s, v'[s].sc, i) : i \in v'[s].rb}
  BY DEF Returned
<1>2. QED BY <1>1 DEF Returned
-----------------------------------------------------------------------------
(* Steps that leave blocks and slabs alone *)

LEMMA CalmStep ==
  ASSUME Good, Locks, NEW t \in Threads, Steps(t),
         v' = v, cache' = cache, turn' = turn, held' = held, lost' = lost,
         lru' \in Seq(Slots), lruLen' \in Int, morphLen' \in Int,
         my' \in [Threads -> Works], my'[t].blk = NoBlock,
         pc[t] \notin InMorph, pc[t] \notin InHand, pc'[t] \notin InMorph, pc'[t] \notin InHand,
         OnLive(t)', FillOK(t)'
  PROVE  /\ Types' /\ Once' /\ Hands' /\ Slabwise' /\ Morphing' /\ Alive' /\ Filling'
         /\ \A s : Of(s)' = Of(s)
<1>1. Others(t) /\ Unmoved
  BY StepsUnmoved DEF Others, Steps
<1>2. my[t].blk = NoBlock
  BY DEF Good, Hands, HandOK
<1>3. Once' /\ \A s : Of(s)' = Of(s)
  <2>1. \A u \in Threads : my'[u].blk = my[u].blk
    BY <1>1, <1>2 DEF Others
  <2>2. \A s \in Slots : Returned(s)' = Returned(s)
    BY ReturnedStep
  <2>3. QED BY <2>1, <2>2, StillStep DEF Good
<1>4. Types'
  BY DEF Good, Types
<1>5. HandOK(t)'
  <2>1. pc'[t] \notin {"unset", "new", "old", "far"}
    BY DEF InHand
  <2>2. QED BY <2>1 DEF HandOK, InHand
<1>6. Hands'
  BY <1>1, <1>5, HandsStep DEF Good
<1>7. Slabwise' /\ Morphing'
  BY <1>1, <1>3, SlabwiseStep DEF Good
<1>8. Alive'
  BY <1>1, AliveStep DEF Good
<1>9. Filling'
  BY <1>1, FillStep DEF Good
<1>10. QED BY <1>3, <1>4, <1>6, <1>7, <1>8, <1>9

Local(t) == OnLive(t) /\ Walks(t) /\ Alone(t) /\ FillOK(t) /\ BinOK(t)

LEMMA QuietStep ==
  ASSUME Good, Locks, numaList \in Seq(Slots), NEW t \in Threads, Steps(t),
         v' = v, cache' = cache, turn' = turn, held' = held, lost' = lost,
         lru' = lru, numaList' = numaList, bin' = bin,
         lruLen' \in Int, morphLen' \in Int, DOMAIN now' = Classes,
         \A c \in Classes : now'[c] = now[c] \/ now'[c] \in Members(bin[c]) \union {Root},
         my' \in [Threads -> Works], my'[t].blk = NoBlock,
         pc[t] \notin InMorph, pc[t] \notin InHand, pc'[t] \notin InMorph, pc'[t] \notin InHand,
         pc[t] \notin {"insert", "enlist"},
         Local(t)'
  PROVE  Good'
<1>1. Others(t) /\ lru \in Seq(Slots)
  BY DEF Others, Steps, Good, Types
<1>2. OnLive(t)' /\ Walks(t)' /\ Alone(t)' /\ FillOK(t)' /\ BinOK(t)'
  BY DEF Local
<1>3. Types' /\ Once' /\ Hands' /\ Slabwise' /\ Morphing' /\ Alive' /\ Filling'
  BY <1>1, <1>2, CalmStep
<1>4. Aged'
  <2>1. pc[t] # "unbin"
    BY DEF InMorph
  <2>2. Distinct(lru') /\ Members(lru') = Members(lru)
    BY DEF Good, Aged
  <2>3. QED BY <1>1, <1>2, <2>1, <2>2, AgedStep DEF Good
<1>5. Remote'
  BY <1>1, RemoteStep DEF Good
<1>6. Bins'
  BY <1>1, <1>2, BinsStep DEF Good
<1>7. Unbinned'
  BY <1>1, UnbinnedStep DEF Good
<1>8. QED BY <1>3, <1>4, <1>5, <1>6, <1>7 DEF Good

(* Nothing is asked of a thread at these places.                            *)
Elsewhen == {"idle", "take", "get", "search", "create", "freed", "drop", "putback"}

LEMMA LocalFree ==
  ASSUME NEW t \in Threads, pc'[t] \in Elsewhen,
         pc'[t] \in {"freed", "drop"} => v'[my'[t].cur].live,
         pc'[t] = "take" => FillOK(t)'
  PROVE  Local(t)'
<1>1. OnLive(t)'
  BY DEF OnLive, OnSlab, Elsewhen
<1>2. Walks(t)' /\ Alone(t)'
  BY DEF Walks, Alone, Leaving, Elsewhen
<1>3. BinOK(t)'
  BY DEF BinOK, AtBin, Elsewhen
<1>4. FillOK(t)'
  BY DEF FillOK, Ready, Elsewhen
<1>5. QED BY <1>1, <1>2, <1>3, <1>4 DEF Local

LEMMA WorkSet ==
  ASSUME Types, NEW t \in Threads, NEW w \in Works, my' = [my EXCEPT ![t] = w]
  PROVE  my' \in [Threads -> Works] /\ my'[t] = w
BY DEF Types

LEMMA PcSet ==
  ASSUME Locks, NEW t \in Threads, NEW p, pc' = [pc EXCEPT ![t] = p]
  PROVE  pc'[t] = p
BY DEF Locks

LEMMA BeSteps ==
  ASSUME Locks, Locks', NEW t \in Threads, NEW p, NEW w, Be(t, p, w) \/ (Go(t, p) /\ my' = my)
  PROVE  Steps(t)
BY DEF Locks, Be, Go, Steps
(* A step from a state that is good, with the locks in order before it and  *)
(* after it.                                                                *)
Ctx == Good /\ Locks /\ Locks' /\ numaList \in Seq(Slots)

LEMMA CtxFacts ==
  ASSUME Ctx
  PROVE  /\ Good /\ Locks /\ numaList \in Seq(Slots) /\ Types /\ lru \in Seq(Slots)
         /\ lruLen \in Int /\ morphLen \in Int
         /\ DOMAIN now = Classes /\ \A c \in Classes : bin[c] \in Seq(Slots)
         /\ \A c \in Classes : now[c] \in Members(bin[c]) \union {Root}
         /\ \A t \in Threads : /\ my[t] \in Works /\ HandOK(t) /\ MorphOK(t) /\ OnLive(t)
                               /\ Walks(t) /\ Alone(t) /\ FillOK(t) /\ BinOK(t)
                               /\ pc[t] \in OnSlab => my[t].cur \in Slots
BY DEF Ctx, Good, Types, Bins, Hands, Morphing, Alive, Aged, Filling, Locks, ThreadOK

LEMMA MallocMissGood ==
  ASSUME Ctx, NEW t \in Threads, NEW c \in Classes, MallocMiss(t, c)
  PROVE  Good'
<1> DEFINE first == IF now[c] = Root THEN Front(bin[c]) ELSE now[c]
           w == [NoWork EXCEPT !.cls = c, !.cur = first]
           p == IF first = Root THEN "get" ELSE "visit"
<1>1. pc[t] = "idle" /\ now' = [now EXCEPT ![c] = first] /\ Be(t, p, w)
  BY DEF MallocMiss
<1>2. first \in Members(bin[c]) \union {Root}
  BY CtxFacts, FrontIn
<1>3. w \in Works /\ w.blk = NoBlock /\ w.cls = c /\ w.cur = first
  <2>1. first \in Slots \union {Root}
    BY <1>2, CtxFacts DEF Members
  <2> HIDE DEF first
  <2>2. QED BY <2>1, PlainType DEF Works
<1>4. Steps(t) /\ pc'[t] = p /\ my' \in [Threads -> Works] /\ my'[t] = w
  <2> HIDE DEF w, p
  <2>1. QED BY <1>1, <1>3, CtxFacts, WorkSet, PcSet, BeSteps DEF Be, Ctx
<1>5. Local(t)'
  <2>1. CASE p = "get"
    BY <1>4, <2>1, LocalFree DEF Elsewhen
  <2>2. CASE p = "visit"
    <3>1. first \in Members(bin[c]) /\ first \in Slots
      BY <1>2, <2>2, CtxFacts DEF Members
    <3>2. v[first].live
      BY <3>1 DEF Ctx, Good, Bins
    <3>3. bin' = bin /\ v' = v
      BY DEF MallocMiss, memVars
    <3>4. OnLive(t)'
      BY <1>3, <1>4, <3>2, <3>3 DEF OnLive
    <3>5. BinOK(t)'
      BY <1>3, <1>4, <2>2, <3>1, <3>3 DEF BinOK
    <3>6. Walks(t)' /\ Alone(t)' /\ FillOK(t)'
      BY <1>4, <2>2 DEF Walks, Alone, Leaving, FillOK, Ready
    <3>7. QED BY <3>4, <3>5, <3>6 DEF Local
  <2>3. QED BY <2>1, <2>2
<1>6. p \notin InMorph /\ p \notin InHand
  BY DEF InMorph, InHand
<1>7. /\ DOMAIN now' = Classes
      /\ \A d \in Classes : now'[d] = now[d] \/ now'[d] \in Members(bin[d]) \union {Root}
  BY <1>1, <1>2, CtxFacts
<1> HIDE DEF w, p, first
<1>8. QED
  BY <1>1, <1>3, <1>4, <1>5, <1>6, <1>7, CtxFacts, QuietStep
  DEF MallocMiss, InMorph, InHand, memVars, lruVars, cacheVars, remVars

LEMMA PopNoneGood ==
  ASSUME Ctx, NEW t \in Threads, PopNone(t)
  PROVE  Good'
<1> DEFINE c == my[t].cls
           s == my[t].cur
           n == IF After(bin[c], s) = Root THEN Front(bin[c]) ELSE After(bin[c], s)
           w == [my[t] EXCEPT !.cur = IF n = now[c] THEN Root ELSE n]
           p == IF n = now[c] THEN "get" ELSE "visit"
<1>1. pc[t] \in {"pop", "visit"} /\ Be(t, p, w)
  BY DEF PopNone, AtSlab
<1>2. c \in Classes /\ s \in Slots /\ s \in Members(bin[c]) /\ bin[c] \in Seq(Slots)
      /\ my[t].blk = NoBlock
  <2>1. my[t] \in Works /\ BinOK(t) /\ HandOK(t) /\ (pc[t] \in OnSlab => s \in Slots)
    BY CtxFacts
  <2>2. c \in Classes /\ bin[c] \in Seq(Slots)
    BY <2>1, WorkType, CtxFacts
  <2>3. QED BY <1>1, <2>1, <2>2 DEF BinOK, AtBin, HandOK, InHand, OnSlab
<1>3. n \in Members(bin[c]) /\ n \in Slots
  <2>1. After(bin[c], s) = Root \/ After(bin[c], s) \in Members(bin[c])
    BY <1>2, AfterIn
  <2>2. Front(bin[c]) \in Members(bin[c])
    <3>1. bin[c] # <<>>
      BY <1>2 DEF Members
    <3>2. QED BY <1>2, <3>1, TailIn
  <2>3. Members(bin[c]) \subseteq Slots
    BY <1>2 DEF Members
  <2>4. QED BY <2>1, <2>2, <2>3
<1>4. w \in Works /\ w.blk = NoBlock /\ w.cls = c /\ (p = "visit" => w.cur = n)
  <2> DEFINE x == IF n = now[c] THEN Root ELSE n
  <2>1. x \in Slots \union {Root} /\ my[t] \in Works
    BY <1>3, CtxFacts
  <2> HIDE DEF n
  <2>2. QED BY <1>2, <2>1 DEF Works
<1>5. Steps(t) /\ pc'[t] = p /\ my' \in [Threads -> Works] /\ my'[t] = w
  <2> HIDE DEF w, p
  <2>1. QED BY <1>1, <1>4, CtxFacts, WorkSet, PcSet, BeSteps DEF Be, Ctx
<1>6. bin' = bin /\ v' = v
  BY DEF PopNone, memVars, listVars
<1>7. Local(t)'
  <2>1. CASE p = "get"
    BY <1>5, <2>1, LocalFree DEF Elsewhen
  <2>2. CASE p = "visit"
    <3>1. v[n].live
      BY <1>2, <1>3 DEF Ctx, Good, Bins
    <3> HIDE DEF n, w, p
    <3>2. OnLive(t)'
      BY <1>4, <1>5, <1>6, <2>2, <3>1 DEF OnLive
    <3>3. BinOK(t)'
      BY <1>3, <1>4, <1>5, <1>6, <2>2 DEF BinOK
    <3>4. Walks(t)' /\ Alone(t)' /\ FillOK(t)'
      BY <1>5, <2>2 DEF Walks, Alone, Leaving, FillOK, Ready
    <3>5. QED BY <3>2, <3>3, <3>4 DEF Local
  <2>3. QED BY <2>1, <2>2
<1>8. p \notin InMorph /\ p \notin InHand /\ pc[t] \notin InMorph /\ pc[t] \notin InHand
      /\ pc[t] \notin {"insert", "enlist"}
  BY <1>1 DEF InMorph, InHand
<1> HIDE DEF w, p, n, c, s
<1>9. QED
  BY <1>4, <1>5, <1>6, <1>7, <1>8, CtxFacts, QuietStep
  DEF PopNone, memVars, lruVars, cacheVars, remVars, listVars

LEMMA SetLenGood ==
  ASSUME Ctx, NEW t \in Threads, SetLen(t)
  PROVE  Good'
<1> DEFINE w == [my[t] EXCEPT !.val = 0]
           p == my[t].next
<1>1. pc[t] = "len" /\ Be(t, p, w) /\ morphLen' = my[t].val
  BY DEF SetLen
<1>2. /\ my[t] \in Works /\ BinOK(t) /\ HandOK(t) /\ OnLive(t) /\ FillOK(t)
      /\ p \in {"full", "touch", "pop", "freed"}
  BY <1>1, CtxFacts DEF Ctx, Locks, ThreadOK, AfterLen
<1>3. /\ w \in Works /\ w.blk = NoBlock /\ w.cls = my[t].cls /\ w.cur = my[t].cur
      /\ morphLen' \in Int
  <2>1. my[t].blk = NoBlock
    BY <1>1, <1>2 DEF HandOK, InHand
  <2>2. QED BY <1>1, <1>2, <2>1 DEF Works
<1>4. Steps(t) /\ pc'[t] = p /\ my' \in [Threads -> Works] /\ my'[t] = w
  <2> HIDE DEF w, p
  <2>1. QED BY <1>1, <1>3, CtxFacts, WorkSet, PcSet, BeSteps DEF Be, Ctx
<1>5. bin' = bin /\ v' = v /\ cache' = cache
  BY DEF SetLen, memVars, listVars, cacheVars
<1>6. Local(t)'
  <2> HIDE DEF w
  <2>1. OnLive(t)'
    BY <1>1, <1>2, <1>3, <1>4, <1>5 DEF OnLive, OnSlab
  <2>2. BinOK(t)'
    BY <1>1, <1>2, <1>3, <1>4, <1>5 DEF BinOK, AtBin
  <2>3. FillOK(t)'
    BY <1>1, <1>2, <1>3, <1>4, <1>5 DEF FillOK, Ready
  <2>4. Walks(t)' /\ Alone(t)'
    BY <1>2, <1>4 DEF Walks, Alone, Leaving
  <2>5. QED BY <2>1, <2>2, <2>3, <2>4 DEF Local
<1>7. p \notin InMorph /\ p \notin InHand /\ pc[t] \notin InMorph /\ pc[t] \notin InHand
      /\ pc[t] \notin {"insert", "enlist"}
  BY <1>1, <1>2 DEF InMorph, InHand
<1> HIDE DEF w, p
<1>8. QED
  BY <1>3, <1>4, <1>5, <1>6, <1>7, CtxFacts, QuietStep
  DEF SetLen, memVars, cacheVars, remVars, listVars

LEMMA PopFullGood ==
  ASSUME Ctx, NEW t \in Threads, PopFull(t)
  PROVE  Good'
<1> DEFINE c == my[t].cls
           s == my[t].cur
           w == [NoWork EXCEPT !.cls = c]
<1>1. pc[t] = "full" /\ Be(t, "take", w) /\ now' = [now EXCEPT ![c] = s]
  BY DEF PopFull
<1>2. my[t] \in Works /\ BinOK(t) /\ FillOK(t)
  BY CtxFacts
<1>3. c \in Classes /\ s \in Members(bin[c]) /\ \E k \in Banks : cache[t][c][k] # <<>>
  BY <1>1, <1>2, WorkType DEF BinOK, AtBin, FillOK, Ready
<1>4. w \in Works /\ w.blk = NoBlock /\ w.cls = c
  <2> HIDE DEF c
  <2>1. QED BY <1>3, PlainType DEF Works
<1>5. Steps(t) /\ pc'[t] = "take" /\ my' \in [Threads -> Works] /\ my'[t] = w
  <2> HIDE DEF w
  <2>1. QED BY <1>1, <1>4, CtxFacts, WorkSet, PcSet, BeSteps DEF Be, Ctx
<1>6. cache' = cache
  BY DEF PopFull, cacheVars
<1>7. Local(t)'
  <2>1. FillOK(t)'
    BY <1>3, <1>4, <1>5, <1>6 DEF FillOK
  <2>2. QED BY <1>5, <2>1, LocalFree DEF Elsewhen
<1>8. /\ DOMAIN now' = Classes
      /\ \A d \in Classes : now'[d] = now[d] \/ now'[d] \in Members(bin[d]) \union {Root}
  BY <1>1, <1>3, CtxFacts
<1> HIDE DEF w, c, s
<1>9. QED
  BY <1>1, <1>4, <1>5, <1>6, <1>7, <1>8, CtxFacts, QuietStep
  DEF PopFull, InMorph, InHand, memVars, cacheVars, remVars, lruVars

LEMMA GetGood ==
  ASSUME Ctx, NEW t \in Threads, Get(t)
  PROVE  Good'
<1>1. PICK p \in {"search", "create"} : pc[t] = "get" /\ Go(t, p) /\ my' = my
  BY DEF Get
<1>2. my[t] \in Works /\ my[t].blk = NoBlock
  BY <1>1, CtxFacts DEF HandOK, InHand
<1>3. Steps(t) /\ pc'[t] = p /\ my' \in [Threads -> Works] /\ my'[t] = my[t]
  BY <1>1, CtxFacts, PcSet, BeSteps DEF Go, Ctx, Types
<1>4. Local(t)'
  BY <1>3, LocalFree DEF Elsewhen
<1>5. QED
  BY <1>1, <1>2, <1>3, <1>4, CtxFacts, QuietStep
  DEF Get, InMorph, InHand, memVars, cacheVars, remVars, lruVars, listVars

LEMMA SearchGood ==
  ASSUME Ctx, NEW t \in Threads, Search(t)
  PROVE  Good'
<1> DEFINE w == [my[t] EXCEPT !.cur = Front(lru)]
<1>1. pc[t] = "search" /\ Be(t, "walk", w) /\ lru' = lru
  BY DEF Search, lruVars
<1>2. my[t] \in Works /\ my[t].blk = NoBlock
  BY <1>1, CtxFacts DEF HandOK, InHand
<1>3. Front(lru) \in Members(lru) \union {Root} /\ Front(lru) \in Slots \union {Root}
  BY CtxFacts, FrontIn DEF Members
<1>4. w \in Works /\ w.blk = NoBlock /\ w.cur = Front(lru)
  BY <1>2, <1>3 DEF Works
<1>5. Steps(t) /\ pc'[t] = "walk" /\ my' \in [Threads -> Works] /\ my'[t] = w
  <2> HIDE DEF w
  <2>1. QED BY <1>1, <1>4, CtxFacts, WorkSet, PcSet, BeSteps DEF Be, Ctx
<1> HIDE DEF w
<1>6. Local(t)'
  <2>1. OnLive(t)' /\ BinOK(t)' /\ FillOK(t)'
    BY <1>5 DEF OnLive, OnSlab, BinOK, AtBin, FillOK, Ready
  <2>2. Walks(t)' /\ Alone(t)'
    BY <1>1, <1>3, <1>4, <1>5 DEF Walks, Alone, Leaving
  <2>3. QED BY <2>1, <2>2 DEF Local
<1>7. QED
  BY <1>1, <1>4, <1>5, <1>6, CtxFacts, QuietStep
  DEF Search, InMorph, InHand, memVars, cacheVars, remVars, lruVars, listVars

LEMMA WalkEndGood ==
  ASSUME Ctx, NEW t \in Threads, WalkEnd(t)
  PROVE  Good'
<1> DEFINE w == [my[t] EXCEPT !.cur = Root]
<1>1. pc[t] = "walk" /\ Be(t, "create", w)
  BY DEF WalkEnd
<1>2. my[t] \in Works /\ my[t].blk = NoBlock
  BY <1>1, CtxFacts DEF HandOK, InHand
<1>3. w \in Works /\ w.blk = NoBlock
  BY <1>2 DEF Works
<1>4. Steps(t) /\ pc'[t] = "create" /\ my' \in [Threads -> Works] /\ my'[t] = w
  <2> HIDE DEF w
  <2>1. QED BY <1>1, <1>3, CtxFacts, WorkSet, PcSet, BeSteps DEF Be, Ctx
<1> HIDE DEF w
<1>5. Local(t)'
  BY <1>4, LocalFree DEF Elsewhen
<1>6. QED
  BY <1>1, <1>3, <1>4, <1>5, CtxFacts, QuietStep
  DEF WalkEnd, InMorph, InHand, memVars, cacheVars, remVars, lruVars, listVars

LEMMA WalkOnGood ==
  ASSUME Ctx, NEW t \in Threads, WalkOn(t)
  PROVE  Good'
<1> DEFINE s == my[t].cur
           w == [my[t] EXCEPT !.cur = After(lru, s)]
<1>1. pc[t] = "walk" /\ s # Root /\ lru' = lru /\ v' = v
  BY DEF WalkOn, lruVars, memVars
<1>2. my[t] \in Works /\ my[t].blk = NoBlock /\ s \in Members(lru) /\ lru \in Seq(Slots)
      /\ s \in Slots /\ v[s].live
  <2>1. my[t] \in Works /\ my[t].blk = NoBlock /\ s \in Members(lru) /\ lru \in Seq(Slots)
    BY <1>1, CtxFacts DEF HandOK, InHand, Walks
  <2>2. QED BY <2>1 DEF Ctx, Good, Aged, Listed, Members
<1>3. After(lru, s) \in Members(lru) \union {Root} /\ After(lru, s) \in Slots \union {Root}
  BY <1>2, AfterIn DEF Members
<1>4. w \in Works /\ w.blk = NoBlock /\ w.cur = After(lru, s)
  <2> DEFINE x == After(lru, s)
  <2>1. x \in Slots \union {Root}
    BY <1>3
  <2> HIDE DEF x
  <2>2. [my[t] EXCEPT !.cur = x] \in Works /\ [my[t] EXCEPT !.cur = x].blk = NoBlock
          /\ [my[t] EXCEPT !.cur = x].cur = x
    BY <1>2, <2>1 DEF Works
  <2>3. QED BY <2>2 DEF x
<1>5. CASE Candidate(v[s], my[t].cls)
  <2>1. Go(t, "seize") /\ my' = my
    BY <1>5 DEF WalkOn
  <2>2. Steps(t) /\ pc'[t] = "seize" /\ my' \in [Threads -> Works] /\ my'[t] = my[t]
    BY <2>1, CtxFacts, PcSet, BeSteps DEF Go, Ctx, Types
  <2>3. v[s].sc.cls # my[t].cls
    BY <1>5 DEF Candidate
  <2>4. Local(t)'
    <3>1. BinOK(t)' /\ FillOK(t)' /\ Alone(t)'
      BY <2>2 DEF BinOK, AtBin, FillOK, Ready, Alone, Leaving
    <3>2. OnLive(t)'
      BY <1>1, <1>2, <2>2 DEF OnLive
    <3>3. Walks(t)'
      BY <1>1, <1>2, <2>2, <2>3 DEF Walks, Leaving
    <3>4. QED BY <3>1, <3>2, <3>3 DEF Local
  <2>5. QED
    BY <1>1, <1>2, <2>2, <2>4, CtxFacts, QuietStep
    DEF WalkOn, InMorph, InHand, memVars, cacheVars, remVars, lruVars, listVars
<1>6. CASE ~Candidate(v[s], my[t].cls)
  <2>1. Be(t, "walk", w)
    BY <1>6 DEF WalkOn
  <2>2. Steps(t) /\ pc'[t] = "walk" /\ my' \in [Threads -> Works] /\ my'[t] = w
    <3> HIDE DEF w
    <3>1. QED BY <1>4, <2>1, CtxFacts, WorkSet, PcSet, BeSteps DEF Be, Ctx
  <2> HIDE DEF w
  <2>3. Local(t)'
    <3>1. OnLive(t)' /\ BinOK(t)' /\ FillOK(t)'
      BY <2>2 DEF OnLive, OnSlab, BinOK, AtBin, FillOK, Ready
    <3>2. Walks(t)' /\ Alone(t)'
      BY <1>1, <1>3, <1>4, <2>2 DEF Walks, Alone, Leaving
    <3>3. QED BY <3>1, <3>2 DEF Local
  <2>4. QED
    BY <1>1, <1>4, <2>2, <2>3, CtxFacts, QuietStep
    DEF WalkOn, InMorph, InHand, memVars, cacheVars, remVars, lruVars, listVars
<1>7. QED BY <1>5, <1>6
(* The end of a free.                                                       *)
LEMMA DoneFacts ==
  ASSUME Ctx, NEW t \in Threads, Done(t)
  PROVE  /\ Steps(t) /\ pc'[t] \in {"idle", "putback"} /\ my' \in [Threads -> Works]
         /\ my'[t] = NoWork /\ my'[t].blk = NoBlock /\ Local(t)'
         /\ pc'[t] \notin InMorph /\ pc'[t] \notin InHand
<1>1. Be(t, my[t].then, NoWork) /\ my[t].then \in {"idle", "putback"} 
  BY CtxFacts, WorkType DEF Done, Rest
<1>2. Steps(t) /\ pc'[t] \in {"idle", "putback"} /\ my' \in [Threads -> Works] /\ my'[t] = NoWork
  BY <1>1, PlainType, CtxFacts, WorkSet, PcSet, BeSteps DEF Be, Ctx
<1>3. Local(t)'
  BY <1>2, LocalFree DEF Elsewhen
<1>4. QED BY <1>2, <1>3, PlainType DEF InMorph, InHand

LEMMA FreedGood ==
  ASSUME Ctx, NEW t \in Threads, Freed(t)
  PROVE  Good'
<1>1. pc[t] = "freed" /\ v' = v
  BY DEF Freed, memVars
<1>2. CASE v[my[t].cur].nbits = 0 /\ ~v[my[t].cur].rdirty
  <2> DEFINE w == [my[t] EXCEPT !.next = "drop"]
  <2>1. Be(t, "unlink", w)
    BY <1>2 DEF Freed
  <2>2. my[t] \in Works /\ my[t].blk = NoBlock /\ v[my[t].cur].live
    BY <1>1, CtxFacts DEF HandOK, InHand, OnLive, OnSlab
  <2>3. w \in Works /\ w.blk = NoBlock /\ w.cur = my[t].cur /\ w.next = "drop"
    BY <2>2 DEF Works, Pcs
  <2>4. Steps(t) /\ pc'[t] = "unlink" /\ my' \in [Threads -> Works] /\ my'[t] = w
    <3> HIDE DEF w
    <3>1. QED BY <2>1, <2>3, CtxFacts, WorkSet, PcSet, BeSteps DEF Be, Ctx
  <2> HIDE DEF w
  <2>5. Local(t)'
    <3>1. OnLive(t)'
      BY <1>1, <2>2, <2>3, <2>4 DEF OnLive
    <3>2. BinOK(t)' /\ FillOK(t)'
      BY <2>4 DEF BinOK, AtBin, FillOK, Ready
    <3>3. Walks(t)' /\ Alone(t)'
      BY <2>3, <2>4 DEF Walks, Alone, Leaving
    <3>4. QED BY <3>1, <3>2, <3>3 DEF Local
  <2>6. QED
    BY <1>1, <2>3, <2>4, <2>5, CtxFacts, QuietStep
    DEF Freed, InMorph, InHand, memVars, cacheVars, remVars, lruVars, listVars
<1>3. CASE ~(v[my[t].cur].nbits = 0 /\ ~v[my[t].cur].rdirty)
  <2>1. Done(t)
    BY <1>3 DEF Freed
  <2>2. QED
    BY <1>1, <2>1, CtxFacts, DoneFacts, QuietStep
    DEF Freed, InMorph, InHand, memVars, cacheVars, remVars, lruVars, listVars
<1>4. QED BY <1>2, <1>3

LEMMA RestFacts ==
  ASSUME Ctx, NEW t \in Threads, NEW p \in {"idle", "putback"}, Rest(t, p)
  PROVE  /\ Steps(t) /\ pc'[t] = p /\ my' \in [Threads -> Works]
         /\ my'[t] = NoWork /\ my'[t].blk = NoBlock /\ Local(t)'
         /\ pc'[t] \notin InMorph /\ pc'[t] \notin InHand
<1>1. Steps(t) /\ pc'[t] = p /\ my' \in [Threads -> Works] /\ my'[t] = NoWork
  BY PlainType, CtxFacts, WorkSet, PcSet, BeSteps DEF Be, Ctx, Rest
<1>2. Local(t)'
  BY <1>1, LocalFree DEF Elsewhen
<1>3. QED BY <1>1, <1>2, PlainType DEF InMorph, InHand

LEMMA MigrateGood ==
  ASSUME Ctx, NEW t \in Threads, Migrate(t)
  PROVE  Good'
<1>1. pc[t] = "idle" /\ Rest(t, "putback")
  BY DEF Migrate
<1>2. QED
  BY <1>1, CtxFacts, RestFacts, QuietStep
  DEF Migrate, InMorph, InHand, memVars, cacheVars, remVars, lruVars, listVars

LEMMA SettleGood ==
  ASSUME Ctx, NEW t \in Threads, Settle(t)
  PROVE  Good'
<1>1. pc[t] = "putback" /\ Rest(t, "idle")
  BY DEF Settle
<1>2. QED
  BY <1>1, CtxFacts, RestFacts, QuietStep
  DEF Settle, InMorph, InHand, memVars, cacheVars, remVars, lruVars, listVars

(* Steps that change one list of slabs                                      *)
LEMMA TouchGood ==
  ASSUME Ctx, NEW t \in Threads, Touch(t), failed' = "no"
  PROVE  Good'
<1> DEFINE s == my[t].cur
           l == Append(Without(lru, s), s)
<1>1. /\ pc[t] = "touch" /\ Go(t, "pop") /\ my' = my /\ v' = v /\ bin' = bin /\ now' = now
      /\ cache' = cache /\ turn' = turn /\ held' = held /\ lost' = lost /\ numaList' = numaList
      /\ lruLen' = lruLen /\ morphLen' = morphLen
  BY DEF Touch, memVars, listVars, cacheVars, remVars
<1>2. s \in Members(lru) /\ lru' = l
  BY DEF Touch, FailIf
<1>3. /\ l \in Seq(Slots) /\ Distinct(l) /\ Members(l) = Members(lru)
  <2>1. s \in Slots /\ lru \in Seq(Slots) /\ Distinct(lru)
    BY <1>2, CtxFacts DEF Members, Ctx, Good, Aged
  <2>2. /\ Without(lru, s) \in Seq(Slots) /\ Distinct(Without(lru, s))
        /\ s \notin Members(Without(lru, s))
        /\ Members(Without(lru, s)) \subseteq Members(lru)
        /\ Members(lru) \ {s} \subseteq Members(Without(lru, s))
    BY <2>1, WithoutIn
  <2> DEFINE m == Without(lru, s)
  <2>3. m \in Seq(Slots) /\ Distinct(m) /\ s \notin Members(m)
    BY <2>2
  <2> HIDE DEF m, s
  <2>4. Append(m, s) \in Seq(Slots) /\ Members(Append(m, s)) = Members(m) \union {s}
    BY <2>1, <2>3, AppendIn
  <2>5. Distinct(Append(m, s))
    BY <2>3, DistinctAppend
  <2>6. QED BY <1>2, <2>2, <2>4, <2>5 DEF m
<1>4. my[t] \in Works /\ my[t].blk = NoBlock /\ OnLive(t) /\ BinOK(t)
  BY <1>1, CtxFacts DEF HandOK, InHand
<1>5. Steps(t) /\ pc'[t] = "pop" /\ my' \in [Threads -> Works] /\ my'[t] = my[t]
  BY <1>1, CtxFacts, PcSet, BeSteps DEF Go, Ctx, Types
<1>6. OnLive(t)' /\ FillOK(t)' /\ BinOK(t)' /\ Walks(t)' /\ Alone(t)'
  <2>1. OnLive(t)'
    BY <1>1, <1>4, <1>5 DEF OnLive, OnSlab
  <2>2. BinOK(t)'
    BY <1>1, <1>4, <1>5 DEF BinOK, AtBin
  <2>3. FillOK(t)' /\ Walks(t)' /\ Alone(t)'
    BY <1>5 DEF FillOK, Ready, Walks, Alone, Leaving
  <2>4. QED BY <2>1, <2>2, <2>3
<1>7. Others(t) /\ pc[t] \notin InMorph /\ pc[t] \notin InHand /\ pc'[t] \notin InMorph
        /\ pc'[t] \notin InHand
  BY <1>1, <1>5 DEF Others, Steps, InMorph, InHand
<1> HIDE DEF l, s
<1>8. Types' /\ Once' /\ Hands' /\ Slabwise' /\ Morphing' /\ Alive' /\ Filling'
  BY <1>1, <1>2, <1>3, <1>4, <1>5, <1>6, <1>7, CtxFacts, CalmStep
<1>9. Aged'
  BY <1>1, <1>2, <1>3, <1>6, <1>7, CtxFacts, AgedStep DEF Good
<1>10. Remote'
  BY <1>1, <1>7, CtxFacts, RemoteStep DEF Good
<1>11. Bins'
  BY <1>1, <1>6, <1>7, CtxFacts, BinsStep DEF Good
<1>12. Unbinned'
  BY <1>1, <1>7, CtxFacts, UnbinnedStep DEF Good
<1>13. QED BY <1>8, <1>9, <1>10, <1>11, <1>12 DEF Good

LEMMA RelistGood ==
  ASSUME Ctx, NEW t \in Threads, Relist(t)
  PROVE  Good'
<1> DEFINE s == my[t].cur
           l == Append(lru, s)
<1>1. /\ pc[t] = "relist" /\ Done(t) /\ v' = v /\ bin' = bin /\ now' = now
      /\ cache' = cache /\ turn' = turn /\ held' = held /\ lost' = lost /\ numaList' = numaList
      /\ lru' = l /\ lruLen' = lruLen + 1
      /\ morphLen' = IF v[s].nbits <= Low(v[s].sc.n) THEN morphLen + 1 ELSE morphLen
  BY DEF Relist, memVars, listVars, cacheVars, remVars
<1>2. /\ s \in Slots /\ v[s].live /\ s \notin Members(lru) /\ v[s].numb = 0 /\ Leaving(t)
      /\ \A u \in Threads \ {t} : Leaving(u) => my[u].cur # s
  BY <1>1, CtxFacts DEF OnLive, OnSlab, Walks, Alone, Leaving
<1>3. l \in Seq(Slots) /\ Distinct(l) /\ Members(l) = Members(lru) \union {s}
  <2> HIDE DEF s
  <2>1. lru \in Seq(Slots) /\ Distinct(lru)
    BY CtxFacts DEF Ctx, Good, Aged
  <2>2. QED BY <1>2, <2>1, AppendIn, DistinctAppend
<1>4. /\ Steps(t) /\ pc'[t] \in {"idle", "putback"} /\ my' \in [Threads -> Works]
      /\ my'[t] = NoWork /\ my'[t].blk = NoBlock
      /\ OnLive(t)' /\ Walks(t)' /\ Alone(t)' /\ FillOK(t)' /\ BinOK(t)'
      /\ pc'[t] \notin InMorph /\ pc'[t] \notin InHand
  BY <1>1, DoneFacts DEF Local
<1>5. Others(t) /\ pc[t] \notin InMorph /\ pc[t] \notin InHand
  BY <1>1, <1>4 DEF Others, Steps, InMorph, InHand
<1>6. lruLen' \in Int /\ morphLen' \in Int
  <2>1. lruLen \in Int /\ morphLen \in Int
    BY CtxFacts
  <2> HIDE DEF s
  <2>2. QED BY <1>1, <2>1
<1> HIDE DEF l, s
<1>7. Types' /\ Once' /\ Hands' /\ Slabwise' /\ Morphing' /\ Alive' /\ Filling'
  BY <1>1, <1>3, <1>4, <1>5, <1>6, CtxFacts, CalmStep
<1>8. Aged'
  <2>1. \A x \in Members(lru') : Listed(x)'
    <3>1. ASSUME NEW x \in Members(lru) PROVE Listed(x)'
      <4>1. Listed(x)
        BY CtxFacts DEF Good, Aged
      <4>2. (\E u \in Threads : pc[u] = "unbin" /\ my[u].cur = x)
              => \E u \in Threads : pc'[u] = "unbin" /\ my'[u].cur = x
        BY <1>1, <1>5 DEF Others
      <4>3. QED BY <1>1, <4>1, <4>2 DEF Listed
    <3>2. PICK x : x = s
      OBVIOUS
    <3>3. Listed(x)'
      BY <1>1, <1>2, <3>2 DEF Listed
    <3>4. QED BY <1>1, <1>3, <3>1, <3>2, <3>3
  <2>2. ASSUME NEW u \in Threads \ {t}
        PROVE  /\ pc[u] \in {"walk", "seize", "unbin"} /\ my[u].cur \in Members(lru)
                    => my[u].cur \in Members(lru')
               /\ pc[u] = "seize" => v'[my[u].cur].sc.cls = v[my[u].cur].sc.cls
               /\ Leaving(u) => my[u].cur \notin Members(lru') /\ v'[my[u].cur].numb = 0
    BY <1>1, <1>2, <1>3, CtxFacts DEF Walks
  <2>3. QED BY <1>1, <1>3, <1>4, <1>5, <2>1, <2>2, CtxFacts, AgedFrame DEF Good
<1>9. Remote'
  BY <1>1, <1>5, CtxFacts, RemoteStep DEF Good
<1>10. Bins'
  BY <1>1, <1>4, <1>5, CtxFacts, BinsStep DEF Good
<1>11. Unbinned'
  BY <1>1, <1>5, CtxFacts, UnbinnedStep DEF Good
<1>12. QED BY <1>7, <1>8, <1>9, <1>10, <1>11 DEF Good
(* Steps that change the bins                                               *)
LEMMA BinsFrame ==
  ASSUME Bins, Locks, NEW t \in Threads, Others(t), BinOK(t)',
         bin' \in [Classes -> Seq(Slots)], DOMAIN now' = Classes,
         \A c \in Classes : Distinct(bin'[c]) /\ now'[c] \in Members(bin'[c]) \union {Root},
         \A c, d \in Classes : c # d => Members(bin'[c]) \cap Members(bin'[d]) = {},
         \A c \in Classes : \A s \in Members(bin'[c]) : v'[s].live,
         \A u \in Threads \ {t} :
           /\ AtBin(u) => my[u].cur \in Members(bin'[my[u].cls])
           /\ pc[u] = "insert" => /\ v'[my[u].cur].live
                                  /\ \A c \in Classes : my[u].cur \notin Members(bin'[c])
  PROVE  Bins'
<1>1. ASSUME NEW u \in Threads \ {t}
      PROVE  BinOK(u)'
  <2>1. BinOK(u) /\ pc'[u] = pc[u] /\ my'[u] = my[u]
    BY DEF Bins, Others
  <2>2. AtBin(u)' <=> AtBin(u)
    BY <2>1 DEF AtBin
  <2>3. ASSUME pc'[u] = "insert", NEW z \in Threads \ {u}, pc'[z] = "insert"
        PROVE  my'[z].cur # my'[u].cur
    <3>1. CASE z = t
      BY <2>3, <3>1 DEF BinOK
    <3>2. CASE z # t
      BY <2>1, <2>3, <3>2 DEF BinOK, Others
    <3>3. QED BY <3>1, <3>2
  <2>4. PICK x : x = my'[u].cur
    OBVIOUS
  <2>5. AtBin(u)' => x \in Members(bin'[my'[u].cls])
    BY <2>1, <2>2, <2>4
  <2>6. pc'[u] = "insert" => /\ v'[x].live /\ \A c \in Classes : x \notin Members(bin'[c])
                             /\ \A z \in Threads \ {u} : pc'[z] = "insert" => my'[z].cur # x
    BY <2>1, <2>3, <2>4
  <2>7. QED BY <2>4, <2>5, <2>6 DEF BinOK
<1>2. QED BY <1>1 DEF Bins

LEMMA UnbinnedFrame ==
  ASSUME Unbinned, NEW t, Others(t),
         \A s \in Slots :
           \/ v'[s].nbits = 0 \/ ~NoBin(s)'
           \/ /\ v'[s] = v[s] /\ (NoBin(s)' => NoBin(s))
              /\ t \in Threads /\ pc[t] = "insert" => my[t].cur # s
  PROVE  Unbinned'
<1> SUFFICES ASSUME NEW s \in Slots PROVE Out(s)'
  BY DEF Unbinned
<1>1. CASE v'[s].nbits = 0 \/ ~NoBin(s)'
  BY <1>1 DEF Out
<1>2. CASE /\ v'[s] = v[s] /\ (NoBin(s)' => NoBin(s))
           /\ t \in Threads /\ pc[t] = "insert" => my[t].cur # s
  <2>1. (\A u \in Threads : pc'[u] = "insert" => my'[u].cur # s)
          => \A u \in Threads : pc[u] = "insert" => my[u].cur # s
    BY <1>2 DEF Others
  <2>2. QED BY <1>2, <2>1 DEF Out, Unbinned
<1>3. QED BY <1>1, <1>2

(* Under its lock nobody else is at a slab of the bin.                      *)
LEMMA BinOfOne ==
  ASSUME Locks, NEW c \in Classes, NEW t \in Threads, binLock[c] = None \/ binLock[c] = t,
         NEW u \in Threads, u # t, AtBin(u)
  PROVE  my[u].cls # c
<1>1. InFill(u)
  BY DEF AtBin, InFill, FillPcs
<1>2. my[u].cls = c => binLock[c] = u
  BY <1>1 DEF Locks, ThreadOK
<1>3. QED BY <1>2, Names
LEMMA UnlinkGood ==
  ASSUME Ctx, NEW t \in Threads, Unlink(t), failed' = "no"
  PROVE  Good'
<1>1. /\ pc[t] = "unlink" /\ Go(t, "check") /\ my' = my /\ v' = v /\ lru' = lru /\ lruLen' = lruLen
      /\ morphLen' = morphLen /\ cache' = cache /\ turn' = turn /\ held' = held /\ lost' = lost
      /\ numaList' = numaList
  BY DEF Unlink, memVars, lruVars, cacheVars, remVars
<1>2. PICK s : s = my[t].cur
  OBVIOUS
<1>3. PICK c : c = my[t].sc.cls
  OBVIOUS
<1>4. /\ my[t] \in Works /\ my[t].blk = NoBlock /\ s \in Slots /\ c \in Classes /\ OnLive(t)
      /\ Walks(t) /\ Alone(t) /\ bin[c] \in Seq(Slots)
  <2>1. my[t] \in Works /\ my[t].blk = NoBlock /\ OnLive(t) /\ Walks(t) /\ Alone(t) /\ s \in Slots
    BY <1>1, <1>2, CtxFacts DEF HandOK, InHand, OnSlab
  <2>2. c \in Classes
    BY <1>3, <2>1, WorkType, LayoutType
  <2>3. QED BY <2>1, <2>2, CtxFacts
<1>5. Steps(t) /\ pc'[t] = "check" /\ my' \in [Threads -> Works] /\ my'[t] = my[t]
  BY <1>1, CtxFacts, PcSet, BeSteps DEF Go, Ctx, Types
<1>6. Others(t) /\ OnLive(t)' /\ FillOK(t)' /\ BinOK(t)' /\ Walks(t)' /\ Alone(t)'
  <2>1. Others(t)
    BY <1>5 DEF Others, Steps
  <2>2. OnLive(t)' /\ FillOK(t)' /\ BinOK(t)'
    BY <1>1, <1>4, <1>5 DEF OnLive, OnSlab, FillOK, Ready, BinOK, AtBin
  <2>3. Leaving(t)' <=> Leaving(t)
    BY <1>1, <1>5 DEF Leaving
  <2>4. Walks(t)'
    BY <1>1, <1>4, <1>5, <2>3 DEF Walks
  <2>5. Alone(t)'
    BY <1>4, <1>5, <2>1, <2>3 DEF Alone, Others, Leaving
  <2>6. QED BY <2>1, <2>2, <2>4, <2>5
<1>7. Types' /\ Once' /\ Hands' /\ Slabwise' /\ Morphing' /\ Alive' /\ Filling'
  BY <1>1, <1>4, <1>5, <1>6, CtxFacts, CalmStep DEF InMorph, InHand
<1>8. Aged'
  BY <1>1, <1>6, CtxFacts, AgedStep DEF Good, Aged
<1>9. Remote'
  BY <1>1, <1>6, CtxFacts, RemoteStep DEF Good
<1>10. CASE v[s].nbits # 0
  <2>1. bin' = bin /\ now' = now
    BY <1>2, <1>10 DEF Unlink
  <2>2. Bins'
    BY <1>1, <1>6, <2>1, CtxFacts, BinsStep DEF Good
  <2>3. Unbinned'
    BY <1>1, <1>6, <2>1, CtxFacts, UnbinnedStep DEF Good
  <2>4. QED BY <1>7, <1>8, <1>9, <2>2, <2>3 DEF Good
<1>11. CASE v[s].nbits = 0
  <2> DEFINE l == Without(bin[c], s)
  <2>1. /\ bin' = [bin EXCEPT ![c] = l] /\ s \in Members(bin[c]) /\ binLock[c] = None
        /\ now' = IF now[c] = s THEN [now EXCEPT ![c] = After(bin[c], s)] ELSE now
    BY <1>2, <1>3, <1>11 DEF Unlink, FailIf
  <2>2. Bins
    BY CtxFacts DEF Good
  <2>3. /\ l \in Seq(Slots) /\ Distinct(l) /\ Members(l) = Members(bin[c]) \ {s}
    <3>1. Distinct(bin[c])
      BY <1>4, <2>2 DEF Bins
    <3>2. /\ l \in Seq(Slots) /\ Distinct(l) /\ s \notin Members(l)
          /\ Members(l) \subseteq Members(bin[c]) /\ Members(bin[c]) \ {s} \subseteq Members(l)
      BY <1>4, <3>1, WithoutIn
    <3> HIDE DEF l
    <3>3. QED BY <3>2
  <2> HIDE DEF l
  <2>4. now[c] = s => After(bin[c], s) \in Members(l) \union {Root}
    <3>1. After(bin[c], s) = Root \/ After(bin[c], s) \in Members(bin[c])
      BY <1>4, <2>1, AfterIn
    <3>2. After(bin[c], s) # s
      BY <1>4, <2>1, <2>2, AfterIn, Names DEF Bins
    <3>3. QED BY <2>3, <3>1, <3>2
  <2>5. /\ bin' \in [Classes -> Seq(Slots)] /\ DOMAIN now' = Classes
        /\ bin'[c] = l /\ \A d \in Classes \ {c} : bin'[d] = bin[d] /\ now'[d] = now[d]
        /\ now'[c] = IF now[c] = s THEN After(bin[c], s) ELSE now[c]
    BY <1>4, <2>1, <2>2, <2>3 DEF Bins
  <2>6. now'[c] \in Members(bin'[c]) \union {Root}
    <3>1. now[c] \in Members(bin[c]) \union {Root}
      BY <1>4, <2>2 DEF Bins
    <3>2. QED BY <2>3, <2>4, <2>5, <3>1
  <2>7. \A d \in Classes : /\ Distinct(bin'[d]) /\ now'[d] \in Members(bin'[d]) \union {Root}
                           /\ Members(bin'[d]) \subseteq Members(bin[d])
                           /\ Members(bin[d]) \ {s} \subseteq Members(bin'[d])
    BY <2>2, <2>3, <2>5, <2>6 DEF Bins
  <2>8. ASSUME NEW u \in Threads \ {t}
        PROVE  /\ AtBin(u) => my[u].cur \in Members(bin'[my[u].cls])
               /\ pc[u] = "insert" => /\ v'[my[u].cur].live
                                      /\ \A d \in Classes : my[u].cur \notin Members(bin'[d])
    <3>1. BinOK(u) /\ my[u].cls \in Classes
      BY CtxFacts, WorkType
    <3>2. ASSUME AtBin(u) PROVE my[u].cls # c
      <4>1. binLock[c] = None /\ Locks /\ u \in Threads /\ u # t
        BY <2>1, CtxFacts
      <4>2. QED BY <1>4, <3>2, <4>1, BinOfOne
    <3>3. AtBin(u) => my[u].cur \in Members(bin'[my[u].cls])
      BY <2>5, <3>1, <3>2 DEF BinOK
    <3>4. pc[u] = "insert" => /\ v'[my[u].cur].live
                              /\ \A d \in Classes : my[u].cur \notin Members(bin'[d])
      BY <1>1, <2>7, <3>1 DEF BinOK
    <3>5. QED BY <3>3, <3>4
  <2>9. Bins'
    <3>1. /\ \A d, e \in Classes : d # e => Members(bin'[d]) \cap Members(bin'[e]) = {}
          /\ \A d \in Classes : \A x \in Members(bin'[d]) : v'[x].live
      BY <1>1, <2>2, <2>7 DEF Bins
    <3>2. QED BY <1>6, <2>2, <2>5, <2>7, <2>8, <3>1, BinsFrame, CtxFacts
  <2>10. Unbinned'
    <3>1. ASSUME NEW x \in Slots
          PROVE  v'[x].nbits = 0 \/ (v'[x] = v[x] /\ (NoBin(x)' => NoBin(x)))
      <4>1. CASE x = s
        BY <1>1, <1>11, <4>1
      <4>2. CASE x # s
        BY <1>1, <2>7, <4>2 DEF NoBin
      <4>3. QED BY <4>1, <4>2
    <3>2. QED BY <1>1, <1>6, <3>1, UnbinnedFrame, CtxFacts DEF Good
  <2>11. QED BY <1>7, <1>8, <1>9, <2>9, <2>10 DEF Good
<1>12. QED BY <1>10, <1>11
LEMMA InsertGood ==
  ASSUME Ctx, NEW t \in Threads, Insert(t)
  PROVE  Good'
<1>1. /\ pc[t] = "insert" /\ Go(t, "visit") /\ my' = my /\ v' = v /\ lru' = lru /\ lruLen' = lruLen
      /\ morphLen' = morphLen /\ cache' = cache /\ turn' = turn /\ held' = held /\ lost' = lost
      /\ numaList' = numaList
  BY DEF Insert, memVars, lruVars, cacheVars, remVars
<1>2. PICK s : s = my[t].cur
  OBVIOUS
<1>3. PICK c : c = my[t].cls
  OBVIOUS
<1>4. /\ my[t] \in Works /\ my[t].blk = NoBlock /\ s \in Slots /\ c \in Classes /\ v[s].live
      /\ bin[c] \in Seq(Slots) /\ binLock[c] = t
      /\ \A d \in Classes : s \notin Members(bin[d])
      /\ \A u \in Threads \ {t} : pc[u] = "insert" => my[u].cur # s
  <2>1. my[t] \in Works /\ my[t].blk = NoBlock /\ BinOK(t) /\ s \in Slots /\ c \in Classes
    BY <1>1, <1>2, <1>3, CtxFacts, WorkType DEF HandOK, InHand, OnSlab
  <2>2. binLock[c] = t
    BY <1>1, <1>3, <2>1, CtxFacts DEF Locks, ThreadOK, InFill, FillPcs
  <2>3. QED BY <1>1, <1>2, <2>1, <2>2, CtxFacts DEF BinOK
<1>5. Steps(t) /\ pc'[t] = "visit" /\ my' \in [Threads -> Works] /\ my'[t] = my[t]
  BY <1>1, CtxFacts, PcSet, BeSteps DEF Go, Ctx, Types
<1> DEFINE l == <<s>> \o bin[c]
<1>6. /\ bin' = [bin EXCEPT ![c] = l] /\ now' = [now EXCEPT ![c] = s]
  BY <1>2, <1>3 DEF Insert
<1>7. Bins
  BY CtxFacts DEF Good
<1>8. l \in Seq(Slots) /\ Distinct(l) /\ Members(l) = Members(bin[c]) \union {s}
  BY <1>4, <1>7, PrependIn DEF Bins
<1> HIDE DEF l
<1>9. /\ bin' \in [Classes -> Seq(Slots)] /\ DOMAIN now' = Classes
      /\ bin'[c] = l /\ now'[c] = s
      /\ \A d \in Classes \ {c} : bin'[d] = bin[d] /\ now'[d] = now[d]
  BY <1>4, <1>6, <1>7, <1>8 DEF Bins
<1>10. Others(t) /\ OnLive(t)' /\ FillOK(t)' /\ BinOK(t)' /\ Walks(t)' /\ Alone(t)'
  <2>1. Others(t)
    BY <1>5 DEF Others, Steps
  <2>2. OnLive(t)' /\ FillOK(t)' /\ Walks(t)' /\ Alone(t)'
    BY <1>1, <1>2, <1>4, <1>5 DEF OnLive, OnSlab, FillOK, Ready, Walks, Alone, Leaving
  <2>3. BinOK(t)'
    BY <1>2, <1>3, <1>4, <1>5, <1>8, <1>9 DEF BinOK
  <2>4. QED BY <2>1, <2>2, <2>3
<1>11. Types' /\ Once' /\ Hands' /\ Slabwise' /\ Morphing' /\ Alive' /\ Filling'
  BY <1>1, <1>4, <1>5, <1>10, CtxFacts, CalmStep DEF InMorph, InHand
<1>12. Aged'
  BY <1>1, <1>10, CtxFacts, AgedStep DEF Good, Aged
<1>13. Remote'
  BY <1>1, <1>10, CtxFacts, RemoteStep DEF Good
<1>14. \A d \in Classes : /\ Distinct(bin'[d]) /\ now'[d] \in Members(bin'[d]) \union {Root}
                          /\ Members(bin[d]) \subseteq Members(bin'[d])
                          /\ Members(bin'[d]) \subseteq Members(bin[d]) \union {s}
  BY <1>4, <1>7, <1>8, <1>9 DEF Bins
<1>15. Bins'
  <2>1. \A d, e \in Classes : d # e => Members(bin'[d]) \cap Members(bin'[e]) = {}
    <3>1. \A d \in Classes \ {c} : Members(bin'[d]) = Members(bin[d])
      BY <1>9
    <3>2. Members(bin'[c]) = Members(bin[c]) \union {s}
      BY <1>8, <1>9
    <3>3. \A d, e \in Classes : d # e => Members(bin[d]) \cap Members(bin[e]) = {}
      BY <1>7 DEF Bins
    <3>4. ASSUME NEW d \in Classes, NEW e \in Classes, d # e,
                 NEW x \in Members(bin'[d]) \cap Members(bin'[e])
          PROVE  FALSE
      <4>1. CASE x = s
        BY <1>4, <3>1, <3>2, <3>4, <4>1
      <4>2. CASE x # s
        <5>1. x \in Members(bin[d]) /\ x \in Members(bin[e])
          BY <1>14, <3>4, <4>2
        <5>2. QED BY <3>3, <3>4, <5>1
      <4>3. QED BY <4>1, <4>2
    <3>5. QED BY <3>4
  <2>2. \A d \in Classes : \A x \in Members(bin'[d]) : v'[x].live
    BY <1>1, <1>4, <1>7, <1>14 DEF Bins
  <2>3. ASSUME NEW u \in Threads \ {t}
        PROVE  /\ AtBin(u) => my[u].cur \in Members(bin'[my[u].cls])
               /\ pc[u] = "insert" => /\ v'[my[u].cur].live
                                      /\ \A d \in Classes : my[u].cur \notin Members(bin'[d])
    <3>1. BinOK(u) /\ my[u].cls \in Classes
      BY CtxFacts, WorkType
    <3>2. AtBin(u) => my[u].cur \in Members(bin'[my[u].cls])
      BY <1>14, <3>1 DEF BinOK
    <3>3. pc[u] = "insert" => /\ v'[my[u].cur].live
                              /\ \A d \in Classes : my[u].cur \notin Members(bin'[d])
      BY <1>1, <1>4, <1>14, <3>1 DEF BinOK
    <3>4. QED BY <3>2, <3>3
  <2>4. QED BY <1>7, <1>9, <1>10, <1>14, <2>1, <2>2, <2>3, BinsFrame, CtxFacts
<1>16. Unbinned'
  <2>1. ASSUME NEW x \in Slots
        PROVE  ~NoBin(x)' \/ (v'[x] = v[x] /\ (NoBin(x)' => NoBin(x)) /\ s # x)
    <3>1. CASE x = s
      BY <1>4, <1>8, <1>9, <3>1 DEF NoBin
    <3>2. CASE x # s
      BY <1>1, <1>14, <3>2 DEF NoBin
    <3>3. QED BY <3>1, <3>2
  <2>2. QED BY <1>1, <1>2, <1>10, <2>1, UnbinnedFrame, CtxFacts DEF Good
<1>17. QED BY <1>11, <1>12, <1>13, <1>15, <1>16 DEF Good
LEMMA EnlistGood ==
  ASSUME Ctx, NEW t \in Threads, Enlist(t), failed' = "no"
  PROVE  Good'
<1>1. /\ pc[t] = "enlist" /\ Done(t) /\ v' = v /\ lru' = lru /\ lruLen' = lruLen /\ bin' = bin
      /\ now' = now /\ morphLen' = morphLen /\ cache' = cache /\ turn' = turn /\ held' = held
      /\ lost' = lost
  BY DEF Enlist, memVars, lruVars, cacheVars, listVars
<1>2. PICK s : s = my[t].cur
  OBVIOUS
<1>3. s \in Slots /\ v[s].live
  BY <1>1, <1>2, CtxFacts DEF OnLive, OnSlab
<1>4. /\ Steps(t) /\ pc'[t] \in {"idle", "putback"} /\ my' \in [Threads -> Works]
      /\ my'[t].blk = NoBlock
      /\ OnLive(t)' /\ Walks(t)' /\ Alone(t)' /\ FillOK(t)' /\ BinOK(t)'
      /\ pc'[t] \notin InMorph /\ pc'[t] \notin InHand
  BY <1>1, DoneFacts DEF Local
<1>5. Others(t) /\ pc[t] \notin InMorph /\ pc[t] \notin InHand
  BY <1>1, <1>4 DEF Others, Steps, InMorph, InHand
<1>6. Types' /\ Once' /\ Hands' /\ Slabwise' /\ Morphing' /\ Alive' /\ Filling'
  BY <1>1, <1>4, <1>5, CtxFacts, CalmStep
<1>7. Aged'
  BY <1>1, <1>4, <1>5, CtxFacts, AgedStep DEF Good, Aged
<1>8. Remote'
  <2>1. /\ Distinct(numaList') /\ Members(numaList') = Members(numaList) \union {s}
    <3>1. CASE s \in Members(numaList)
      BY <1>2, <3>1, CtxFacts DEF Enlist, Good, Remote
    <3>2. CASE s \notin Members(numaList)
      <4>1. numaList' = Append(numaList, s)
        BY <1>2, <3>2 DEF Enlist
      <4>2. Distinct(numaList) /\ numaList \in Seq(Slots)
        BY CtxFacts DEF Good, Remote
      <4>3. QED BY <3>2, <4>1, <4>2, AppendIn, DistinctAppend
    <3>3. QED BY <3>1, <3>2
  <2>2. ASSUME NEW x \in Slots
        PROVE  Dirty(x)'
    <3>1. Dirty(x)
      BY CtxFacts DEF Good, Remote
    <3>2. CASE x = s
      BY <1>1, <2>1, <3>1, <3>2 DEF Dirty
    <3>3. CASE x # s
      <4>1. (\E u \in Threads : pc[u] = "enlist" /\ my[u].cur = x)
              => \E u \in Threads : pc'[u] = "enlist" /\ my'[u].cur = x
        BY <1>2, <1>5, <3>3 DEF Others
      <4>2. QED BY <1>1, <2>1, <3>1, <4>1 DEF Dirty
    <3>4. QED BY <3>2, <3>3
  <2>3. \A x \in Members(numaList') : v'[x].live
    BY <1>1, <1>3, <2>1, CtxFacts DEF Good, Remote
  <2>4. QED BY <2>1, <2>2, <2>3 DEF Remote
<1>9. Bins'
  BY <1>1, <1>4, <1>5, CtxFacts, BinsStep DEF Good
<1>10. Unbinned'
  BY <1>1, <1>5, CtxFacts, UnbinnedStep DEF Good
<1>11. QED BY <1>6, <1>7, <1>8, <1>9, <1>10 DEF Good

(* The flusher takes and leaves its mutex.                                  *)
LEMMA SameGood ==
  ASSUME Good, Locks, numaList \in Seq(Slots), UNCHANGED <<memVars, listVars, lruVars, cacheVars, pc, my, numaList>>
  PROVE  Good'
<1>1. /\ v' = v /\ lru' = lru /\ lruLen' = lruLen /\ bin' = bin /\ now' = now
      /\ morphLen' = morphLen /\ cache' = cache /\ turn' = turn /\ held' = held
      /\ lost' = lost /\ pc' = pc /\ my' = my /\ numaList' = numaList
  BY DEF memVars, listVars, lruVars, cacheVars
<1>2. Others(Flusher) /\ Flusher \notin Threads /\ Unmoved
  BY <1>1, Names DEF Others, Unmoved
<1>3. Once' /\ \A s : Of(s)' = Of(s)
  <2>1. \A s \in Slots : Returned(s)' = Returned(s)
    BY <1>1, ReturnedStep
  <2>2. QED BY <1>1, <2>1, StillStep DEF Good
<1>4. Types'
  BY <1>1 DEF Good, Types
<1>5. Hands'
  BY <1>1, <1>2, HandsStep DEF Good
<1>6. Slabwise' /\ Morphing'
  BY <1>1, <1>2, <1>3, SlabwiseStep DEF Good
<1>7. Alive'
  BY <1>1, <1>2, AliveStep DEF Good
<1>8. Aged'
  BY <1>1, <1>2, AgedStep DEF Good, Types, Aged
<1>9. Remote'
  BY <1>1, <1>2, RemoteStep DEF Good
<1>10. Filling'
  BY <1>1, <1>2, FillStep DEF Good
<1>11. Bins'
  BY <1>1, <1>2, BinsStep DEF Good, Bins
<1>12. Unbinned'
  BY <1>1, <1>2, UnbinnedStep DEF Good
<1>13. QED BY <1>3, <1>4, <1>5, <1>6, <1>7, <1>8, <1>9, <1>10, <1>11, <1>12 DEF Good
-----------------------------------------------------------------------------
(* Steps that move a block *)

LEMMA Moved ==
  ASSUME Union(Whereabouts') = Union(Whereabouts)
  PROVE  \A s : Of(s)' = Of(s)
BY Gathered DEF Of

LEMMA Gone ==
  ASSUME NEW s, NEW D, \A b \in D : b.slab = s, Union(Whereabouts') = Union(Whereabouts) \ D
  PROVE  Of(s)' = Of(s) \ D /\ \A x : x # s => Of(x)' = Of(x)
<1>1. Blocks' = Blocks \ D
  BY Gathered
<1>2. QED BY <1>1 DEF Of

LEMMA Came ==
  ASSUME NEW s, NEW b, b.slab = s, Union(Whereabouts') = Union(Whereabouts) \union {b}
  PROVE  Of(s)' = Of(s) \union {b} /\ \A x : x # s => Of(x)' = Of(x)
<1>1. Blocks' = Blocks \union {b}
  BY Gathered
<1>2. QED BY <1>1 DEF Of

LEMMA BlockTypes ==
  ASSUME Types, NEW b \in Blocks
  PROVE  b \in Blks /\ b.slab \in Slots /\ b.at \in Nat /\ b.len \in Nat
<1>1. b \in Union(Whereabouts)
  BY Gathered
<1>2. PICK x \in Spots : b \in Whereabouts[x]
  BY <1>1 DEF Union
<1>3. CASE x = <<"held">> \/ x = <<"lost">>
  <2>1. b \in held \/ b \in lost
    BY <1>2, <1>3, WhereIs
  <2>2. b \in Blks
    BY <2>1 DEF Types
  <2>3. QED BY <2>2 DEF Blks
<1>4. CASE x = <<"back">>
  <2>1. PICK s \in Slots : b \in Returned(s)
    BY <1>2, <1>4, WhereIs
  <2>2. v[s] \in Vslabs
    BY GoodTypes
  <2>3. PICK i \in v[s].rb : b = Block(s, v[s].sc, i)
    BY <2>1 DEF Returned
  <2>4. i \in Nat /\ v[s].sc \in LayoutSet
    BY <2>2, <2>3, SlabType
  <2>5. At(v[s].sc, i) \in Nat /\ Size[v[s].sc.cls] \in Nat
    BY <2>4, AtType, LayoutType
  <2>6. QED BY <2>3, <2>5 DEF Block, Blks
<1>5. CASE \E t \in Threads : x = <<"hand", t>>
  <2>1. PICK t \in Threads : x = <<"hand", t>>
    BY <1>5
  <2>2. b = my[t].blk /\ b # NoBlock
    BY <1>2, <2>1, WhereIs
  <2>3. my[t].blk \in Blks \union {NoBlock}
    BY GoodTypes, WorkType
  <2>4. QED BY <2>2, <2>3 DEF Blks
<1>6. CASE \E t \in Threads, c \in Classes, k \in Banks : x = <<"bank", t, c, k>>
  <2>1. PICK t \in Threads, c \in Classes, k \in Banks : x = <<"bank", t, c, k>>
    BY <1>6
  <2>2. b \in BlksIn(cache[t][c][k])
    BY <1>2, <2>1, WhereIs
  <2>3. PICK i \in DOMAIN cache[t][c][k] : b = cache[t][c][k][i].blk
    BY <2>2 DEF BlksIn
  <2>4. cache[t][c][k] \in Seq(Entries)
    BY GoodTypes
  <2>5. cache[t][c][k][i] \in Entries
    BY <2>3, <2>4
  <2>6. QED BY <2>3, <2>5 DEF Entries, Blks
<1>7. QED BY <1>3, <1>4, <1>5, <1>6, SpotsAre

(* A slab that nobody is morphing is exact, and alive if a block is out.    *)
LEMMA AtRest ==
  ASSUME Good, NEW s \in Slots, \A u \in Threads : pc[u] \in InMorph => my[u].cur # s
  PROVE  Exact(s, v[s], Of(s))
<1>1. \A u \in Threads : Morphs(u) => my[u].cur # s
  BY DEF Morphs, InMorph
<1>2. QED BY <1>1 DEF Good, Slabwise

LEMMA BlockLive ==
  ASSUME Good, NEW b \in Blocks
  PROVE  v[b.slab].live
<1> DEFINE s == b.slab
<1>1. s \in Slots /\ b \in Of(s)
  BY BlockTypes DEF Good, Of
<1>2. CASE \A u \in Threads : Morphs(u) => my[u].cur # s
  <2>1. Exact(s, v[s], Of(s))
    BY <1>1, <1>2 DEF Good, Slabwise
  <2>2. v[s].used # {}
    BY <1>1, <2>1, ExactFacts
  <2>3. v[s] # NoSlab
    BY <2>2, NewSlabIs
  <2>4. QED BY <1>1, <2>3 DEF Good, Alive
<1>3. CASE \E u \in Threads : Morphs(u) /\ my[u].cur = s
  BY <1>3 DEF Morphs, Good, Alive, OnLive, OnSlab
<1>4. QED BY <1>2, <1>3

LEMMA BlocksStep ==
  ASSUME Ctx, NEW t \in Threads, Steps(t), NEW s \in Slots,
         \A x \in Slots : x # s => v'[x] = v[x] /\ Of(x)' = Of(x),
         \/ v'[s] = v[s] /\ Of(s)' = Of(s)
         \/ /\ \A u \in Threads : pc[u] \in InMorph => my[u].cur # s
            /\ Exact(s, v'[s], Of(s)')
            /\ v[s].live /\ v'[s].live /\ v'[s].sc.cls = v[s].sc.cls
            /\ \/ v'[s].numb = v[s].numb
               \/ s \notin Members(lru) /\ \A u \in Threads \ {t} : Leaving(u) => my[u].cur # s
            /\ ~NoBin(s) \/ v[s].nbits # 0,
         lru' = lru, bin' = bin, now' = now,
         pc[t] \notin InMorph, pc'[t] \notin InMorph, pc[t] # "insert",
         HandOK(t)', OnLive(t)', Walks(t)', Alone(t)', FillOK(t)', BinOK(t)', Types', Once', Remote',
         \A u \in Threads \ {t} : cache'[u] = cache[u]
  PROVE  Good'
<1>1. Others(t) /\ Unmoved
  BY StepsUnmoved DEF Others, Steps
<1>2. \A x \in Slots : v'[x] = v[x] \/ v'[x].live
  OBVIOUS
<1>3. Hands'
  BY <1>1, HandsStep, CtxFacts DEF Good
<1>4. Slabwise' /\ Morphing'
  <2>1. \A x \in Slots :
          \/ v'[x] = v[x] /\ Of(x)' = Of(x)
          \/ /\ \A u \in Threads : pc[u] \in InMorph => my[u].cur # x
             /\ Exact(x, v'[x], Of(x)')
    <3>1. ASSUME NEW x \in Slots
          PROVE  \/ v'[x] = v[x] /\ Of(x)' = Of(x)
                 \/ /\ \A u \in Threads : pc[u] \in InMorph => my[u].cur # x
                    /\ Exact(x, v'[x], Of(x)')
      <4>1. CASE x # s
        BY <4>1
      <4>2. CASE x = s
        BY <4>2
      <4>3. QED BY <4>1, <4>2
    <3>2. QED BY <3>1
  <2>2. QED BY <1>1, <2>1, SlabwiseStep, CtxFacts DEF Good
<1>5. Alive'
  BY <1>1, <1>2, AliveStep, CtxFacts DEF Good
<1>6. Aged'
  <2>1. Distinct(lru') /\ Members(lru') = Members(lru)
    BY CtxFacts DEF Good, Aged
  <2>2. pc[t] # "unbin"
    BY DEF InMorph
  <2>3. ASSUME NEW x \in Slots
        PROVE  \/ /\ v'[x].live = v[x].live /\ v'[x].numb = v[x].numb
                  /\ v'[x].sc.cls = v[x].sc.cls
               \/ /\ v'[x].sc.cls = v[x].sc.cls /\ x \notin Members(lru)
                  /\ \A u \in Threads \ {t} : Leaving(u) => my[u].cur # x
    <3>1. CASE v'[x] = v[x]
      BY <3>1
    <3>2. CASE v'[x] # v[x]
      <4>1. x = s
        BY <3>2
      <4>2. CASE v'[s].numb = v[s].numb
        BY <3>2, <4>1, <4>2
      <4>3. CASE s \notin Members(lru) /\ \A u \in Threads \ {t} : Leaving(u) => my[u].cur # s
        BY <3>2, <4>1, <4>3
      <4>4. QED BY <3>2, <4>1, <4>2, <4>3
    <3>3. QED BY <3>1, <3>2
  <2>4. QED BY <1>1, <2>1, <2>2, <2>3, AgedStep, CtxFacts DEF Good
<1>7. Filling'
  BY <1>1, FillStep, CtxFacts DEF Good
<1>8. Bins'
  BY <1>1, <1>2, BinsStep, CtxFacts DEF Good
<1>9. Unbinned'
  BY <1>1, UnbinnedStep, CtxFacts DEF Good
<1>10. QED BY <1>3, <1>4, <1>5, <1>6, <1>7, <1>8, <1>9 DEF Good
LEMMA NextFilled ==
  ASSUME NEW t, NEW c, Filled(t, c) # {}
  PROVE  NextBank(t, c) \in Banks /\ cache[t][c][NextBank(t, c)] # <<>>
<1> DEFINE later == {b \in Filled(t, c) : b > turn[t][c]}
           S == IF later # {} THEN later ELSE Filled(t, c)
<1>1. Filled(t, c) \subseteq Banks /\ Banks \subseteq Nat
  BY SlabsAssumption DEF Filled, Banks
<1>2. S # {} /\ S \subseteq Filled(t, c) /\ NextBank(t, c) = Min(S)
  BY DEF NextBank
<1> HIDE DEF S
<1>3. Min(S) \in S
  BY <1>1, <1>2, MinIn
<1>4. NextBank(t, c) \in Filled(t, c)
  BY <1>2, <1>3
<1>5. QED BY <1>1, <1>4 DEF Filled

LEMMA TakeFromMoves ==
  ASSUME Ctx, NEW t \in Threads, NEW c \in Classes, TakeFrom(t, c), Filled(t, c) # {}, v' = v,
         \A u \in Threads : my'[u].blk = my[u].blk
  PROVE  /\ Once' /\ \A s : Of(s)' = Of(s)
         /\ cache' \in [Threads -> [Classes -> [Banks -> Seq(Entries)]]]
         /\ turn' \in [Threads -> [Classes -> Banks]]
         /\ held' \subseteq Blks /\ lost' \subseteq Blks
         /\ \A u \in Threads \ {t} : cache'[u] = cache[u]
<1> DEFINE k    == NextBank(t, c)
           full == cache[t][c][k]
           rest == IF Overread(t, c, k) THEN Shorter(full) ELSE full
           e    == rest[Len(rest)]
           top  == full[Len(full)]
           D    == IF Overread(t, c, k) THEN {top.blk} ELSE {}
<1>1. /\ cache' = [cache EXCEPT ![t][c][k] = Shorter(rest)] /\ turn' = [turn EXCEPT ![t][c] = k]
      /\ lost' = IF rest = full THEN lost ELSE lost \union {top.blk}
      /\ held' = held \union {e.blk}
  <2>1. cache' = [cache EXCEPT ![t][c][k] = Shorter(rest)] /\ turn' = [turn EXCEPT ![t][c] = k]
    BY Zenon DEF TakeFrom
  <2>2. lost' = IF rest = full THEN lost ELSE lost \union {top.blk}
    BY Zenon DEF TakeFrom
  <2>3. held' = held \union {e.blk}
    BY Zenon DEF TakeFrom
  <2>4. QED BY <2>1, <2>2, <2>3
<1>2. k \in Banks /\ full # <<>>
  BY NextFilled
<1>3. /\ Types /\ full \in Seq(Entries) /\ NoTwice(full)
      /\ \A d \in Members(full) : d.blk.len = Size[c]
  BY <1>2, CtxFacts DEF Good, Types, Once
<1> HIDE DEF k
<1>4. Overread(t, c, k) => Len(full) > 1
  <2>1. Cap > 1
    BY SlabsAssumption
  <2>2. Overread(t, c, k) => Len(full) = Cap
    BY DEF Overread
  <2>3. QED BY <2>1, <2>2
<1>5. /\ Shorter(full) \in Seq(Entries) /\ NoTwice(Shorter(full)) /\ Len(Shorter(full)) = Len(full) - 1
      /\ BlksIn(Shorter(full)) = BlksIn(full) \ {top.blk} /\ top.blk \in BlksIn(full)
      /\ Members(Shorter(full)) \subseteq Members(full) /\ top \in Members(full)
  <2> HIDE DEF full
  <2>1. QED BY <1>2, <1>3, BankPop
<1>6. /\ rest \in Seq(Entries) /\ NoTwice(rest) /\ rest # <<>>
      /\ BlksIn(rest) = BlksIn(full) \ D /\ Members(rest) \subseteq Members(full)
  <2> HIDE DEF full
  <2>1. CASE Overread(t, c, k)
    <3>1. Shorter(full) # <<>>
      <4>1. Len(full) \in Nat
        BY <1>3
      <4>2. Len(Shorter(full)) > 0
        BY <1>4, <1>5, <2>1, <4>1
      <4>3. QED BY <1>5, <4>2
    <3>2. QED BY <1>5, <2>1, <3>1
  <2>2. CASE ~Overread(t, c, k)
    BY <1>2, <1>3, <2>2
  <2>3. QED BY <2>1, <2>2
<1>7. lost' = lost \union D
  <2> HIDE DEF full
  <2>1. Len(full) \in Nat
    BY <1>3
  <2>2. Shorter(full) # full
    BY <1>5, <2>1
  <2>3. QED BY <1>1, <2>2
<1>8. /\ Shorter(rest) \in Seq(Entries) /\ NoTwice(Shorter(rest))
      /\ BlksIn(Shorter(rest)) = BlksIn(rest) \ {e.blk} /\ e.blk \in BlksIn(rest)
      /\ Members(Shorter(rest)) \subseteq Members(rest)
  <2> HIDE DEF rest
  <2>1. QED BY <1>6, BankPop
<1> DEFINE last == Shorter(rest)
           w == Whereabouts
<1> HIDE DEF rest, e, D, top, last
<1>9. /\ cache' \in [Threads -> [Classes -> [Banks -> Seq(Entries)]]]
      /\ cache'[t][c][k] = last /\ turn' \in [Threads -> [Classes -> Banks]]
      /\ \A u \in Threads, d \in Classes, j \in Banks :
           u # t \/ d # c \/ j # k => cache'[u][d][j] = cache[u][d][j]
      /\ \A u \in Threads \ {t} : cache'[u] = cache[u]
  <2>1. /\ cache \in [Threads -> [Classes -> [Banks -> Seq(Entries)]]]
        /\ turn \in [Threads -> [Classes -> Banks]] /\ last \in Seq(Entries)
    BY <1>3, <1>8 DEF Types, last
  <2>2. cache' = [cache EXCEPT ![t][c][k] = last]
    BY <1>1 DEF last
  <2>3. QED BY <1>1, <1>2, <2>1, <2>2
<1> DEFINE p == <<"bank", t, c, k>>
           h == <<"held">>
           o == <<"lost">>
<1>10. /\ p \in Spots /\ h \in Spots /\ o \in Spots /\ p # h /\ p # o /\ h # o
       /\ w[p] = BlksIn(full) /\ w[h] = held /\ w[o] = lost
       /\ Whereabouts'[p] = BlksIn(last) /\ Whereabouts'[h] = held' /\ Whereabouts'[o] = lost'
  BY <1>2, <1>9, SpotsAre, SpotsDiffer, WhereIs, WhereIsNext
<1>11. \A x \in Spots \ {p, h, o} : Whereabouts'[x] = w[x]
  <2>1. \A u \in Threads, d \in Classes, j \in Banks :
           <<"bank", u, d, j>> \in {p, h, o} \/ cache'[u][d][j] = cache[u][d][j]
    BY <1>9
  <2>2. \A s \in Slots : Returned(s)' = Returned(s)
    BY ReturnedStep
  <2> HIDE DEF p
  <2>3. QED BY <2>1, <2>2, Elsewhere
<1> DEFINE g == [x \in Spots |-> IF x = p THEN w[p] \ D ELSE IF x = o THEN w[o] \union D ELSE w[x]]
<1>12. Apart(w) /\ w = [x \in Spots |-> Holds(x)]
  BY CtxFacts DEF Good, Once, Whereabouts
<1> HIDE DEF p, h, o, w
<1>13. Apart(g) /\ Union(g) = Union(w)
  <2>1. CASE D = {}
    <3>1. \A x \in Spots : g[x] = w[x]
      BY <2>1
    <3> HIDE DEF g
    <3>2. QED BY <1>12, <3>1, Stay
  <2>2. CASE D # {}
    <3>1. PICK b : D = {b}
      BY <2>2 DEF D
    <3>2. b \in w[p]
      BY <1>5, <1>10, <2>2, <3>1 DEF D
    <3>3. /\ g[p] = w[p] \ {b} /\ g[o] = w[o] \union {b}
          /\ \A x \in Spots \ {p, o} : g[x] = w[x]
      BY <1>10, <3>1
    <3> HIDE DEF g
    <3>4. QED BY <1>10, <1>12, <3>2, <3>3, Shift
  <2>3. QED BY <2>1, <2>2
<1>14. Apart(Whereabouts') /\ Union(Whereabouts') = Union(g)
  <2>1. g[p] = BlksIn(rest) /\ g[h] = held /\ g[o] = lost'
    BY <1>6, <1>7, <1>10
  <2>2. e.blk \in g[p]
    BY <1>8, <2>1
  <2>3. Whereabouts'[p] = g[p] \ {e.blk} /\ Whereabouts'[h] = g[h] \union {e.blk}
    BY <1>1, <1>8, <1>10, <2>1 DEF last
  <2>4. \A x \in Spots \ {p, h} : Whereabouts'[x] = g[x]
    <3>1. ASSUME NEW x \in Spots \ {p, h} PROVE Whereabouts'[x] = g[x]
      <4>1. CASE x = o
        BY <1>10, <2>1, <4>1
      <4>2. CASE x # o
        BY <1>11, <3>1, <4>2
      <4>3. QED BY <4>1, <4>2
    <3>2. QED BY <3>1
  <2> HIDE DEF g
  <2>5. QED BY <1>10, <1>13, <2>2, <2>3, <2>4, Shift
<1>15. Once'
  <2>1. ASSUME NEW u \in Threads, NEW d \in Classes, NEW j \in Banks
        PROVE  /\ NoTwice(cache'[u][d][j])
               /\ \A x \in Members(cache'[u][d][j]) : x.blk.len = Size[d]
    <3>1. CASE u = t /\ d = c /\ j = k
      BY <1>3, <1>6, <1>8, <1>9, <3>1 DEF last
    <3>2. CASE u # t \/ d # c \/ j # k
      <4>1. /\ NoTwice(cache[u][d][j])
            /\ \A x \in Members(cache[u][d][j]) : x.blk.len = Size[d]
        BY CtxFacts DEF Good, Once
      <4>2. cache'[u][d][j] = cache[u][d][j]
        BY <1>9, <3>2
      <4>3. QED BY <4>1, <4>2
    <3>3. QED BY <3>1, <3>2
  <2>2. QED BY <1>14, <2>1 DEF Once
<1>16. \A s : Of(s)' = Of(s)
  BY <1>13, <1>14, Moved DEF w
<1>17. held' \subseteq Blks /\ lost' \subseteq Blks
  <2>1. BlksIn(full) \subseteq Blks
    <3>1. ASSUME NEW i \in DOMAIN full PROVE full[i].blk \in Blks
      <4>1. full[i] \in Entries
        BY <1>3
      <4>2. QED BY <4>1 DEF Entries
    <3>2. QED BY <3>1 DEF BlksIn
  <2>2. e.blk \in Blks /\ D \subseteq Blks
    BY <1>5, <1>6, <1>8, <2>1 DEF D
  <2>3. held \subseteq Blks /\ lost \subseteq Blks
    BY <1>3 DEF Types
  <2>4. QED BY <1>1, <1>7, <2>2, <2>3 DEF e, rest
<1>18. QED BY <1>9, <1>15, <1>16, <1>17
LEMMA MallocHitGood ==
  ASSUME Ctx, NEW t \in Threads, NEW c \in Classes, MallocHit(t, c)
  PROVE  Good'
<1>1. /\ pc[t] = "idle" /\ pc' = pc /\ my' = my /\ v' = v /\ lru' = lru /\ lruLen' = lruLen
      /\ bin' = bin /\ now' = now /\ morphLen' = morphLen /\ numaList' = numaList
      /\ TakeFrom(t, c) /\ Filled(t, c) # {}
  BY DEF MallocHit, lruVars, listVars, remVars
<1>2. /\ Once' /\ \A s : Of(s)' = Of(s)
      /\ cache' \in [Threads -> [Classes -> [Banks -> Seq(Entries)]]]
      /\ turn' \in [Threads -> [Classes -> Banks]]
      /\ held' \subseteq Blks /\ lost' \subseteq Blks
      /\ \A u \in Threads \ {t} : cache'[u] = cache[u]
  BY <1>1, TakeFromMoves
<1>3. Types'
  BY <1>1, <1>2, CtxFacts DEF Types
<1>4. Steps(t) /\ Others(t) /\ Unmoved
  BY <1>1, CtxFacts DEF Steps, Locks, Others, Unmoved, Types
<1>5. HandOK(t)' /\ Local(t)'
  <2>1. HandOK(t)'
    BY <1>1, CtxFacts DEF HandOK, InHand
  <2>2. Local(t)'
    BY <1>1, LocalFree DEF Elsewhen
  <2>3. QED BY <2>1, <2>2
<1>6. Hands'
  BY <1>1, <1>4, <1>5, HandsStep, CtxFacts DEF Good
<1>7. Slabwise' /\ Morphing'
  BY <1>1, <1>2, <1>4, SlabwiseStep, CtxFacts DEF Good
<1>8. Alive'
  BY <1>1, <1>4, <1>5, AliveStep, CtxFacts DEF Good, Local
<1>9. Aged'
  BY <1>1, <1>4, <1>5, AgedStep, CtxFacts DEF Good, Local, Aged
<1>10. Remote'
  BY <1>1, <1>4, RemoteStep, CtxFacts DEF Good
<1>11. Filling'
  BY <1>2, <1>4, <1>5, FillStep, CtxFacts DEF Good, Local
<1>12. Bins'
  BY <1>1, <1>4, <1>5, BinsStep, CtxFacts DEF Good, Local
<1>13. Unbinned'
  BY <1>1, <1>4, UnbinnedStep, CtxFacts DEF Good
<1>14. QED BY <1>2, <1>3, <1>6, <1>7, <1>8, <1>9, <1>10, <1>11, <1>12, <1>13 DEF Good

LEMMA TakeGood ==
  ASSUME Ctx, NEW t \in Threads, Take(t)
  PROVE  Good'
<1>1. /\ pc[t] = "take" /\ v' = v /\ lru' = lru /\ lruLen' = lruLen
      /\ bin' = bin /\ now' = now /\ morphLen' = morphLen /\ numaList' = numaList
      /\ TakeFrom(t, my[t].cls) /\ Rest(t, "idle")
  BY DEF Take, lruVars, listVars, remVars
<1>2. PICK c : c = my[t].cls
  OBVIOUS
<1>3. /\ Steps(t) /\ pc'[t] = "idle" /\ my' \in [Threads -> Works]
      /\ my'[t].blk = NoBlock /\ Local(t)' /\ pc'[t] \notin InMorph /\ pc'[t] \notin InHand
  BY <1>1, RestFacts
<1>4. Others(t) /\ Unmoved
  BY <1>1, <1>3, StepsUnmoved DEF Steps, Others, InMorph
<1>5. c \in Classes /\ Filled(t, c) # {} /\ my[t].blk = NoBlock
  BY <1>1, <1>2, CtxFacts, WorkType DEF FillOK, Ready, Filled, HandOK, InHand
<1>6. /\ Once' /\ \A s : Of(s)' = Of(s)
      /\ cache' \in [Threads -> [Classes -> [Banks -> Seq(Entries)]]]
      /\ turn' \in [Threads -> [Classes -> Banks]]
      /\ held' \subseteq Blks /\ lost' \subseteq Blks
      /\ \A u \in Threads \ {t} : cache'[u] = cache[u]
  <2>1. \A u \in Threads : my'[u].blk = my[u].blk
    BY <1>3, <1>4, <1>5 DEF Others
  <2>2. TakeFrom(t, c)
    BY <1>1, <1>2
  <2>3. QED BY <1>1, <1>5, <2>1, <2>2, TakeFromMoves
<1>7. Types'
  BY <1>1, <1>3, <1>6, CtxFacts DEF Types
<1>8. HandOK(t)'
  BY <1>3 DEF HandOK, InHand
<1>9. Hands'
  BY <1>1, <1>4, <1>8, HandsStep, CtxFacts DEF Good
<1>10. Slabwise' /\ Morphing'
  BY <1>1, <1>4, <1>6, SlabwiseStep, CtxFacts DEF Good
<1>11. Alive'
  BY <1>1, <1>3, <1>4, AliveStep, CtxFacts DEF Good, Local
<1>12. Aged'
  BY <1>1, <1>3, <1>4, AgedStep, CtxFacts DEF Good, Local, Aged
<1>13. Remote'
  BY <1>1, <1>4, RemoteStep, CtxFacts DEF Good
<1>14. Filling'
  BY <1>3, <1>4, <1>6, FillStep, CtxFacts DEF Good, Local
<1>15. Bins'
  BY <1>1, <1>3, <1>4, BinsStep, CtxFacts DEF Good, Local
<1>16. Unbinned'
  BY <1>1, <1>4, UnbinnedStep, CtxFacts DEF Good
<1>17. QED BY <1>6, <1>7, <1>9, <1>10, <1>11, <1>12, <1>13, <1>14, <1>15, <1>16 DEF Good
(* A block goes into a thread's hand.                                       *)
LEMMA HandStep ==
  ASSUME Ctx, NEW t \in Threads, pc[t] \in {"idle", "putback"}, NEW b \in Blocks,
         NEW p \in InHand, NEW w \in Works, Be(t, p, w), w.blk = b, w.cur = b.slab,
         w.idx = Index(w.sc, b.at),
         v' = v, lru' = lru, lruLen' = lruLen, morphLen' = morphLen, bin' = bin, now' = now,
         numaList' = numaList, turn' = turn, lost' = lost, held' \subseteq Blks,
         cache' \in [Threads -> [Classes -> [Banks -> Seq(Entries)]]],
         \A u \in Threads \ {t} : cache'[u] = cache[u],
         Once', \A s : Of(s)' = Of(s)
  PROVE  Good'
<1>1. b.slab \in Slots /\ v[b.slab].live /\ b \in Blks
  BY CtxFacts, BlockTypes, BlockLive
<1>2. Steps(t) /\ pc'[t] = p /\ my' \in [Threads -> Works] /\ my'[t] = w
  BY CtxFacts, WorkSet, PcSet, BeSteps DEF Be, Ctx
<1>3. Others(t) /\ Unmoved
  BY <1>2, StepsUnmoved DEF Steps, Others, InMorph, InHand
<1>4. Types'
  BY <1>2, CtxFacts DEF Types
<1>5. PICK s : s = b.slab
  OBVIOUS
<1>6. HandOK(t)' /\ OnLive(t)' /\ Walks(t)' /\ Alone(t)' /\ FillOK(t)' /\ BinOK(t)'
  <2>1. my'[t].cur = s /\ my'[t].blk = b /\ my'[t].sc = w.sc /\ my'[t].idx = w.idx
    BY <1>2, <1>5
  <2>2. b.slab = s /\ v'[s].live
    BY <1>1, <1>5
  <2>3. HandOK(t)'
    BY <1>1, <1>2, <2>1, <2>2 DEF HandOK
  <2>4. OnLive(t)'
    BY <2>1, <2>2 DEF OnLive
  <2>5. Walks(t)' /\ Alone(t)' /\ FillOK(t)' /\ BinOK(t)'
    BY <1>2 DEF Walks, Alone, Leaving, FillOK, Ready, BinOK, AtBin, InHand
  <2>6. QED BY <2>3, <2>4, <2>5
<1>7. Remote'
  BY <1>3, RemoteStep, CtxFacts DEF Good
<1>8. pc[t] \notin InMorph /\ pc'[t] \notin InMorph /\ pc[t] # "insert"
  BY <1>2 DEF InMorph, InHand
<1>9. QED BY <1>1, <1>2, <1>4, <1>5, <1>6, <1>7, <1>8, BlocksStep

(* A block goes from a client to a thread's hand.                           *)
LEMMA HeldToHand ==
  ASSUME Ctx, NEW t \in Threads, pc[t] \in {"idle", "putback"}, NEW b \in held,
         held' = held \ {b}, Others(t), my'[t].blk = b, v' = v, cache' = cache, lost' = lost
  PROVE  Once' /\ \A s : Of(s)' = Of(s)
<1> DEFINE p == <<"held">>
           q == <<"hand", t>>
<1>1. b # NoBlock /\ my[t].blk = NoBlock
  BY CtxFacts, PlainType DEF Types, HandOK, InHand
<1>2. /\ p \in Spots /\ q \in Spots /\ p # q
      /\ Whereabouts[p] = held /\ Whereabouts[q] = {} 
      /\ Whereabouts'[p] = held \ {b} /\ Whereabouts'[q] = {b}
  BY <1>1, SpotsAre, SpotsDiffer, WhereIs, WhereIsNext
<1>3. \A x \in Spots \ {p, q} : Whereabouts'[x] = Whereabouts[x]
  <2>1. \A s \in Slots : Returned(s)' = Returned(s)
    BY ReturnedStep
  <2>2. \A u \in Threads : <<"hand", u>> \in {p, q} \/ my'[u].blk = my[u].blk
    BY DEF Others
  <2>3. QED BY <2>1, <2>2, Elsewhere
<1> HIDE DEF p, q
<1>4. Apart(Whereabouts') /\ Union(Whereabouts') = Union(Whereabouts)
  <2>1. Apart(Whereabouts)
    BY CtxFacts DEF Good, Once
  <2>2. b \in Whereabouts[p] /\ Whereabouts'[q] = Whereabouts[q] \union {b}
          /\ Whereabouts'[p] = Whereabouts[p] \ {b}
    BY <1>2
  <2> DEFINE f == Whereabouts
             g == Whereabouts'
  <2>3. Apart(f) /\ b \in f[p] /\ g[q] = f[q] \union {b} /\ g[p] = f[p] \ {b}
          /\ \A x \in Spots \ {p, q} : g[x] = f[x]
    BY <1>3, <2>1, <2>2
  <2> HIDE DEF f, g
  <2>4. Apart(g) /\ Union(g) = Union(f)
    BY <1>2, <2>3, Shift
  <2>5. QED BY <2>4 DEF f, g
<1>5. Once'
  BY <1>4, CtxFacts DEF Good, Once
<1>6. QED BY <1>4, <1>5, Moved

(* What a thread sets out to free, and with which layout before last.       *)
FreeWork(b, scb, then) ==
  [NoWork EXCEPT !.cur = b.slab, !.blk = b, !.idx = Index(v[b.slab].sc, b.at), !.sc = v[b.slab].sc,
                 !.scb = scb, !.then = then]

LEMMA FreeWorkIs ==
  ASSUME Ctx, NEW b \in Blocks, NEW then \in {"idle", "putback"}, NEW scb \in LayoutSet
  PROVE  LET w == FreeWork(b, scb, then)
         IN  /\ w \in Works /\ w.blk = b /\ w.cur = b.slab /\ w.sc = v[b.slab].sc
             /\ w.idx = Index(v[b.slab].sc, b.at) /\ w.idx = Index(w.sc, b.at)
<1> DEFINE s == b.slab
           sc == v[s].sc
           i == Index(sc, b.at)
<1>1. s \in Slots /\ b \in Blks /\ b.at \in Nat /\ sc \in LayoutSet
  BY CtxFacts, BlockTypes, GoodTypes, SlabType
<1>2. i \in Int
  BY <1>1, IndexType
<1> HIDE DEF sc, i
<1> DEFINE w == [NoWork EXCEPT !.cur = s, !.blk = b, !.idx = i, !.sc = sc, !.scb = scb, !.then = then]
<1>3. w \in Works /\ w.blk = b /\ w.cur = s /\ w.sc = sc /\ w.idx = i
  BY <1>1, <1>2, PlainType DEF Works
<1>4. FreeWork(b, scb, then) = w
  BY DEF FreeWork, i, sc
<1>5. QED BY <1>3, <1>4 DEF i, sc

LEMMA StartIs ==
  ASSUME Ctx, NEW t, NEW b \in Blocks, NEW then, Start(t, b, then)
  PROVE  /\ Be(t, IF ByTable(b) THEN "old" ELSE "unset", FreeWork(b, v[b.slab].scb, then))
         /\ v[b.slab].scb \in LayoutSet
<1>1. Be(t, IF ByTable(b) THEN "old" ELSE "unset", FreeWork(b, v[b.slab].scb, then))
  BY Zenon DEF Start, FreeWork
<1>2. v[b.slab].scb \in LayoutSet
  BY CtxFacts, BlockTypes, GoodTypes, SlabType
<1>3. QED BY <1>1, <1>2
LEMMA FreeGood ==
  ASSUME Ctx, NEW t \in Threads, NEW b \in held, Free(t, b)
  PROVE  Good'
<1>1. /\ pc[t] = "idle" /\ v' = v /\ lru' = lru /\ lruLen' = lruLen /\ morphLen' = morphLen
      /\ bin' = bin /\ now' = now /\ numaList' = numaList /\ turn' = turn /\ lost' = lost
      /\ cache' = cache /\ held' = held \ {b} /\ Start(t, b, "idle")
  BY DEF Free, memVars, lruVars, listVars, remVars
<1>2. b \in Blocks
  BY DEF Blocks
<1> DEFINE w == FreeWork(b, v[b.slab].scb, "idle")
           p == IF ByTable(b) THEN "old" ELSE "unset"
<1>4. Be(t, p, w) /\ v[b.slab].scb \in LayoutSet
  BY <1>1, <1>2, StartIs
<1>3. w \in Works /\ w.blk = b /\ w.cur = b.slab /\ w.idx = Index(w.sc, b.at)
  BY <1>2, <1>4, FreeWorkIs
<1>5. p \in InHand
  BY DEF InHand
<1> HIDE DEF w, p
<1>6. Others(t) /\ my'[t].blk = b
  <2>1. Steps(t) /\ my'[t] = w
    BY <1>3, <1>4, CtxFacts, WorkSet, BeSteps DEF Be, Ctx
  <2>2. QED BY <1>3, <2>1 DEF Steps, Others
<1>7. Once' /\ \A s : Of(s)' = Of(s)
  BY <1>1, <1>6, HeldToHand
<1>8. held' \subseteq Blks /\ cache' \in [Threads -> [Classes -> [Banks -> Seq(Entries)]]]
  BY <1>1, CtxFacts DEF Types
<1>9. QED BY <1>1, <1>2, <1>3, <1>4, <1>5, <1>7, <1>8, HandStep

LEMMA FarFreeGood ==
  ASSUME Ctx, NEW t \in Threads, NEW b \in held, FarFree(t, b)
  PROVE  Good'
<1> DEFINE w == [NoWork EXCEPT !.cur = b.slab, !.blk = b, !.sc = v[b.slab].sc,
                               !.idx = Index(v[b.slab].sc, b.at)]
<1>1. /\ pc[t] = "idle" /\ v' = v /\ lru' = lru /\ lruLen' = lruLen /\ morphLen' = morphLen
      /\ bin' = bin /\ now' = now /\ numaList' = numaList /\ turn' = turn /\ lost' = lost
      /\ cache' = cache /\ held' = held \ {b} /\ Be(t, "far", w)
  BY DEF FarFree, lruVars, listVars, memVars
<1>2. b \in Blocks
  BY DEF Blocks
<1>3. /\ w \in Works /\ w.blk = b /\ w.cur = b.slab /\ w.idx = Index(w.sc, b.at)
  <2> DEFINE s == b.slab
             sc == v[s].sc
             i == Index(sc, b.at)
  <2>1. s \in Slots /\ b \in Blks /\ b.at \in Nat /\ sc \in LayoutSet
    BY <1>2, CtxFacts, BlockTypes, GoodTypes, SlabType
  <2>2. i \in Int
    BY <2>1, IndexType
  <2> HIDE DEF sc, i
  <2> DEFINE x == [NoWork EXCEPT !.cur = s, !.blk = b, !.sc = sc, !.idx = i]
  <2>3. x \in Works /\ x.blk = b /\ x.cur = s /\ x.sc = sc /\ x.idx = i
    BY <2>1, <2>2, PlainType DEF Works
  <2>4. w = x
    BY DEF i, sc
  <2>5. QED BY <2>3, <2>4 DEF i, sc
<1> HIDE DEF w
<1>4. Others(t) /\ my'[t].blk = b
  <2>1. Steps(t) /\ my'[t] = w
    BY <1>1, <1>3, CtxFacts, WorkSet, BeSteps DEF Be, Ctx
  <2>2. QED BY <1>3, <2>1 DEF Steps, Others
<1>5. Once' /\ \A s : Of(s)' = Of(s)
  BY <1>1, <1>4, HeldToHand
<1>6. held' \subseteq Blks /\ cache' \in [Threads -> [Classes -> [Banks -> Seq(Entries)]]]
  BY <1>1, CtxFacts DEF Types
<1>7. "far" \in InHand
  BY DEF InHand
<1>8. QED BY <1>1, <1>2, <1>3, <1>5, <1>6, <1>7, HandStep

LEMMA PutBackGood ==
  ASSUME Ctx, NEW t \in Threads, PutBack(t)
  PROVE  Good'
<1> DEFINE c == Min(AllFilled(t))
           k == Min(Filled(t, c))
           l == cache[t][c][k]
           b == Front(l).blk
<1>1. /\ pc[t] = "putback" /\ v' = v /\ lru' = lru /\ lruLen' = lruLen /\ morphLen' = morphLen
      /\ bin' = bin /\ now' = now /\ numaList' = numaList /\ turn' = turn /\ lost' = lost
      /\ held' = held /\ AllFilled(t) # {}
  BY DEF PutBack, memVars, lruVars, listVars, remVars
<1>2. Start(t, b, "putback") /\ cache' = [cache EXCEPT ![t][c][k] = Tail(@)]
  BY Zenon DEF PutBack
<1>3. c \in Classes /\ k \in Banks /\ l # <<>>
  <2>1. AllFilled(t) \subseteq Nat /\ AllFilled(t) \subseteq Classes
    BY SlabsAssumption DEF AllFilled
  <2>2. c \in AllFilled(t)
    BY <1>1, <2>1, MinIn
  <2>3. c \in Classes /\ Filled(t, c) # {}
    BY <2>2 DEF AllFilled
  <2> HIDE DEF c
  <2>4. Filled(t, c) \subseteq Nat
    BY SlabsAssumption DEF Filled, Banks
  <2>5. k \in Filled(t, c)
    BY <2>3, <2>4, MinIn
  <2>6. QED BY <2>3, <2>5 DEF Filled
<1> HIDE DEF c, k
<1>4. Types /\ l \in Seq(Entries) /\ NoTwice(l) /\ \A d \in Members(l) : d.blk.len = Size[c]
  BY <1>3, CtxFacts DEF Good, Types, Once
<1>5. /\ Tail(l) \in Seq(Entries) /\ NoTwice(Tail(l))
      /\ BlksIn(Tail(l)) = BlksIn(l) \ {b} /\ b \in BlksIn(l)
      /\ Members(Tail(l)) \subseteq Members(l)
  <2> HIDE DEF l
  <2>1. QED BY <1>3, <1>4, BankTail
<1> DEFINE rest == Tail(l)
<1>6. /\ cache' \in [Threads -> [Classes -> [Banks -> Seq(Entries)]]] /\ cache'[t][c][k] = rest
      /\ \A u \in Threads, d \in Classes, j \in Banks :
           u # t \/ d # c \/ j # k => cache'[u][d][j] = cache[u][d][j]
      /\ \A u \in Threads \ {t} : cache'[u] = cache[u]
  <2>1. rest \in Seq(Entries) /\ cache \in [Threads -> [Classes -> [Banks -> Seq(Entries)]]]
    BY <1>4, <1>5 DEF Types
  <2>2. cache' = [cache EXCEPT ![t][c][k] = rest]
    BY <1>2
  <2> HIDE DEF rest
  <2>3. QED BY <1>3, <2>1, <2>2
<1> HIDE DEF l, rest, b
<1> DEFINE p == <<"bank", t, c, k>>
           q == <<"hand", t>>
<1>7. b \in Blocks /\ b \in Whereabouts[p] /\ p \in Spots
  <2>1. p \in Spots /\ Whereabouts[p] = BlksIn(l)
    BY <1>3, SpotsAre, WhereIs DEF l
  <2>2. b \in Union(Whereabouts)
    BY <1>5, <2>1 DEF Union, rest
  <2>3. QED BY <1>5, <2>1, <2>2, Gathered
<1> DEFINE w == FreeWork(b, v[b.slab].scb, "putback")
           n == IF ByTable(b) THEN "old" ELSE "unset"
<1>9. Be(t, n, w) /\ v[b.slab].scb \in LayoutSet
  <2>1. Start(t, b, "putback")
    BY <1>2 DEF b, l
  <2>2. QED BY <1>7, <2>1, StartIs
<1>8. w \in Works /\ w.blk = b /\ w.cur = b.slab /\ w.idx = Index(w.sc, b.at)
  BY <1>7, <1>9, FreeWorkIs
<1>10. n \in InHand
  BY DEF InHand
<1> HIDE DEF w, n
<1>11. Others(t) /\ my'[t].blk = b
  <2>1. Steps(t) /\ my'[t] = w
    BY <1>8, <1>9, CtxFacts, WorkSet, BeSteps DEF Be, Ctx
  <2>2. QED BY <1>8, <2>1 DEF Steps, Others
<1>12. Apart(Whereabouts') /\ Union(Whereabouts') = Union(Whereabouts)
  <2>1. b # NoBlock /\ my[t].blk = NoBlock
    BY <1>1, <1>7, CtxFacts, PlainType, BlockTypes DEF HandOK, InHand
  <2>2. /\ q \in Spots /\ p # q /\ Whereabouts[q] = {} /\ Whereabouts'[q] = {b}
        /\ Whereabouts[p] = BlksIn(l) /\ Whereabouts'[p] = BlksIn(rest)
    BY <1>3, <1>6, <1>11, <2>1, SpotsAre, SpotsDiffer, WhereIs, WhereIsNext DEF l
  <2>3. \A x \in Spots \ {p, q} : Whereabouts'[x] = Whereabouts[x]
    <3>1. \A s \in Slots : Returned(s)' = Returned(s)
      BY <1>1, ReturnedStep
    <3>2. \A u \in Threads : <<"hand", u>> \in {p, q} \/ my'[u].blk = my[u].blk
      BY <1>11 DEF Others
    <3>3. \A u \in Threads, d \in Classes, j \in Banks :
             <<"bank", u, d, j>> \in {p, q} \/ cache'[u][d][j] = cache[u][d][j]
      BY <1>6
    <3>4. held' = held /\ lost' = lost
      BY <1>1
    <3> HIDE DEF p, q
    <3>5. QED BY <3>1, <3>2, <3>3, <3>4, Elsewhere
  <2> DEFINE f == Whereabouts
             g == Whereabouts'
  <2>4. Apart(f) /\ b \in f[p] /\ g[q] = f[q] \union {b} /\ g[p] = f[p] \ {b}
          /\ \A x \in Spots \ {p, q} : g[x] = f[x]
    BY <1>5, <1>7, <2>2, <2>3, CtxFacts DEF Good, Once, rest
  <2> HIDE DEF f, g, p, q
  <2>5. Apart(g) /\ Union(g) = Union(f)
    BY <1>7, <2>2, <2>4, Shift
  <2>6. QED BY <2>5 DEF f, g
<1>13. Once'
  <2>1. ASSUME NEW u \in Threads, NEW d \in Classes, NEW j \in Banks
        PROVE  /\ NoTwice(cache'[u][d][j])
               /\ \A x \in Members(cache'[u][d][j]) : x.blk.len = Size[d]
    <3>1. CASE u = t /\ d = c /\ j = k
      BY <1>4, <1>5, <1>6, <3>1 DEF rest
    <3>2. CASE u # t \/ d # c \/ j # k
      <4>1. /\ NoTwice(cache[u][d][j])
            /\ \A x \in Members(cache[u][d][j]) : x.blk.len = Size[d]
        BY CtxFacts DEF Good, Once
      <4>2. cache'[u][d][j] = cache[u][d][j]
        BY <1>6, <3>2
      <4>3. QED BY <4>1, <4>2
    <3>3. QED BY <3>1, <3>2
  <2>2. QED BY <1>12, <2>1 DEF Once
<1>14. \A s : Of(s)' = Of(s)
  BY <1>12, Moved
<1>15. held' \subseteq Blks
  BY <1>1, CtxFacts DEF Types
<1>16. QED BY <1>1, <1>6, <1>7, <1>8, <1>9, <1>10, <1>13, <1>14, <1>15, HandStep
(* A block goes into a bank.                                                *)
Puts(t, c, k, e) == cache' = [cache EXCEPT ![t][c][k] = Append(@, e)]
PutDone(t, c, k, e) ==
  /\ cache' \in [Threads -> [Classes -> [Banks -> Seq(Entries)]]]
  /\ \A u \in Threads \ {t} : cache'[u] = cache[u]
  /\ \A u \in Threads, d \in Classes, j \in Banks :
       u # t \/ d # c \/ j # k => cache'[u][d][j] = cache[u][d][j]
  /\ cache'[t][c][k] # <<>>
  /\ \A u \in Threads, d \in Classes, j \in Banks :
       /\ NoTwice(cache'[u][d][j])
       /\ \A x \in Members(cache'[u][d][j]) : x.blk.len = Size[d]
  /\ Whereabouts'[<<"bank", t, c, k>>] = Whereabouts[<<"bank", t, c, k>>] \union {e.blk}

LEMMA BankEnters ==
  ASSUME Ctx, NEW t \in Threads, NEW c \in Classes, NEW k \in Banks, NEW e \in Entries,
         e.blk.len = Size[c], e.blk \notin Whereabouts[<<"bank", t, c, k>>],
         Puts(t, c, k, e)
  PROVE  PutDone(t, c, k, e)
<1> DEFINE l == cache[t][c][k]
<1>1. /\ Types /\ l \in Seq(Entries) /\ NoTwice(l) /\ \A d \in Members(l) : d.blk.len = Size[c]
      /\ e.blk \notin BlksIn(l)
  BY CtxFacts, WhereIs DEF Good, Types, Once
<1> DEFINE m == Append(l, e)
<1>2. /\ m \in Seq(Entries) /\ NoTwice(m) /\ BlksIn(m) = BlksIn(l) \union {e.blk}
      /\ Members(m) = Members(l) \union {e} /\ m # <<>>
  <2> HIDE DEF l
  <2>1. QED BY <1>1, BankPut
<1>3. cache' = [cache EXCEPT ![t][c][k] = m]
  BY DEF Puts
<1>4. cache \in [Threads -> [Classes -> [Banks -> Seq(Entries)]]]
  BY <1>1 DEF Types
<1> HIDE DEF m
<1>5. /\ cache' \in [Threads -> [Classes -> [Banks -> Seq(Entries)]]] /\ cache'[t][c][k] = m
      /\ \A u \in Threads, d \in Classes, j \in Banks :
           u # t \/ d # c \/ j # k => cache'[u][d][j] = cache[u][d][j]
      /\ \A u \in Threads \ {t} : cache'[u] = cache[u]
  BY <1>2, <1>3, <1>4
<1>6. ASSUME NEW u \in Threads, NEW d \in Classes, NEW j \in Banks
      PROVE  /\ NoTwice(cache'[u][d][j])
             /\ \A x \in Members(cache'[u][d][j]) : x.blk.len = Size[d]
  <2>1. CASE u = t /\ d = c /\ j = k
    BY <1>1, <1>2, <1>5, <2>1
  <2>2. CASE u # t \/ d # c \/ j # k
    <3>1. /\ NoTwice(cache[u][d][j])
          /\ \A x \in Members(cache[u][d][j]) : x.blk.len = Size[d]
      BY CtxFacts DEF Good, Once
    <3>2. cache'[u][d][j] = cache[u][d][j]
      BY <1>5, <2>2
    <3>3. QED BY <3>1, <3>2
  <2>3. QED BY <2>1, <2>2
<1>7. Whereabouts'[<<"bank", t, c, k>>] = Whereabouts[<<"bank", t, c, k>>] \union {e.blk}
  <2>1. Whereabouts'[<<"bank", t, c, k>>] = BlksIn(cache'[t][c][k])
    BY WhereIsNext
  <2>2. Whereabouts[<<"bank", t, c, k>>] = BlksIn(l)
    BY WhereIs
  <2> HIDE DEF l
  <2>3. QED BY <1>2, <1>5, <2>1, <2>2
<1>8. QED BY <1>2, <1>5, <1>6, <1>7 DEF PutDone

-----------------------------------------------------------------------------
(* The block in a thread's hand leaves it.                                  *)
LEMMA HandBlock ==
  ASSUME Ctx, NEW t \in Threads, pc[t] \in InHand
  PROVE  /\ my[t].blk \in Blocks /\ my[t].blk \in Of(my[t].cur) /\ my[t].blk # NoBlock
         /\ my[t].cur \in Slots /\ my[t].blk.slab = my[t].cur /\ v[my[t].cur].live
         /\ Whereabouts[<<"hand", t>>] = {my[t].blk} /\ Apart(Whereabouts)
         /\ <<"hand", t>> \in Spots
<1>1. my[t].blk \in Blks /\ my[t].blk.slab = my[t].cur /\ my[t].blk # NoBlock
  BY CtxFacts, PlainType DEF HandOK
<1>2. Whereabouts[<<"hand", t>>] = {my[t].blk} /\ <<"hand", t>> \in Spots
  BY <1>1, WhereIs, SpotsAre
<1>3. my[t].blk \in Blocks
  BY <1>2, Gathered DEF Union
<1>4. my[t].cur \in Slots /\ v[my[t].cur].live
  BY CtxFacts DEF InHand, OnSlab, OnLive
<1>5. QED BY <1>1, <1>2, <1>3, <1>4, CtxFacts DEF Good, Once, Of

(* A block of the slab's layout goes from a thread's hand to its cache, or  *)
(* stays there until the slab's lock is free.                               *)
LEMMA CachedGood ==
  ASSUME Ctx, NEW t \in Threads, Unset(t), ~Outdated(t), ToCache(t)
  PROVE  Good'
<1> DEFINE b == my[t].blk
           c == my[t].sc.cls
           i == my[t].idx
           k == i % NBanks
           e == [blk |-> b, mi |-> i]
<1>1. /\ pc[t] = "unset" /\ v' = v /\ lru' = lru /\ lruLen' = lruLen
      /\ bin' = bin /\ now' = now /\ morphLen' = morphLen /\ numaList' = numaList
      /\ held' = held /\ cache' = [cache EXCEPT ![t][c][k] = Append(@, e)]
      /\ turn' = turn /\ lost' = lost /\ Done(t)
  <2>1. cache' = [cache EXCEPT ![t][c][k] = Append(@, e)] /\ Done(t)
    BY Zenon DEF Unset
  <2>2. /\ pc[t] = "unset"
        /\ UNCHANGED <<v, listVars, lruVars, turn, held, lost, remVars>>
    BY Zenon DEF Unset
  <2> HIDE DEF e, k
  <2>3. QED BY <2>1, <2>2 DEF lruVars, listVars, remVars
<1>2. /\ my[t].cur \in Slots /\ v[my[t].cur].live /\ my[t] \in Works
      /\ b \in Blocks /\ Whereabouts[<<"hand", t>>] = {b} /\ Apart(Whereabouts)
      /\ b \in Blks
  BY <1>1, HandBlock, CtxFacts, BlockTypes DEF InHand
<1>3. b.len = Size[c]
  BY <1>1 DEF Outdated
<1>4. c \in Classes /\ i \in Int /\ k \in Banks
  <2>1. my[t].sc \in LayoutSet /\ i \in Int
    BY <1>2, WorkType
  <2>2. c \in Classes
    BY <2>1, LayoutType
  <2> HIDE DEF i
  <2>3. i % NBanks \in 0 .. NBanks - 1
    BY <2>1, SlabsAssumption
  <2>4. QED BY <2>1, <2>2, <2>3 DEF Banks
<1> HIDE DEF k, c, i
<1>5. e \in Entries /\ e.blk = b
  BY <1>2, <1>4 DEF Entries
<1> HIDE DEF e
<1>6. /\ Steps(t) /\ pc'[t] \in {"idle", "putback"} /\ my' \in [Threads -> Works]
      /\ my'[t].blk = NoBlock /\ Local(t)' /\ Others(t)
  BY <1>1, DoneFacts DEF Steps, Others
<1> DEFINE p == <<"hand", t>>
           q == <<"bank", t, c, k>>
<1>7. /\ p \in Spots /\ q \in Spots /\ p # q /\ Whereabouts[p] = {b} /\ Whereabouts'[p] = {}
  BY <1>2, <1>4, <1>6, SpotsAre, SpotsDiffer, WhereIs, WhereIsNext
<1>8. Apart(Whereabouts) /\ b \notin Whereabouts[q]
  BY <1>2, <1>7 DEF Apart
<1>9. /\ cache' \in [Threads -> [Classes -> [Banks -> Seq(Entries)]]]
      /\ \A u \in Threads \ {t} : cache'[u] = cache[u]
      /\ \A u \in Threads, d \in Classes, j \in Banks :
           u # t \/ d # c \/ j # k => cache'[u][d][j] = cache[u][d][j]
      /\ \A u \in Threads, d \in Classes, j \in Banks :
           /\ NoTwice(cache'[u][d][j])
           /\ \A x \in Members(cache'[u][d][j]) : x.blk.len = Size[d]
      /\ Whereabouts'[q] = Whereabouts[q] \union {b}
  <2>1. e.blk.len = Size[c] /\ e.blk \notin Whereabouts[<<"bank", t, c, k>>]
    BY <1>3, <1>5, <1>8 DEF c
  <2>2. Puts(t, c, k, e)
    BY <1>1 DEF Puts
  <2>3. PutDone(t, c, k, e)
    BY <1>4, <1>5, <2>1, <2>2, BankEnters
  <2>4. QED BY <1>5, <2>3 DEF PutDone
<1>10. \A x \in Spots \ {p, q} : Whereabouts'[x] = Whereabouts[x]
  <2>1. \A x \in Slots : Returned(x)' = Returned(x)
    BY <1>1, ReturnedStep
  <2>2. \A u \in Threads, d \in Classes, j \in Banks :
           <<"bank", u, d, j>> \in {p, q} \/ cache'[u][d][j] = cache[u][d][j]
    BY <1>9
  <2>3. held' = held /\ lost' = lost /\ \A u \in Threads : <<"hand", u>> \in {p, q} \/ my'[u].blk = my[u].blk
    BY <1>1, <1>6 DEF Others
  <2> HIDE DEF p, q
  <2>4. QED BY <2>1, <2>2, <2>3, Elsewhere
<1> HIDE DEF p, q
<1>11. Apart(Whereabouts') /\ Union(Whereabouts') = Union(Whereabouts)
  <2> DEFINE f == Whereabouts
             g == Whereabouts'
  <2>1. Apart(f) /\ b \in f[p] /\ g[q] = f[q] \union {b} /\ g[p] = f[p] \ {b}
          /\ \A x \in Spots \ {p, q} : g[x] = f[x]
    BY <1>7, <1>8, <1>9, <1>10
  <2> HIDE DEF f, g
  <2>2. Apart(g) /\ Union(g) = Union(f)
    BY <1>7, <2>1, Shift
  <2>3. QED BY <2>2 DEF f, g
<1>12. Once' /\ \A x : Of(x)' = Of(x)
  BY <1>9, <1>11, Moved DEF Once
<1>13. Types'
  BY <1>1, <1>6, <1>9, CtxFacts DEF Types
<1>14. HandOK(t)'
  BY <1>6 DEF HandOK, InHand
<1>15. Remote'
  BY <1>1, <1>6, RemoteStep, CtxFacts DEF Good
<1>16. pc[t] \notin InMorph /\ pc'[t] \notin InMorph /\ pc[t] # "insert"
  BY <1>1, <1>6 DEF InMorph
<1>17. PICK s : s = my[t].cur
  OBVIOUS
<1>18. QED
  BY <1>1, <1>2, <1>6, <1>9, <1>12, <1>13, <1>14, <1>15, <1>16, <1>17, BlocksStep DEF Local

LEMMA UnsetGood ==
  ASSUME Ctx, NEW t \in Threads, Unset(t), ~Outdated(t)
  PROVE  Good'
<1>1. CASE ToCache(t)
  BY <1>1, CachedGood
<1>2. CASE ~ToCache(t)
  <2>1. Go(t, "new") /\ my' = my /\ cache' = cache
    BY Zenon, <1>2 DEF Unset
  <2>2. /\ pc[t] = "unset" /\ v' = v /\ lru' = lru /\ lruLen' = lruLen /\ bin' = bin /\ now' = now
        /\ morphLen' = morphLen /\ numaList' = numaList /\ held' = held /\ turn' = turn /\ lost' = lost
    <3>1. pc[t] = "unset" /\ UNCHANGED <<v, listVars, lruVars, turn, held, lost, remVars>>
      BY Zenon DEF Unset
    <3>2. QED BY <3>1 DEF lruVars, listVars, remVars
  <2>3. Steps(t) /\ Others(t) /\ pc'[t] = "new"
    BY <2>1, CtxFacts, PcSet, BeSteps DEF Go, Ctx, Steps, Others
  <2>4. Types'
    BY <2>1, <2>2, CtxFacts DEF Types
  <2>5. Once' /\ \A x : Of(x)' = Of(x)
    <3>1. \A x \in Slots : Returned(x)' = Returned(x)
      BY <2>2, ReturnedStep
    <3>2. \A u \in Threads : my'[u].blk = my[u].blk
      BY <2>1
    <3>3. QED BY <2>1, <2>2, <3>1, <3>2, StillStep, CtxFacts DEF Good
  <2>6. my[t].cur \in Slots /\ v[my[t].cur].live
    BY <2>2, HandBlock DEF InHand
  <2>7. HandOK(t)'
    <3>1. HandOK(t)
      BY CtxFacts
    <3>2. QED BY <2>1, <2>2, <2>3, <3>1 DEF HandOK, InHand
  <2>8. OnLive(t)' /\ Walks(t)' /\ Alone(t)' /\ FillOK(t)' /\ BinOK(t)'
    <3>1. OnLive(t)'
      BY <2>1, <2>2, <2>6 DEF OnLive
    <3>2. QED BY <2>3, <3>1 DEF Walks, Alone, Leaving, FillOK, Ready, BinOK, AtBin
  <2>9. Remote'
    BY <2>2, <2>3, RemoteStep, CtxFacts DEF Good
  <2>10. pc[t] \notin InMorph /\ pc'[t] \notin InMorph /\ pc[t] # "insert"
    BY <2>2, <2>3 DEF InMorph
  <2>11. PICK s : s = my[t].cur
    OBVIOUS
  <2>12. QED
    BY <2>1, <2>2, <2>3, <2>4, <2>5, <2>6, <2>7, <2>8, <2>9, <2>10, <2>11, BlocksStep
<1>3. QED BY <1>1, <1>2

LEMMA HandLeaves ==
  ASSUME Ctx, NEW t \in Threads, NEW s, s = my[t].cur, pc[t] \in InHand, Others(t), my'[t].blk = NoBlock,
         cache' = cache, held' = held, lost' = lost, \A x \in Slots : Returned(x)' = Returned(x)
  PROVE  /\ Once' /\ Of(s)' = Of(s) \ {my[t].blk}
         /\ \A x \in Slots : x # s => Of(x)' = Of(x)
<1> DEFINE p == <<"hand", t>>
           b == my[t].blk
           f == Whereabouts
           g == Whereabouts'
<1>1. /\ p \in Spots /\ f[p] = {b} /\ Apart(f) /\ b.slab = s
  BY HandBlock
<1>2. g[p] = {}
  BY WhereIsNext
<1>3. \A x \in Spots \ {p} : g[x] = f[x]
  <2>1. \A u \in Threads : <<"hand", u>> \in {p} \/ my'[u].blk = my[u].blk
    BY DEF Others
  <2> HIDE DEF p
  <2>2. QED BY <2>1, Elsewhere
<1>4. {b} \subseteq f[p] /\ g[p] = f[p] \ {b}
  BY <1>1, <1>2
<1> HIDE DEF f, g, p, b
<1>5. Apart(g) /\ Union(g) = Union(f) \ {b}
  <2>1. Drains(f, g, p, {b})
    BY <1>1, <1>3, <1>4 DEF Drains
  <2>2. QED BY <2>1, Leave
<1>6. Apart(Whereabouts') /\ Union(Whereabouts') = Union(Whereabouts) \ {b}
  BY <1>5 DEF f, g
<1>7. Of(s)' = Of(s) \ {b} /\ \A x \in Slots : x # s => Of(x)' = Of(x)
  BY <1>1, <1>6, Gone
<1>8. QED BY <1>6, <1>7, CtxFacts DEF Good, Once, b
LEMMA FreeNewGood ==
  ASSUME Ctx, NEW t \in Threads, FreeNew(t), ~Outdated(t)
  PROVE  Good'
<1> PICK s : s = my[t].cur
  OBVIOUS
<1> DEFINE r == v[s]
           i == my[t].idx
           b == my[t].blk
           q == [r EXCEPT !.used = @ \ {i}, !.nbits = @ - 1]
           w1 == [my[t] EXCEPT !.val = morphLen + 1, !.next = "freed", !.blk = NoBlock]
           w2 == [my[t] EXCEPT !.blk = NoBlock]
<1>1. /\ pc[t] = "new" /\ slabLock[s] = None /\ v' = [v EXCEPT ![s] = q]
      /\ Be(t, "len", w1) \/ Be(t, "freed", w2)
      /\ r.sc = my[t].sc /\ b.len = Size[r.sc.cls]
  <2>1. /\ pc[t] = "new" /\ slabLock[s] = None /\ v' = [v EXCEPT ![s] = q]
        /\ Be(t, "len", w1) \/ Be(t, "freed", w2)
    BY Zenon DEF FreeNew
  <2>2. QED BY <2>1 DEF Outdated
<1>2. /\ cache' = cache /\ turn' = turn /\ held' = held /\ lost' = lost /\ bin' = bin /\ now' = now
      /\ lru' = lru /\ lruLen' = lruLen /\ morphLen' = morphLen /\ numaList' = numaList
  BY DEF FreeNew, listVars, lruVars, cacheVars, remVars
<1>3. /\ s \in Slots /\ r \in Vslabs /\ r.live /\ b \in Of(s) /\ b \in Blocks
      /\ i = Index(r.sc, b.at) /\ b.len = Size[r.sc.cls] /\ my[t] \in Works
  BY <1>1, HandBlock, CtxFacts, GoodTypes DEF InHand, HandOK
<1>4. \A u \in Threads : pc[u] \in InMorph => my[u].cur # s
  BY <1>1, <1>3, NotInMorph, CtxFacts DEF InMorph
<1>5. Exact(s, r, Of(s))
  BY <1>3, <1>4, AtRest, CtxFacts
<1>6. b = Block(s, r.sc, i) /\ i \in 0 .. r.sc.n - 1 /\ i \in Indices /\ r.nbits # 0 /\ r.nbits \in Nat
  <2>1. Placed(s, r, b)
    BY <1>3, <1>5 DEF Exact
  <2>2. b = Block(s, r.sc, i) /\ i \in 0 .. r.sc.n - 1
    BY <1>3, <2>1, OwnBlock
  <2>3. r.nbits # 0
    BY <1>3, <1>5, ExactFacts
  <2>4. i \in Indices /\ r.nbits \in Nat
    <3>1. r.sc \in LayoutSet /\ r.nbits \in Nat /\ Indices = 0 .. SlabSize /\ SlabSize \in Nat
      BY <1>3, SlabType
    <3>2. r.sc.n \in Nat /\ r.sc.n < SlabSize
      BY <3>1, LayoutType
    <3> HIDE DEF i, r
    <3>3. QED BY <2>2, <3>1, <3>2
  <2>5. QED BY <2>2, <2>3, <2>4
<1>7. /\ q \in Vslabs /\ q.sc = r.sc /\ q.scb = r.scb /\ q.numb = r.numb /\ q.dnum = r.dnum
      /\ q.rb = r.rb /\ q.rdirty = r.rdirty /\ q.live = r.live
      /\ q.used = r.used \ {i} /\ q.nbits = r.nbits - 1
  <2> HIDE DEF r, i
  <2>1. r.nbits - 1 \in Nat
    BY <1>6
  <2>2. QED BY <1>3, <2>1 DEF Vslabs
<1>8. Exact(s, q, Of(s) \ {b})
  <2> DEFINE D == {i}
  <2>1. D \in SUBSET Indices /\ \A j \in D : Block(s, r.sc, j) \in Of(s)
    BY <1>3, <1>6
  <2>2. Cardinality(D) = 1 /\ {Block(s, r.sc, j) : j \in D} = {b}
    BY <1>6, FS_Singleton
  <2>3. q.used = r.used \ D /\ q.nbits = r.nbits - Cardinality(D)
    BY <1>7, <2>2
  <2> HIDE DEF D, q, r
  <2>4. Exact(s, q, Of(s) \ {Block(s, r.sc, j) : j \in D})
    BY <1>5, <1>7, <2>1, <2>3, ExactLeave
  <2>5. QED BY <2>2, <2>4
<1>9. v' \in [Slots -> Vslabs] /\ v'[s] = q /\ \A x \in Slots : x # s => v'[x] = v[x]
  <2>1. v \in [Slots -> Vslabs]
    BY CtxFacts DEF Types
  <2> HIDE DEF q
  <2>2. QED BY <1>1, <1>3, <1>7, <2>1
<1>10. /\ Steps(t) /\ Others(t) /\ my' \in [Threads -> Works] /\ pc'[t] \in {"len", "freed"}
       /\ my'[t].cur = s /\ my'[t].blk = NoBlock
       /\ pc'[t] = "len" => my'[t].next = "freed"
  <2>1. w1 \in Works /\ w1.cur = s /\ w1.blk = NoBlock /\ w1.next = "freed"
    <3>1. morphLen + 1 \in Int
      BY CtxFacts
    <3>2. QED BY <1>3, <3>1 DEF Works, Pcs
  <2>2. w2 \in Works /\ w2.cur = s /\ w2.blk = NoBlock
    BY <1>3 DEF Works
  <2> HIDE DEF w1, w2
  <2>3. CASE Be(t, "len", w1)
    BY <2>1, <2>3, CtxFacts, WorkSet, PcSet, BeSteps DEF Be, Ctx, Steps, Others
  <2>4. CASE Be(t, "freed", w2)
    BY <2>2, <2>4, CtxFacts, WorkSet, PcSet, BeSteps DEF Be, Ctx, Steps, Others
  <2>5. QED BY <1>1, <2>3, <2>4
<1> HIDE DEF w1, w2, q
<1>11. \A x \in Slots : Returned(x)' = Returned(x)
  BY <1>7, <1>9, ReturnedStep
<1>12. /\ Once' /\ Of(s)' = Of(s) \ {b} /\ \A x \in Slots : x # s => Of(x)' = Of(x)
  BY <1>1, <1>2, <1>10, <1>11, HandLeaves DEF InHand
<1>13. Types'
  BY <1>2, <1>9, <1>10, CtxFacts DEF Types
<1>14. Remote'
  BY <1>1, <1>2, <1>3, <1>7, <1>9, <1>10, RemoteStep, CtxFacts DEF Good
<1>15. HandOK(t)' /\ OnLive(t)' /\ Walks(t)' /\ Alone(t)' /\ FillOK(t)' /\ BinOK(t)'
  <2>1. OnLive(t)'
    BY <1>3, <1>7, <1>9, <1>10 DEF OnLive
  <2>2. HandOK(t)'
    BY <1>10 DEF HandOK, InHand
  <2>3. Walks(t)' /\ Alone(t)'
    BY <1>10 DEF Walks, Alone, Leaving
  <2>4. FillOK(t)' /\ BinOK(t)'
    BY <1>10 DEF FillOK, Ready, BinOK, AtBin
  <2>5. QED BY <2>1, <2>2, <2>3, <2>4
<1>16. pc[t] \notin InMorph /\ pc'[t] \notin InMorph /\ pc[t] # "insert"
  BY <1>1, <1>10 DEF InMorph
<1>17. /\ Exact(s, v'[s], Of(s)') /\ v[s].live /\ v'[s].live /\ v'[s].sc.cls = v[s].sc.cls
       /\ v'[s].numb = v[s].numb /\ v[s].nbits # 0
  BY <1>3, <1>6, <1>7, <1>8, <1>9, <1>12
<1>18. QED
  BY <1>2, <1>3, <1>4, <1>9, <1>10, <1>12, <1>13, <1>14, <1>15, <1>16, <1>17, BlocksStep
LEMMA FreeOldGood ==
  ASSUME Ctx, NEW t \in Threads, FreeOld(t), ~Outdated(t)
  PROVE  Good'
<1> PICK s : s = my[t].cur
  OBVIOUS
<1> DEFINE r == v[s]
           b == my[t].blk
           q == Uncovered(r, b)
           w1 == [my[t] EXCEPT !.next = "check", !.blk = NoBlock]
           w2 == [my[t] EXCEPT !.blk = NoBlock]
           reach == Reach(my[t].sc, my[t].blk.at, Size[my[t].scb.cls])
<1>0. pc[t] = "old" /\ slabLock[s] = None
  BY Zenon DEF FreeOld
<1>2. /\ cache' = cache /\ turn' = turn /\ held' = held /\ lost' = lost /\ bin' = bin /\ now' = now
      /\ lru' = lru /\ lruLen' = lruLen /\ morphLen' = morphLen /\ numaList' = numaList
  <2>1. UNCHANGED <<listVars, lruVars, cacheVars, remVars>>
    BY Zenon DEF FreeOld
  <2>2. QED BY <2>1 DEF listVars, lruVars, cacheVars, remVars
<1>3. /\ s \in Slots /\ r \in Vslabs /\ r.live /\ b \in Of(s) /\ b \in Blocks
      /\ b.len # Size[r.sc.cls] /\ my[t] \in Works
  <2>1. pc[t] = "old" /\ pc[t] \in InHand
    BY <1>0 DEF InHand
  <2>2. s \in Slots /\ r.live /\ b \in Of(s) /\ b \in Blocks
    BY <2>1, HandBlock
  <2>3. my[t].sc = r.sc /\ b.len # Size[my[t].sc.cls]
    BY <2>1 DEF Outdated
  <2> HIDE DEF r, b
  <2>4. QED BY <2>1, <2>2, <2>3, CtxFacts, GoodTypes DEF r
<1>4. \A u \in Threads : pc[u] \in InMorph => my[u].cur # s
  BY <1>0, <1>3, NotInMorph, CtxFacts DEF InMorph
<1>5. Exact(s, r, Of(s))
  BY <1>3, <1>4, AtRest, CtxFacts
<1>19. reach = Covered(r.sc, b)
  <2>1. my[t].sc = r.sc /\ my[t].scb = r.scb
    BY <1>0 DEF Outdated
  <2>2. Placed(s, r, b)
    BY <1>3, <1>5 DEF Exact
  <2>3. b.len = Size[r.scb.cls]
    <3> HIDE DEF r, b
    <3>1. b = Block(s, r.scb, Index(r.scb, b.at))
      BY <1>3, <2>2, OldBlock
    <3>2. QED BY <3>1 DEF Block
  <2>4. QED BY <2>1, <2>3 DEF Covered
<1>1. /\ pc[t] = "old" /\ slabLock[s] = None /\ v' = [v EXCEPT ![s] = q]
      /\ \/ q.nbits = 0 /\ Be(t, "unlink", w1)
         \/ q.nbits # 0 /\ q.numb = 0 /\ Be(t, "relist", w2)
         \/ Done(t)
  <2> DEFINE left == Uncover(r, reach)
  <2>1. /\ v' = [v EXCEPT ![s] = left]
        /\ \/ left.nbits = 0 /\ Be(t, "unlink", w1)
           \/ left.nbits # 0 /\ left.numb = 0 /\ Be(t, "relist", w2)
           \/ Done(t)
    BY Zenon DEF FreeOld
  <2>2. left = q
    BY <1>19 DEF Uncovered
  <2> HIDE DEF left, q, w1, w2
  <2>3. QED BY <1>0, <2>1, <2>2
<1>6. /\ q \in Vslabs /\ Exact(s, q, Of(s) \ {b}) /\ r.numb > 0 /\ r.nbits > 0
      /\ q.sc = r.sc /\ q.scb = r.scb /\ q.rb = r.rb /\ q.rdirty = r.rdirty /\ q.live = r.live
  <2>1. b \in OldOf(r, Of(s))
    BY <1>3 DEF OldOf
  <2> HIDE DEF r, b
  <2>2. QED BY <1>5, <2>1, ExactUncover DEF SameRest
<1> HIDE DEF q
<1>7. v' \in [Slots -> Vslabs] /\ v'[s] = q /\ \A x \in Slots : x # s => v'[x] = v[x]
  <2>1. v \in [Slots -> Vslabs]
    BY CtxFacts DEF Types
  <2>2. QED BY <1>1, <1>3, <1>6, <2>1
<1>8. s \notin Members(lru) /\ \A u \in Threads : Leaving(u) => my[u].cur # s
  <2>1. r.numb # 0
    <3>1. r.numb \in Nat
      BY <1>3, SlabType
    <3> HIDE DEF r
    <3>2. QED BY <1>6, <3>1
  <2>2. s \in Members(lru) => Listed(s)
    BY CtxFacts DEF Good, Aged
  <2>3. \A u \in Threads : pc[u] = "unbin" => my[u].cur # s
    BY <1>4 DEF InMorph
  <2>4. \A u \in Threads : Leaving(u) => my[u].cur # s
    BY <2>1, CtxFacts DEF Walks
  <2>5. QED BY <2>1, <2>2, <2>3, <2>4 DEF Listed
<1>9. q.nbits = 0 => q.numb = 0
  <2> HIDE DEF r
  <2>1. q.nbits = 0 => OldOf(q, Of(s) \ {b}) = {}
    BY <1>6, ExactFacts DEF OldOf
  <2>2. q.numb = Cardinality(OldOf(q, Of(s) \ {b}))
    BY <1>6 DEF Exact
  <2>3. QED BY <2>1, <2>2, FS_EmptySet
<1>10. /\ Steps(t) /\ Others(t) /\ my' \in [Threads -> Works] /\ my'[t].blk = NoBlock
       /\ \/ pc'[t] \in {"idle", "putback"}
          \/ /\ pc'[t] = "unlink" /\ my'[t].cur = s /\ my'[t].next = "check" /\ q.numb = 0
          \/ /\ pc'[t] = "relist" /\ my'[t].cur = s /\ q.numb = 0
  <2>1. w1 \in Works /\ w1.cur = s /\ w1.blk = NoBlock /\ w1.next = "check"
    BY <1>3 DEF Works, Pcs
  <2>2. w2 \in Works /\ w2.cur = s /\ w2.blk = NoBlock
    BY <1>3 DEF Works
  <2> HIDE DEF w1, w2
  <2>3. CASE q.nbits = 0 /\ Be(t, "unlink", w1)
    BY <1>9, <2>1, <2>3, CtxFacts, WorkSet, PcSet, BeSteps DEF Be, Ctx, Steps, Others
  <2>4. CASE q.nbits # 0 /\ q.numb = 0 /\ Be(t, "relist", w2)
    BY <2>2, <2>4, CtxFacts, WorkSet, PcSet, BeSteps DEF Be, Ctx, Steps, Others
  <2>5. CASE Done(t)
    BY <2>5, DoneFacts DEF Steps, Others
  <2>6. QED BY <1>1, <2>3, <2>4, <2>5
<1> HIDE DEF w1, w2
<1>11. \A x \in Slots : Returned(x)' = Returned(x)
  BY <1>6, <1>7, ReturnedStep
<1>12. /\ Once' /\ Of(s)' = Of(s) \ {b} /\ \A x \in Slots : x # s => Of(x)' = Of(x)
  BY <1>1, <1>2, <1>10, <1>11, HandLeaves DEF InHand
<1>13. Types'
  BY <1>2, <1>7, <1>10, CtxFacts DEF Types
<1>14. Remote'
  <2>1. pc[t] # "enlist"
    BY <1>1
  <2>2. \A x \in Slots : \/ v'[x] = v[x]
                         \/ v'[x].rb = v[x].rb /\ v'[x].rdirty = v[x].rdirty /\ v'[x].live
    <3>1. v'[s].rb = v[s].rb /\ v'[s].rdirty = v[s].rdirty /\ v'[s].live
      BY <1>3, <1>6, <1>7
    <3>2. \A x \in Slots : x = s \/ v'[x] = v[x]
      BY <1>7
    <3>3. QED BY ONLY <3>1, <3>2
  <2>3. QED BY <1>2, <1>10, <2>1, <2>2, RemoteStep, CtxFacts DEF Good
<1>15. HandOK(t)' /\ OnLive(t)' /\ Walks(t)' /\ Alone(t)' /\ FillOK(t)' /\ BinOK(t)'
  <2>1. OnLive(t)'
    BY <1>3, <1>6, <1>7, <1>10 DEF OnLive, OnSlab
  <2>2. HandOK(t)'
    BY <1>10 DEF HandOK, InHand
  <2>3. Walks(t)'
    BY <1>2, <1>7, <1>8, <1>10 DEF Walks, Leaving
  <2>4. Alone(t)'
    BY <1>8, <1>10 DEF Alone, Leaving, Others
  <2>5. FillOK(t)' /\ BinOK(t)'
    BY <1>10 DEF FillOK, Ready, BinOK, AtBin
  <2>6. QED BY <2>1, <2>2, <2>3, <2>4, <2>5
<1>16. pc[t] \notin InMorph /\ pc'[t] \notin InMorph /\ pc[t] # "insert"
  BY <1>1, <1>10 DEF InMorph
<1>17. /\ Exact(s, v'[s], Of(s)') /\ v[s].live /\ v'[s].live /\ v'[s].sc.cls = v[s].sc.cls
       /\ v[s].nbits # 0
  <2>1. r.nbits # 0
    <3>1. r.nbits \in Nat
      BY <1>3, SlabType
    <3> HIDE DEF r
    <3>2. QED BY <1>6, <3>1
  <2>2. QED BY <1>3, <1>6, <1>7, <1>12, <2>1
<1>18. QED
  BY <1>2, <1>3, <1>4, <1>7, <1>8, <1>10, <1>12, <1>13, <1>14, <1>15, <1>16, <1>17, BlocksStep
(* What the slabs hold for the flusher, when it grows and shrinks.          *)
Backs == [x \in Slots |-> Returned(x)]

BackOf(f) == UNION {f[x] : x \in Slots}

LEMMA InBack ==
  ASSUME NEW f, NEW y
  PROVE  y \in BackOf(f) <=> \E x \in Slots : y \in f[x]
BY DEF BackOf

LEMMA BackIs == Whereabouts[<<"back">>] = BackOf(Backs) /\ Whereabouts'[<<"back">>] = BackOf(Backs')
<1>1. Whereabouts[<<"back">>] = UNION {Returned(x) : x \in Slots}
  BY WhereIs
<1>2. Whereabouts'[<<"back">>] = UNION {Returned(x)' : x \in Slots}
  BY WhereIsNext
<1>3. \A x \in Slots : Backs[x] = Returned(x)
  BY DEF Backs
<1>4. \A x \in Slots : Backs'[x] = Returned(x)'
  BY DEF Backs
<1>5. UNION {Returned(x) : x \in Slots} = BackOf(Backs)
  BY <1>3 DEF BackOf
<1>6. UNION {Returned(x)' : x \in Slots} = BackOf(Backs')
  BY <1>4 DEF BackOf
<1>7. QED BY <1>1, <1>2, <1>5, <1>6

BackAdds(f, g, s, b) ==
  s \in Slots /\ g[s] = f[s] \union {b} /\ \A x \in Slots : x # s => g[x] = f[x]
BackEmpties(f, g, s) ==
  s \in Slots /\ g[s] = {} /\ \A x \in Slots : x # s => g[x] = f[x] /\ f[x] \cap f[s] = {}

LEMMA BackGrows ==
  ASSUME NEW f, NEW g, NEW s, NEW b, BackAdds(f, g, s, b)
  PROVE  BackOf(g) = BackOf(f) \union {b}
<1>1. \A y : (\E x \in Slots : y \in g[x]) <=> (\E x \in Slots : y \in f[x]) \/ y = b
  BY DEF BackAdds
<1>2. \A y : y \in BackOf(g) <=> y \in BackOf(f) \/ y = b
  BY <1>1, InBack
<1>3. QED BY <1>2

LEMMA BackShrinks ==
  ASSUME NEW f, NEW g, NEW s, BackEmpties(f, g, s)
  PROVE  BackOf(g) = BackOf(f) \ f[s] /\ f[s] \subseteq BackOf(f)
<1>1. \A y : (\E x \in Slots : y \in g[x]) <=> (\E x \in Slots : y \in f[x]) /\ y \notin f[s]
  BY DEF BackEmpties
<1>2. \A y : y \in BackOf(g) <=> y \in BackOf(f) /\ y \notin f[s]
  BY <1>1, InBack
<1>3. f[s] \subseteq BackOf(f)
  BY InBack DEF BackEmpties
<1>4. QED BY <1>2, <1>3

(* The block in a thread's hand waits in its slab for the flusher.          *)
LEMMA HandReturns ==
  ASSUME Ctx, NEW t \in Threads, NEW s, s = my[t].cur, pc[t] \in InHand, Others(t),
         my'[t].blk = NoBlock, cache' = cache, held' = held, lost' = lost,
         \A x \in Slots : x # s => Returned(x)' = Returned(x),
         Returned(s)' = Returned(s) \union {my[t].blk}
  PROVE  Once' /\ \A x : Of(x)' = Of(x)
<1> DEFINE p == <<"hand", t>>
           q == <<"back">>
           b == my[t].blk
           f == Whereabouts
           g == Whereabouts'
<1>1. /\ p \in Spots /\ f[p] = {b} /\ Apart(f) /\ b.slab = s /\ s \in Slots
  BY HandBlock
<1>2. q \in Spots /\ p # q
  BY SpotsAre, SpotsDiffer
<1>3. g[p] = {}
  BY WhereIsNext
<1>4. g[q] = f[q] \union {b}
  <2>1. g[q] = BackOf(Backs') /\ f[q] = BackOf(Backs)
    BY BackIs
  <2>2. \A x \in Slots : Backs[x] = Returned(x) /\ Backs'[x] = Returned(x)'
    BY DEF Backs
  <2>3. Backs[s] = Returned(s) /\ Backs'[s] = Returned(s)'
    BY <1>1 DEF Backs
  <2>4. Backs'[s] = Backs[s] \union {b} /\ \A x \in Slots : x # s => Backs'[x] = Backs[x]
    BY <2>2, <2>3
  <2> HIDE DEF b, f, g, q
  <2> DEFINE h == Backs
             k == Backs'
  <2>5. BackAdds(h, k, s, b)
    BY <1>1, <2>4 DEF BackAdds
  <2>6. g[q] = BackOf(k) /\ f[q] = BackOf(h)
    BY <2>1
  <2> HIDE DEF h, k
  <2>7. BackOf(k) = BackOf(h) \union {b}
    BY <2>5, BackGrows
  <2>8. QED BY <2>6, <2>7
<1>5. \A x \in Spots \ {p, q} : g[x] = f[x]
  <2>1. \A u \in Threads : <<"hand", u>> \in {p, q} \/ my'[u].blk = my[u].blk
    BY DEF Others
  <2>2. <<"back">> \in {p, q}
    OBVIOUS
  <2> HIDE DEF p, q
  <2>3. QED BY <2>1, <2>2, Elsewhere
<1>6. b \in f[p] /\ g[p] = f[p] \ {b}
  BY <1>1, <1>3
<1> HIDE DEF f, g, p, q, b
<1>7. Apart(g) /\ Union(g) = Union(f)
  BY <1>1, <1>2, <1>4, <1>5, <1>6, Shift
<1>8. Apart(Whereabouts') /\ Union(Whereabouts') = Union(Whereabouts)
  BY <1>7 DEF f, g
<1>9. QED BY <1>8, Moved, CtxFacts DEF Good, Once

LEMMA FarMarkGood ==
  ASSUME Ctx, NEW t \in Threads, FarMark(t), ~Outdated(t)
  PROVE  Good'
<1> PICK s : s = my[t].cur
  OBVIOUS
<1> DEFINE r == v[s]
           b == my[t].blk
           i == my[t].idx
           q == [r EXCEPT !.rdirty = TRUE, !.rb = @ \union {i}]
           w == [my[t] EXCEPT !.blk = NoBlock]
<1>1. /\ pc[t] = "far" /\ slabLock[s] = None
      /\ r.sc = my[t].sc /\ b.len = Size[r.sc.cls]
      /\ \/ r.rdirty /\ Done(t)
         \/ ~r.rdirty /\ Be(t, "enlist", w)
  <2>1. /\ pc[t] = "far" /\ slabLock[s] = None
        /\ \/ r.rdirty /\ Done(t)
           \/ ~r.rdirty /\ Be(t, "enlist", w)
    BY Zenon DEF FarMark
  <2>2. QED BY <2>1 DEF Outdated
<1>2. v' = [v EXCEPT ![s].rdirty = TRUE, ![s].rb = IF i \in r.rb THEN @ \ {i} ELSE @ \union {i}]
  BY Zenon DEF FarMark
<1>3. /\ cache' = cache /\ turn' = turn /\ held' = held /\ lost' = lost /\ bin' = bin /\ now' = now
      /\ lru' = lru /\ lruLen' = lruLen /\ morphLen' = morphLen /\ numaList' = numaList
  <2>1. UNCHANGED <<listVars, lruVars, cacheVars, remVars>>
    BY Zenon DEF FarMark
  <2>2. QED BY <2>1 DEF listVars, lruVars, cacheVars, remVars
<1>4. /\ s \in Slots /\ r \in Vslabs /\ r.live /\ b \in Of(s) /\ b \in Blocks
      /\ i = Index(r.sc, b.at) /\ my[t] \in Works
  BY <1>1, HandBlock, CtxFacts, GoodTypes DEF InHand, HandOK
<1>5. \A u \in Threads : pc[u] \in InMorph => my[u].cur # s
  BY <1>1, <1>4, NotInMorph, CtxFacts DEF InMorph
<1>6. Exact(s, r, Of(s))
  BY <1>4, <1>5, AtRest, CtxFacts
<1>7. b = Block(s, r.sc, i) /\ i \in Indices /\ r.nbits # 0
  <2>1. Placed(s, r, b)
    BY <1>4, <1>6 DEF Exact
  <2>2. b = Block(s, r.sc, i) /\ i \in 0 .. r.sc.n - 1
    BY <1>1, <1>4, <2>1, OwnBlock
  <2>3. r.nbits # 0
    BY <1>4, <1>6, ExactFacts
  <2>4. i \in Indices
    <3>1. r.sc \in LayoutSet /\ Indices = 0 .. SlabSize /\ SlabSize \in Nat
      BY <1>4, SlabType
    <3>2. r.sc.n \in Nat /\ r.sc.n < SlabSize
      BY <3>1, LayoutType
    <3> HIDE DEF i, r
    <3>3. QED BY <2>2, <3>1, <3>2
  <2>5. QED BY <2>2, <2>3, <2>4
<1>8. i \notin r.rb
  <2>1. SUFFICES ASSUME i \in r.rb PROVE FALSE
    OBVIOUS
  <2>2. b \in Returned(s)
    BY <1>7, <2>1 DEF Returned
  <2>3. b \in Whereabouts[<<"back">>]
    BY <1>4, <2>2, WhereIs
  <2>4. /\ <<"hand", t>> \in Spots /\ b \in Whereabouts[<<"hand", t>>] /\ Apart(Whereabouts)
    BY <1>1, HandBlock DEF InHand
  <2>5. <<"back">> \in Spots /\ <<"hand", t>> # <<"back">>
    BY SpotsAre, SpotsDiffer
  <2>6. QED BY <2>3, <2>4, <2>5 DEF Apart
<1>9. /\ q \in Vslabs /\ SameAccount(r, q) /\ q.live = r.live /\ q.rdirty = TRUE
      /\ q.rb = r.rb \union {i}
  <2> HIDE DEF r, i
  <2>1. r \in Vslabs /\ i \in Indices
    BY <1>4, <1>7
  <2>2. r.rb \union {i} \in SUBSET Indices
    BY <2>1, SlabType
  <2>3. q = [r EXCEPT !.rdirty = TRUE, !.rb = r.rb \union {i}]
    BY <2>1 DEF Vslabs
  <2> HIDE DEF q
  <2>4. QED BY <2>1, <2>2, <2>3 DEF Vslabs, SameAccount
<1>10. v' \in [Slots -> Vslabs] /\ v'[s] = q /\ \A x \in Slots : x # s => v'[x] = v[x]
  <2>1. v \in [Slots -> Vslabs]
    BY CtxFacts DEF Types
  <2>2. v' = [v EXCEPT ![s] = [[v[s] EXCEPT !.rdirty = TRUE] EXCEPT !.rb = v[s].rb \union {i}]]
    BY <1>2, <1>4, <1>8, <2>1 DEF Vslabs
  <2>3. [[v[s] EXCEPT !.rdirty = TRUE] EXCEPT !.rb = v[s].rb \union {i}] = q
    BY <1>4 DEF Vslabs
  <2> HIDE DEF q, i
  <2>4. QED BY <1>4, <1>9, <2>1, <2>2, <2>3
<1>11. /\ Steps(t) /\ Others(t) /\ my' \in [Threads -> Works] /\ my'[t].blk = NoBlock
       /\ \/ r.rdirty /\ pc'[t] \in {"idle", "putback"}
          \/ pc'[t] = "enlist" /\ my'[t].cur = s
  <2>1. w \in Works /\ w.cur = s /\ w.blk = NoBlock
    BY <1>4 DEF Works
  <2> HIDE DEF w
  <2>2. CASE Be(t, "enlist", w)
    BY <2>1, <2>2, CtxFacts, WorkSet, PcSet, BeSteps DEF Be, Ctx, Steps, Others
  <2>3. CASE r.rdirty /\ Done(t)
    BY <2>3, DoneFacts DEF Steps, Others
  <2>4. QED BY <1>1, <2>2, <2>3
<1> HIDE DEF w, q
<1>12. /\ \A x \in Slots : x # s => Returned(x)' = Returned(x)
       /\ Returned(s)' = Returned(s) \union {b}
  <2>1. \A x \in Slots : x # s => Returned(x)' = Returned(x)
    BY <1>10 DEF Returned
  <2>2. Returned(s)' = {Block(s, r.sc, j) : j \in r.rb \union {i}}
    BY <1>9, <1>10 DEF Returned, SameAccount
  <2> HIDE DEF r, i, b
  <2>3. {Block(s, r.sc, j) : j \in r.rb \union {i}} = {Block(s, r.sc, j) : j \in r.rb} \union {b}
    BY <1>7
  <2>4. QED BY <2>1, <2>2, <2>3 DEF Returned, r
<1>13. Once' /\ \A x : Of(x)' = Of(x)
  BY <1>1, <1>3, <1>11, <1>12, HandReturns DEF InHand
<1>14. Types'
  BY <1>3, <1>10, <1>11, CtxFacts DEF Types
<1>15. Remote'
  <2>1. numaList' = numaList /\ Distinct(numaList) /\ \A x \in Members(numaList) : v[x].live
    BY <1>3, CtxFacts DEF Good, Remote
  <2>2. \A x \in Members(numaList') : v'[x].live
    <3>1. Members(numaList) \subseteq Slots
      BY CtxFacts DEF Members
    <3>2. QED BY <1>4, <1>9, <1>10, <2>1, <3>1
  <2>3. ASSUME NEW x \in Slots PROVE Dirty(x)'
    <3>1. Dirty(x)
      BY CtxFacts DEF Good, Remote
    <3>2. \A u \in Threads : pc[u] = "enlist" => pc'[u] = "enlist" /\ my'[u].cur = my[u].cur
      BY <1>1, <1>11 DEF Others
    <3>3. CASE x # s
      <4>1. v'[x] = v[x]
        BY <1>10, <3>3
      <4>2. QED BY <2>1, <3>1, <3>2, <4>1 DEF Dirty
    <3>4. CASE x = s
      <4>1. v'[s].rdirty = TRUE /\ v'[s].rb # {}
        BY <1>9, <1>10
      <4>2. s \in Members(numaList) \/ \E u \in Threads : pc'[u] = "enlist" /\ my'[u].cur = s
        BY <1>11, <3>1, <3>2, <3>4 DEF Dirty
      <4>3. QED BY <2>1, <3>4, <4>1, <4>2 DEF Dirty
    <3>5. QED BY <3>3, <3>4
  <2>4. QED BY <2>1, <2>2, <2>3 DEF Remote
<1>16. HandOK(t)' /\ OnLive(t)' /\ Walks(t)' /\ Alone(t)' /\ FillOK(t)' /\ BinOK(t)'
  <2>1. OnLive(t)'
    BY <1>4, <1>9, <1>10, <1>11 DEF OnLive, OnSlab
  <2>2. HandOK(t)'
    BY <1>11 DEF HandOK, InHand
  <2>3. Walks(t)' /\ Alone(t)'
    BY <1>11 DEF Walks, Alone, Leaving
  <2>4. FillOK(t)' /\ BinOK(t)'
    BY <1>11 DEF FillOK, Ready, BinOK, AtBin
  <2>5. QED BY <2>1, <2>2, <2>3, <2>4
<1>17. pc[t] \notin InMorph /\ pc'[t] \notin InMorph /\ pc[t] # "insert"
  BY <1>1, <1>11 DEF InMorph
<1>18. /\ Exact(s, v'[s], Of(s)') /\ v[s].live /\ v'[s].live /\ v'[s].sc.cls = v[s].sc.cls
       /\ v'[s].numb = v[s].numb /\ v[s].nbits # 0
  <2>1. Exact(s, q, Of(s))
    BY <1>6, <1>9, ExactSame
  <2>2. Of(s)' = Of(s) /\ v'[s] = q
    BY <1>10, <1>13
  <2>3. Exact(s, v'[s], Of(s)')
    BY <2>1, <2>2
  <2>4. v'[s].live /\ v'[s].sc = v[s].sc /\ v'[s].numb = v[s].numb
    BY <1>4, <1>9, <2>2 DEF SameAccount
  <2>5. QED BY <1>4, <1>7, <2>3, <2>4
<1>19. QED
  BY <1>3, <1>4, <1>5, <1>10, <1>11, <1>13, <1>14, <1>15, <1>16, <1>17, <1>18, BlocksStep
-----------------------------------------------------------------------------
(* A slab is freed.                                                         *)
Unused(t, s) ==
  /\ \A u \in Threads \ {t} : pc[u] # "idle" => my[u].cur # s
  /\ s \notin Members(numaList) /\ \A c \in Classes : s \notin Members(bin[c])
  /\ \A u \in Threads : pc[u] \in InMorph => my[u].cur # s
  /\ Of(s) = {} /\ v[s].rb = {} /\ v[s].rdirty = FALSE
  /\ v' \in [Slots -> Vslabs] /\ v'[s] = NoSlab /\ \A x \in Slots : x # s => v'[x] = v[x]

LEMMA DestroyFacts ==
  ASSUME Ctx, NEW t \in Threads, NEW s \in Slots, s = my[t].cur, pc[t] \in {"check", "drop"},
         v[s].live, NEW l, Destroy(t, s, l), failed' = "no"
  PROVE  Unused(t, s)
<1>1. /\ \A u \in Threads \ {t} : pc[u] # "idle" => my[u].cur # s
      /\ s \notin Members(numaList) /\ \A c \in Classes : s \notin Members(bin[c])
      /\ v' = [v EXCEPT ![s] = NoSlab]
  <2> DEFINE inUse  == \E u \in Threads \ {t} : pc[u] # "idle" /\ my[u].cur = s
             listed == s \in Members(numaList) \union Members(l) \union
                            UNION {Members(bin[c]) : c \in Classes}
             out    == \E b \in held \union Cached : b.slab = s
  <2>1. v' = [v EXCEPT ![s] = NoSlab] /\ ~(inUse \/ listed \/ out)
    BY Zenon DEF Destroy, FailIf
  <2> HIDE DEF out
  <2>2. QED BY <2>1
<1>2. \A u \in Threads : pc[u] \in InMorph => my[u].cur # s
  BY <1>1 DEF InMorph
<1>3. Exact(s, v[s], Of(s))
  BY <1>2, AtRest, CtxFacts
<1>4. v[s].nbits = 0
  <2>1. \A u \in Threads : pc[u] = "insert" => my[u].cur # s
    BY <1>1
  <2>2. Out(s)
    BY CtxFacts DEF Good, Unbinned
  <2>3. QED BY <1>1, <2>1, <2>2 DEF Out, NoBin
<1>5. Of(s) = {}
  BY <1>3, <1>4, ExactFacts
<1>6. v[s].rb = {}
  <2>1. Returned(s) \subseteq Of(s)
    <3>1. \A b \in Returned(s) : b.slab = s
      BY DEF Returned, Block
    <3>2. Returned(s) \subseteq Blocks
      BY DEF Blocks
    <3>3. QED BY <3>1, <3>2 DEF Of
  <2>2. Returned(s) = {}
    BY <1>5, <2>1
  <2>3. QED BY <2>2 DEF Returned
<1>7. v[s].rdirty = FALSE
  <2>1. Dirty(s) /\ v[s] \in Vslabs
    BY CtxFacts, GoodTypes DEF Good, Remote
  <2>2. v[s].rdirty \in BOOLEAN
    BY <2>1, SlabType
  <2>3. QED BY <1>6, <2>1, <2>2 DEF Dirty
<1>8. v' \in [Slots -> Vslabs] /\ v'[s] = NoSlab /\ \A x \in Slots : x # s => v'[x] = v[x]
  <2>1. v \in [Slots -> Vslabs] /\ NoSlab \in Vslabs
    BY PlainType, CtxFacts DEF Types
  <2>2. QED BY <1>1, <2>1
<1>9. QED BY <1>1, <1>2, <1>5, <1>6, <1>7, <1>8 DEF Unused

LEMMA DestroyGood ==
  ASSUME Ctx, NEW t \in Threads, NEW s \in Slots, s = my[t].cur, pc[t] \in {"check", "drop"},
         v[s].live, NEW l, Destroy(t, s, l), failed' = "no", Done(t),
         bin' = bin, now' = now, cache' = cache, turn' = turn, held' = held, lost' = lost,
         numaList' = numaList, lruLen' \in Int, morphLen' \in Int,
         lru' \in Seq(Slots), Distinct(lru'), Members(lru') = Members(lru) \ {s}
  PROVE  Good'
<1>1. /\ \A u \in Threads \ {t} : pc[u] # "idle" => my[u].cur # s
      /\ s \notin Members(numaList) /\ \A c \in Classes : s \notin Members(bin[c])
      /\ \A u \in Threads : pc[u] \in InMorph => my[u].cur # s
      /\ Of(s) = {} /\ v[s].rb = {} /\ v[s].rdirty = FALSE
      /\ v' \in [Slots -> Vslabs] /\ v'[s] = NoSlab /\ \A x \in Slots : x # s => v'[x] = v[x]
  <2>1. Unused(t, s)
    BY DestroyFacts
  <2>2. QED BY <2>1 DEF Unused
<1>2. /\ Steps(t) /\ Others(t) /\ pc'[t] \in {"idle", "putback"} /\ my' \in [Threads -> Works]
      /\ my'[t].blk = NoBlock /\ my[t].blk = NoBlock
      /\ OnLive(t)' /\ Walks(t)' /\ Alone(t)' /\ FillOK(t)' /\ BinOK(t)'
      /\ pc'[t] \notin InMorph /\ pc'[t] \notin InHand
  <2>1. my[t].blk = NoBlock
    BY CtxFacts DEF HandOK, InHand
  <2>2. QED BY <2>1, DoneFacts DEF Local, Steps, Others
<1>3. NoSlab.rb = {} /\ ~NoSlab.rdirty /\ NoSlab.nbits = 0 /\ ~NoSlab.live
  BY NewSlabIs
<1>4. Unmoved
  BY <1>2, StepsUnmoved DEF InMorph
<1>5. \A x \in Slots : Returned(x)' = Returned(x)
  <2>1. ASSUME NEW x \in Slots PROVE Returned(x)' = Returned(x)
    <3>1. CASE x = s
      <4>1. Returned(s) = {} /\ Returned(s)' = {}
        BY <1>1, <1>3 DEF Returned
      <4>2. x = s
        BY <3>1
      <4>3. Returned(x) = {} /\ Returned(x)' = {}
        BY <1>1, <1>3, <3>1 DEF Returned
      <4>4. QED BY <4>3
    <3>2. CASE x # s
      BY <1>1, <3>2 DEF Returned
    <3>3. QED BY <3>1, <3>2
  <2>2. QED BY <2>1
<1>6. Once' /\ \A x : Of(x)' = Of(x)
  <2>1. \A u \in Threads : my'[u].blk = my[u].blk
    BY <1>2 DEF Others
  <2>2. QED BY <1>5, <2>1, StillStep, CtxFacts DEF Good
<1>7. Types'
  BY <1>1, <1>2, CtxFacts DEF Types
<1>8. Hands'
  <2>1. HandOK(t)'
    BY <1>2 DEF HandOK
  <2>2. QED BY <1>2, <2>1, HandsStep, CtxFacts DEF Good
<1>9. Slabwise' /\ Morphing'
  <2>1. ASSUME NEW x \in Slots
        PROVE  \/ v'[x] = v[x] /\ Of(x)' = Of(x)
               \/ /\ \A u \in Threads : pc[u] \in InMorph => my[u].cur # x
                  /\ Exact(x, v'[x], Of(x)')
    <3>1. CASE x = s
      <4>1. Exact(x, NoSlab, {})
        BY NewSlabIs, PlainType, ExactEmpty
      <4>2. Of(x)' = {} /\ v'[x] = NoSlab
        <5>1. Of(x) = {} /\ v'[x] = NoSlab
          BY <1>1, <3>1
        <5>2. QED BY <1>6, <5>1
      <4>3. Exact(x, v'[x], Of(x)')
        BY <4>1, <4>2
      <4>4. QED BY <1>1, <3>1, <4>3
    <3>2. CASE x # s
      BY <1>1, <1>6, <3>2
    <3>3. QED BY <3>1, <3>2
  <2>2. QED BY <1>4, <2>1, SlabwiseStep, CtxFacts DEF Good
<1>10. Alive'
  <2>1. \A x \in Slots : ~v'[x].live => v'[x] = NoSlab
    BY <1>1, CtxFacts DEF Good, Alive
  <2>2. ASSUME NEW u \in Threads PROVE OnLive(u)'
    <3>1. CASE u # t /\ pc[u] \in OnSlab
      <4>1. my[u].cur \in Slots /\ my[u].cur # s /\ v[my[u].cur].live
        BY <1>1, <3>1, CtxFacts DEF OnSlab, OnLive
      <4>2. QED BY <1>1, <1>2, <3>1, <4>1 DEF OnLive, Others
    <3>2. CASE u # t /\ pc[u] \notin OnSlab
      BY <1>2, <3>2 DEF OnLive, Others
    <3>3. CASE u = t
      BY <1>2, <3>3
    <3>4. QED BY <3>1, <3>2, <3>3
  <2>3. QED BY <2>1, <2>2 DEF Alive
<1>11. Aged'
  <2>1. \A x \in Members(lru') : Listed(x)'
    <3>1. ASSUME NEW x \in Members(lru') PROVE Listed(x)'
      <4>1. Listed(x) /\ x # s /\ x \in Slots
        <5>1. x \in Members(lru) /\ x # s /\ lru \in Seq(Slots)
          BY <3>1, CtxFacts
        <5>2. QED BY <5>1, CtxFacts DEF Good, Aged, Members
      <4>2. (\E u \in Threads : pc[u] = "unbin" /\ my[u].cur = x)
              => \E u \in Threads : pc'[u] = "unbin" /\ my'[u].cur = x
        BY <1>2 DEF Others
      <4>3. QED BY <1>1, <4>1, <4>2 DEF Listed
    <3>2. QED BY <3>1
  <2>2. ASSUME NEW u \in Threads \ {t}
        PROVE  /\ pc[u] \in {"walk", "seize", "unbin"} /\ my[u].cur \in Members(lru)
                    => my[u].cur \in Members(lru')
               /\ pc[u] = "seize" => v'[my[u].cur].sc.cls = v[my[u].cur].sc.cls
               /\ Leaving(u) => my[u].cur \notin Members(lru') /\ v'[my[u].cur].numb = 0
    <3>1. pc[u] \in OnSlab => my[u].cur \in Slots /\ my[u].cur # s
      BY <1>1, CtxFacts DEF OnSlab
    <3>2. pc[u] \in {"walk", "seize", "unbin"} => my[u].cur # s
      BY <1>1
    <3>3. pc[u] = "seize" => v'[my[u].cur].sc.cls = v[my[u].cur].sc.cls
      BY <1>1, <3>1 DEF OnSlab
    <3>4. Leaving(u) => my[u].cur \notin Members(lru') /\ v'[my[u].cur].numb = 0
      BY <1>1, <3>1, CtxFacts DEF OnSlab, Leaving, Walks
    <3>5. QED BY <3>2, <3>3, <3>4
  <2>3. QED BY <1>2, <2>1, <2>2, CtxFacts, AgedFrame DEF Good
<1>12. Remote'
  <2>1. Distinct(numaList) /\ \A x \in Members(numaList) : v'[x].live
    <3>1. Members(numaList) \subseteq Slots
      BY CtxFacts DEF Members
    <3>2. QED BY <1>1, <3>1, CtxFacts DEF Good, Remote
  <2>2. ASSUME NEW x \in Slots PROVE Dirty(x)'
    <3>1. Dirty(x)
      BY CtxFacts DEF Good, Remote
    <3>2. (\E u \in Threads : pc[u] = "enlist" /\ my[u].cur = x)
              => \E u \in Threads : pc'[u] = "enlist" /\ my'[u].cur = x
      BY <1>2 DEF Others
    <3>3. v'[x].rdirty = v[x].rdirty /\ v'[x].rb = v[x].rb
      <4>1. NoSlab.rdirty = FALSE
        BY <1>3, PlainType, SlabType
      <4>2. QED BY <1>1, <1>3, <4>1
    <3>4. QED BY <3>1, <3>2, <3>3 DEF Dirty
  <2>3. QED BY <2>1, <2>2 DEF Remote
<1>13. Filling'
  BY <1>2, FillStep, CtxFacts DEF Good
<1>14. Bins'
  <2>1. bin' \in [Classes -> Seq(Slots)] /\ DOMAIN now' = Classes
        /\ \A c \in Classes : Distinct(bin'[c]) /\ now'[c] \in Members(bin'[c]) \union {Root}
    BY CtxFacts DEF Good, Bins
  <2>2. \A c, d \in Classes : c # d => Members(bin'[c]) \cap Members(bin'[d]) = {}
    BY CtxFacts DEF Good, Bins
  <2>3. \A c \in Classes : \A x \in Members(bin'[c]) : v'[x].live
    <3>1. \A c \in Classes : Members(bin[c]) \subseteq Slots
      BY CtxFacts DEF Members
    <3>2. QED BY <1>1, <3>1, CtxFacts DEF Good, Bins
  <2>4. ASSUME NEW u \in Threads \ {t}
        PROVE  /\ AtBin(u) => my[u].cur \in Members(bin'[my[u].cls])
               /\ pc[u] = "insert" => /\ v'[my[u].cur].live
                                      /\ \A c \in Classes : my[u].cur \notin Members(bin'[c])
    <3>1. pc[u] = "insert" => my[u].cur \in Slots /\ my[u].cur # s
      BY <1>1, CtxFacts DEF OnSlab
    <3>2. QED BY <1>1, <3>1, CtxFacts DEF BinOK
  <2>5. QED BY <1>2, <2>1, <2>2, <2>3, <2>4, BinsFrame, CtxFacts DEF Good
<1>15. Unbinned'
  <2>1. \A x \in Slots :
          \/ v'[x].nbits = 0 \/ ~NoBin(x)'
          \/ /\ v'[x] = v[x] /\ (NoBin(x)' => NoBin(x))
             /\ t \in Threads /\ pc[t] = "insert" => my[t].cur # x
    BY <1>1, <1>3 DEF NoBin
  <2>2. QED BY <1>2, <2>1, UnbinnedFrame, CtxFacts DEF Good
<1>16. QED BY <1>6, <1>7, <1>8, <1>9, <1>10, <1>11, <1>12, <1>13, <1>14, <1>15 DEF Good
LEMMA CheckGood ==
  ASSUME Ctx, NEW t \in Threads, Check(t), failed' = "no"
  PROVE  Good'
<1> PICK s : s = my[t].cur
  OBVIOUS
<1>1. /\ pc[t] = "check"
      /\ bin' = bin /\ now' = now /\ cache' = cache /\ turn' = turn /\ held' = held /\ lost' = lost
      /\ numaList' = numaList /\ lruLen' = lruLen /\ morphLen' = morphLen /\ lru' = lru
  <2>1. pc[t] = "check" /\ UNCHANGED <<listVars, lruVars, cacheVars, remVars>>
    BY Zenon DEF Check
  <2>2. QED BY <2>1 DEF listVars, lruVars, cacheVars, remVars
<1>2. s \in Slots /\ v[s].live /\ my[t].next \in {"check", "drop"}
  BY <1>1, CtxFacts DEF OnSlab, OnLive, Walks
<1>3. lruLen \in Int /\ morphLen \in Int /\ DOMAIN now = Classes
  BY CtxFacts
<1>4. CASE v[s].nbits = 0 /\ my[t].next = "drop"
  <2>1. Go(t, "drop") /\ my' = my /\ v' = v
    BY Zenon, <1>4 DEF Check, memVars
  <2>2. Steps(t) /\ pc'[t] = "drop" /\ my[t].blk = NoBlock
    BY <1>1, <2>1, CtxFacts, PcSet, BeSteps DEF Ctx, Go, HandOK, InHand
  <2>3. Local(t)'
    BY <1>2, <2>1, <2>2, LocalFree DEF Elsewhen
  <2>4. my' \in [Threads -> Works]
    BY <2>1, CtxFacts DEF Types
  <2>5. QED
    BY <1>1, <1>3, <2>1, <2>2, <2>3, <2>4, CtxFacts, QuietStep DEF InMorph, InHand
<1>5. CASE v[s].nbits = 0 /\ my[t].next # "drop"
  <2>1. Done(t) /\ Destroy(t, s, lru)
    BY Zenon, <1>5 DEF Check
  <2>2. s \notin Members(lru) /\ Distinct(lru)
    BY <1>1, <1>2, <1>5, CtxFacts DEF Walks, Leaving, Good, Aged
  <2>3. Members(lru') = Members(lru) \ {s}
    BY <1>1, <2>2
  <2>4. QED BY <1>1, <1>2, <1>3, <2>1, <2>2, <2>3, CtxFacts, DestroyGood
<1>6. CASE v[s].nbits # 0
  <2>1. Done(t) /\ v' = v
    BY Zenon, <1>6 DEF Check, memVars
  <2>2. QED BY <1>1, <1>3, <2>1, CtxFacts, DoneFacts, QuietStep DEF InMorph, InHand
<1>7. QED BY <1>4, <1>5, <1>6

LEMMA DropGood ==
  ASSUME Ctx, NEW t \in Threads, Drop(t), failed' = "no"
  PROVE  Good'
<1> PICK s : s = my[t].cur
  OBVIOUS
<1>0. /\ pc[t] = "drop" /\ Done(t)
      /\ lru' = Without(lru, s) /\ lruLen' = lruLen - 1 /\ morphLen' = morphLen - 1
      /\ IF s \in Members(lru) THEN Destroy(t, s, Without(lru, s))
         ELSE failed' = "LRU_dlnode" /\ UNCHANGED memVars
  BY Zenon DEF Drop
<1>1. /\ pc[t] = "drop" /\ Done(t) /\ Destroy(t, s, Without(lru, s))
      /\ lru' = Without(lru, s) /\ lruLen' = lruLen - 1 /\ morphLen' = morphLen - 1
  BY <1>0
<1>2. /\ bin' = bin /\ now' = now /\ cache' = cache /\ turn' = turn /\ held' = held /\ lost' = lost
      /\ numaList' = numaList
  <2>1. UNCHANGED <<listVars, cacheVars, remVars>>
    BY Zenon DEF Drop
  <2>2. QED BY <2>1 DEF listVars, cacheVars, remVars
<1>3. s \in Slots /\ v[s].live
  BY <1>1, CtxFacts DEF OnSlab, OnLive
<1>4. lruLen' \in Int /\ morphLen' \in Int
  BY <1>1, CtxFacts
<1>5. lru' \in Seq(Slots) /\ Distinct(lru') /\ Members(lru') = Members(lru) \ {s}
  <2>1. lru \in Seq(Slots) /\ Distinct(lru)
    BY CtxFacts DEF Good, Aged
  <2>2. QED BY <1>1, <2>1, WithoutIn
<1>6. QED BY <1>1, <1>2, <1>3, <1>4, <1>5, DestroyGood

-----------------------------------------------------------------------------
(* The flusher *)

LEMMA WakeGood ==
  ASSUME Ctx, Wake \/ FlushEnd
  PROVE  Good'
BY SameGood, CtxFacts DEF Wake, FlushEnd
(* The remote frees of a slab are taken in.                                 *)
ReturnedOf(s, r) == {Block(s, r.sc, i) : i \in r.rb}
Reclaimed(r, q) ==
  /\ q \in Vslabs /\ q.sc = r.sc /\ q.scb = r.scb /\ q.numb = r.numb /\ q.dnum = r.dnum
  /\ q.live = r.live /\ q.rb = {} /\ q.rdirty = FALSE
  /\ q.used = r.used \ r.rb /\ q.nbits = r.nbits - Cardinality(r.rb)

LEMMA ReclaimExact ==
  ASSUME NEW s, NEW r, NEW B, Exact(s, r, B), ReturnedOf(s, r) \subseteq B
  PROVE  /\ Reclaimed(r, Reclaim(r)) /\ Exact(s, Reclaim(r), B \ ReturnedOf(s, r))
         /\ r.rb # {} => r.nbits # 0 /\ Reclaim(r).nbits < r.nbits
<1> DEFINE q == Reclaim(r)
           D == r.rb
<1>1. r \in Vslabs /\ IsFiniteSet(r.used) /\ r.nbits = Cardinality(r.used) /\ D \in SUBSET Indices
      /\ r.nbits \in Nat
  BY ExactFacts, SlabType DEF Exact
<1>2. \A i \in D : Block(s, r.sc, i) \in B /\ i \in r.used
  <2>1. ASSUME NEW i \in D PROVE Block(s, r.sc, i) \in B /\ i \in r.used
    <3>1. Block(s, r.sc, i) \in B /\ i \in Indices
      BY <1>1 DEF ReturnedOf
    <3>2. QED BY <3>1, ExactFacts
  <2>2. QED BY <2>1
<1>3. /\ IsFiniteSet(D) /\ Cardinality(D) \in Nat /\ r.nbits - Cardinality(D) \in Nat
      /\ D # {} => Cardinality(D) # 0 /\ r.nbits # 0
  <2>1. D \subseteq r.used
    BY <1>2
  <2>2. IsFiniteSet(D) /\ Cardinality(D) <= Cardinality(r.used)
    BY <1>1, <2>1, FS_Subset
  <2>3. Cardinality(D) \in Nat /\ (Cardinality(D) = 0 <=> D = {})
    BY <2>2, FS_CardinalityType, FS_EmptySet
  <2> HIDE DEF D
  <2>4. QED BY <1>1, <2>2, <2>3
<1>4. Reclaimed(r, q)
  <2> DEFINE m == r.nbits - Cardinality(D)
  <2>1. m \in Nat
    BY <1>3
  <2>2. q = [r EXCEPT !.used = r.used \ r.rb, !.nbits = m, !.rb = {}, !.rdirty = FALSE]
    BY <1>1 DEF Reclaim, Vslabs
  <2> HIDE DEF m, q
  <2>3. /\ q \in Vslabs /\ q.sc = r.sc /\ q.scb = r.scb /\ q.numb = r.numb /\ q.dnum = r.dnum
        /\ q.live = r.live /\ q.rb = {} /\ q.rdirty = FALSE
        /\ q.used = r.used \ r.rb /\ q.nbits = m
    BY <1>1, <2>1, <2>2 DEF Vslabs
  <2>4. QED BY <2>3 DEF Reclaimed, m
<1> HIDE DEF q
<1>5. Exact(s, q, B \ {Block(s, r.sc, i) : i \in D})
  <2>1. /\ q \in Vslabs /\ q.sc = r.sc /\ q.scb = r.scb /\ q.numb = r.numb /\ q.dnum = r.dnum
        /\ q.used = r.used \ D /\ q.nbits = r.nbits - Cardinality(D)
    BY <1>4 DEF Reclaimed
  <2>2. \A i \in D : Block(s, r.sc, i) \in B
    BY <1>2
  <2> HIDE DEF D
  <2>3. QED BY <1>1, <2>1, <2>2, ExactLeave
<1>6. D # {} => r.nbits # 0 /\ q.nbits < r.nbits
  <2>1. q.nbits = r.nbits - Cardinality(D)
    BY <1>4 DEF Reclaimed
  <2> HIDE DEF D
  <2>2. QED BY <1>1, <1>3, <2>1
<1>7. QED BY <1>4, <1>5, <1>6 DEF q, ReturnedOf

LEMMA BackLoses ==
  ASSUME Ctx, NEW s \in Slots, v'[s].rb = {}, \A x \in Slots : x # s => v'[x] = v[x]
  PROVE  /\ Whereabouts'[<<"back">>] = Whereabouts[<<"back">>] \ Returned(s)
         /\ Returned(s) \subseteq Whereabouts[<<"back">>] /\ Returned(s) \subseteq Of(s)
<1>1. \A x \in Slots : Backs[x] = Returned(x) /\ Backs'[x] = Returned(x)'
  BY DEF Backs
<1>2. \A x \in Slots : \A b \in Returned(x) : b.slab = x
  BY DEF Returned, Block
<1>3. BackEmpties(Backs, Backs', s)
  <2>1. Backs'[s] = {}
    <3>1. Returned(s)' = {}
      BY DEF Returned
    <3>2. Backs'[s] = Returned(s)'
      BY DEF Backs
    <3>3. QED BY <3>1, <3>2
  <2>2. ASSUME NEW x \in Slots, x # s
        PROVE  Backs'[x] = Backs[x] /\ Backs[x] \cap Backs[s] = {}
    <3>1. Returned(x)' = Returned(x)
      BY <2>2 DEF Returned
    <3>2. Returned(x) \cap Returned(s) = {}
      BY <1>2, <2>2
    <3>3. QED BY <1>1, <3>1, <3>2
  <2>3. QED BY <2>1, <2>2 DEF BackEmpties
<1> DEFINE f == Backs
           g == Backs'
<1>4. BackEmpties(f, g, s)
  BY <1>3
<1>5. Backs[s] = Returned(s)
  BY <1>1
<1> HIDE DEF f, g
<1>6. BackOf(g) = BackOf(f) \ f[s] /\ f[s] \subseteq BackOf(f)
  BY <1>4, BackShrinks
<1>7. /\ Whereabouts'[<<"back">>] = Whereabouts[<<"back">>] \ Returned(s)
      /\ Returned(s) \subseteq Whereabouts[<<"back">>]
  BY <1>5, <1>6, BackIs DEF f, g
<1>8. Returned(s) \subseteq Of(s)
  <2>1. Whereabouts[<<"back">>] \subseteq Blocks
    BY Gathered, SpotsAre DEF Union
  <2>2. QED BY <1>2, <1>7, <2>1 DEF Of
<1>9. QED BY <1>7, <1>8
LEMMA FlushGood ==
  ASSUME Ctx, Flush
  PROVE  Good'
<1> PICK s : s = Front(numaList)
  OBVIOUS
<1> DEFINE r == v[s]
           q == IF r.rdirty THEN Reclaim(r) ELSE r
<1>1. /\ numaList # <<>>
      /\ r.rdirty => slabLock[s] = None
      /\ numaList' = Tail(numaList)
      /\ v' = IF r.rdirty THEN [v EXCEPT ![s] = Reclaim(r)] ELSE v
  BY Zenon DEF Flush, Dequeue
<1>2. /\ cache' = cache /\ turn' = turn /\ held' = held /\ lost' = lost /\ bin' = bin /\ now' = now
      /\ lru' = lru /\ lruLen' = lruLen /\ morphLen' = morphLen /\ pc' = pc /\ my' = my
  <2>1. UNCHANGED <<listVars, lruVars, cacheVars, pc, my>>
    BY Zenon DEF Flush
  <2>2. QED BY <2>1 DEF listVars, lruVars, cacheVars
<1>3. /\ numaList # <<>> /\ Distinct(numaList) /\ s \in Members(numaList) /\ s \in Slots /\ r.live
      /\ Members(numaList') = Members(numaList) \ {s} /\ Distinct(numaList') /\ r \in Vslabs
      /\ numaList' = Tail(numaList)
  <2>1. numaList \in Seq(Slots) /\ Distinct(numaList) /\ numaList # <<>> /\ numaList' = Tail(numaList)
    BY <1>1, CtxFacts DEF Good, Remote
  <2>2. s \in Members(numaList)
    BY <2>1, TailIn
  <2>3. s \in Slots
    BY <2>1, <2>2 DEF Members
  <2>4. r.live /\ r \in Vslabs
    BY <2>2, <2>3, CtxFacts, GoodTypes DEF Good, Remote
  <2>5. Members(numaList') = Members(numaList) \ {s} /\ Distinct(numaList')
    BY <2>1, DistinctTail
  <2>6. QED BY <2>1, <2>2, <2>3, <2>4, <2>5
<1>4. Dirty(s)
  BY <1>3, CtxFacts DEF Good, Remote
<1>5. Others(Flusher) /\ Flusher \notin Threads /\ Unmoved
  BY <1>2, Names DEF Others, Unmoved
<1>6. CASE r.rdirty
  <2>1. \A u \in Threads : pc[u] \in InMorph => my[u].cur # s
    BY <1>1, <1>3, <1>6, NotInMorph, CtxFacts, Names
  <2>2. Exact(s, r, Of(s)) /\ r.rb # {}
    BY <1>3, <1>4, <1>6, <2>1, AtRest, CtxFacts DEF Dirty
  <2>3. v' = [v EXCEPT ![s] = Reclaim(r)]
    BY <1>1, <1>6
  <2>4. ReturnedOf(s, r) = Returned(s) /\ Returned(s) \subseteq Of(s)
    <3>1. ReturnedOf(s, r) = Returned(s)
      BY DEF ReturnedOf, Returned
    <3>2. \A b \in Returned(s) : b.slab = s
      BY DEF Returned, Block
    <3>3. Returned(s) \subseteq Blocks
      BY <1>3 DEF Blocks
    <3>4. QED BY <3>1, <3>2, <3>3 DEF Of
  <2> DEFINE z == Reclaim(r)
             D == Returned(s)
  <2>5. Reclaimed(r, z) /\ Exact(s, z, Of(s) \ D) /\ r.nbits # 0
    <3> HIDE DEF z, D, r
    <3>1. Exact(s, r, Of(s)) /\ ReturnedOf(s, r) \subseteq Of(s) /\ r.rb # {}
      BY <2>2, <2>4
    <3>2. Reclaimed(r, Reclaim(r)) /\ Exact(s, Reclaim(r), Of(s) \ ReturnedOf(s, r)) /\ r.nbits # 0
      BY <3>1, ReclaimExact
    <3>3. ReturnedOf(s, r) = D
      BY <2>4 DEF D
    <3>4. QED BY <3>2, <3>3 DEF z
  <2> HIDE DEF z
  <2>6. v' \in [Slots -> Vslabs] /\ v'[s] = z /\ \A x \in Slots : x # s => v'[x] = v[x]
    <3>1. v \in [Slots -> Vslabs]
      BY CtxFacts DEF Types
    <3>2. QED BY <1>3, <2>3, <2>5, <3>1 DEF Reclaimed, z
  <2>7. /\ z.sc = r.sc /\ z.numb = r.numb /\ z.live /\ z.rb = {} /\ z.rdirty = FALSE
    BY <1>3, <2>5 DEF Reclaimed
  <2> HIDE DEF r
  <2>8. /\ Whereabouts'[<<"back">>] = Whereabouts[<<"back">>] \ D
        /\ D \subseteq Whereabouts[<<"back">>]
    BY <1>3, <2>6, <2>7, BackLoses
  <2>9. \A x \in Spots \ {<<"back">>} : Whereabouts'[x] = Whereabouts[x]
    <3> PICK X : X = {<<"back">>}
      OBVIOUS
    <3>1. <<"back">> \in X
      OBVIOUS
    <3>2. \A x \in Spots \ X : Whereabouts'[x] = Whereabouts[x]
      BY <1>2, <3>1, Elsewhere
    <3>3. QED BY <3>2
  <2>10. Apart(Whereabouts') /\ Union(Whereabouts') = Union(Whereabouts) \ D
    <3> DEFINE f == Whereabouts
               g == Whereabouts'
               p == <<"back">>
    <3>1. Drains(f, g, p, D)
      BY <2>8, <2>9, SpotsAre, CtxFacts DEF Drains, Good, Once
    <3> HIDE DEF f, g, D, p
    <3>2. Apart(g) /\ Union(g) = Union(f) \ D
      BY <3>1, Leave
    <3>3. QED BY <3>2 DEF f, g
  <2>11. Once'
    BY <1>2, <2>10, CtxFacts DEF Good, Once
  <2>12. Of(s)' = Of(s) \ D /\ \A x : x # s => Of(x)' = Of(x)
    <3>1. \A b \in D : b.slab = s
      BY DEF Returned, Block
    <3> PICK E : E = D
      OBVIOUS
    <3>2. (\A b \in E : b.slab = s) /\ Union(Whereabouts') = Union(Whereabouts) \ E
      BY <2>10, <3>1
    <3>3. Of(s)' = Of(s) \ E /\ \A x : x # s => Of(x)' = Of(x)
      BY <3>2, Gone
    <3>4. QED BY <3>3
  <2>13. Types'
    BY <1>2, <2>6, CtxFacts DEF Types
  <2>14. \A x \in Slots : v'[x].sc = v[x].sc /\ v'[x].numb = v[x].numb /\ v'[x].live = v[x].live
    <3>1. v'[s].sc = v[s].sc /\ v'[s].numb = v[s].numb /\ v'[s].live = v[s].live
      BY <1>3, <2>5, <2>6 DEF Reclaimed, r
    <3>2. \A x \in Slots : x = s \/ v'[x] = v[x]
      BY <2>6
    <3>3. QED BY <3>1, <3>2
  <2>15. Hands'
    BY <1>5, <2>14, HandsStep, CtxFacts DEF Good
  <2>16. Slabwise' /\ Morphing'
    <3>1. ASSUME NEW x \in Slots
          PROVE  \/ v'[x] = v[x] /\ Of(x)' = Of(x)
                 \/ /\ \A u \in Threads : pc[u] \in InMorph => my[u].cur # x
                    /\ Exact(x, v'[x], Of(x)')
      <4>1. CASE x = s
        <5>1. v'[x] = z /\ Exact(x, z, Of(s) \ D)
          BY <2>5, <2>6, <4>1
        <5>2. Of(x)' = Of(s) \ D
          BY <2>12, <4>1
        <5>3. Exact(x, v'[x], Of(x)')
          BY <5>1, <5>2
        <5>4. QED BY <2>1, <4>1, <5>3
      <4>2. CASE x # s
        BY <2>6, <2>12, <4>2
      <4>3. QED BY <4>1, <4>2
    <3>2. QED BY <1>5, <3>1, SlabwiseStep, CtxFacts DEF Good
  <2>17. \A x \in Slots : v'[x] = v[x] \/ v'[x].live
    BY <2>6, <2>7
  <2>18. Alive'
    BY <1>5, <2>17, AliveStep, CtxFacts DEF Good
  <2>19. Aged'
    BY <1>2, <1>5, <2>14, AgedStep, CtxFacts DEF Good, Aged
  <2>20. Remote'
    <3>1. \A x \in Members(numaList') : v'[x].live
      <4>1. \A x \in Members(numaList') : x \in Slots /\ v[x].live /\ x # s
        BY SMTT(30), <1>3, CtxFacts DEF Good, Remote, Members
      <4>2. QED BY <2>6, <4>1
    <3>2. ASSUME NEW x \in Slots PROVE Dirty(x)'
      <4>1. CASE x = s
        BY <2>6, <2>7, <4>1 DEF Dirty
      <4>2. CASE x # s
        <5>1. Dirty(x)
          BY CtxFacts DEF Good, Remote
        <5>2. QED BY <1>2, <1>3, <2>6, <4>2, <5>1 DEF Dirty
      <4>3. QED BY <4>1, <4>2
    <3>3. QED BY <1>3, <3>1, <3>2 DEF Remote
  <2>21. Filling'
    BY <1>2, <1>5, FillStep, CtxFacts DEF Good
  <2>22. Bins'
    BY <1>2, <1>5, <2>17, BinsStep, CtxFacts DEF Good, Bins
  <2>23. Unbinned'
    <3>1. \A x \in Slots : \/ v'[x] = v[x] \/ v'[x].nbits = 0
                           \/ ~NoBin(x)
                           \/ v[x].live /\ v[x].nbits # 0
      BY <1>3, <2>5, <2>6 DEF r
    <3>2. QED BY <1>2, <1>5, <3>1, UnbinnedStep, CtxFacts DEF Good
  <2>24. QED BY <2>11, <2>13, <2>15, <2>16, <2>18, <2>19, <2>20, <2>21, <2>22, <2>23 DEF Good
<1>7. CASE ~r.rdirty
  <2>1. v' = v
    BY <1>1, <1>7
  <2>2. Once' /\ \A x : Of(x)' = Of(x)
    <3>1. \A x \in Slots : Returned(x)' = Returned(x)
      BY <2>1, ReturnedStep
    <3>2. QED BY <1>2, <3>1, StillStep, CtxFacts DEF Good
  <2>3. Types'
    BY <1>2, <2>1, CtxFacts DEF Types
  <2>4. Hands'
    BY <1>5, <2>1, HandsStep, CtxFacts DEF Good
  <2>5. Slabwise' /\ Morphing'
    BY <1>5, <2>1, <2>2, SlabwiseStep, CtxFacts DEF Good
  <2>6. Alive'
    BY <1>5, <2>1, AliveStep, CtxFacts DEF Good
  <2>7. Aged'
    BY <1>2, <1>5, <2>1, AgedStep, CtxFacts DEF Good, Aged
  <2>8. Remote'
    <3>1. \A x \in Members(numaList') : v'[x].live
      BY <1>3, <2>1, CtxFacts DEF Good, Remote
    <3>2. ASSUME NEW x \in Slots PROVE Dirty(x)'
      <4>1. Dirty(x)
        BY CtxFacts DEF Good, Remote
      <4>2. CASE x = s
        BY <1>7, <2>1, <4>1, <4>2 DEF Dirty
      <4>3. CASE x # s
        BY <1>2, <1>3, <2>1, <4>1, <4>3 DEF Dirty
      <4>4. QED BY <4>2, <4>3
    <3>3. QED BY <1>3, <3>1, <3>2 DEF Remote
  <2>9. Filling'
    BY <1>2, <1>5, FillStep, CtxFacts DEF Good
  <2>10. Bins'
    BY <1>2, <1>5, <2>1, BinsStep, CtxFacts DEF Good, Bins
  <2>11. Unbinned'
    BY <1>2, <1>5, <2>1, UnbinnedStep, CtxFacts DEF Good
  <2>12. QED BY <2>2, <2>3, <2>4, <2>5, <2>6, <2>7, <2>8, <2>9, <2>10, <2>11 DEF Good
<1>8. QED BY <1>6, <1>7
-----------------------------------------------------------------------------
(* A block is taken out of a slab.                                          *)

(* The slab once the remote frees of a full one are in, and which of its    *)
(* blocks that were.                                                        *)
PopFrom(s) == IF v[s].nbits = v[s].sc.n THEN Reclaim(v[s]) ELSE v[s]
PopTook(s) == IF v[s].nbits = v[s].sc.n THEN Returned(s) ELSE {}
SameBut(r, q) == q \in Vslabs /\ q.sc = r.sc /\ q.scb = r.scb /\ q.numb = r.numb /\ q.live = r.live

Roomy(s, c) ==
  /\ v[s].sc.cls = c /\ Exact(s, PopFrom(s), Of(s) \ PopTook(s))
  /\ SameBut(v[s], PopFrom(s)) /\ PopFrom(s).nbits < PopFrom(s).sc.n
  /\ PopTook(s) \subseteq Returned(s)
  /\ IF v[s].nbits = v[s].sc.n THEN PopFrom(s).rb = {} /\ PopFrom(s).rdirty = FALSE
     ELSE PopFrom(s) = v[s] /\ PopTook(s) = {}

LEMMA PopRoom ==
  ASSUME Ctx, NEW s \in Slots, NEW c, ~Refuses(v[s], c),
         \A u \in Threads : pc[u] \in InMorph => my[u].cur # s
  PROVE  Roomy(s, c)
<1> DEFINE r == v[s]
<1>1. r \in Vslabs /\ Exact(s, r, Of(s))
  BY AtRest, CtxFacts, GoodTypes
<1>2. r.sc.cls = c /\ r.nbits # r.sc.n + 1 /\ (r.nbits = r.sc.n => r.rdirty)
  BY DEF Refuses
<1>3. r.nbits \in Nat /\ r.sc \in LayoutSet /\ r.sc.n \in Nat
  BY <1>1, SlabType, LayoutType
<1>4. CASE r.nbits = r.sc.n
  <2>1. r.rb # {}
    BY <1>2, <1>4, CtxFacts DEF Good, Remote, Dirty
  <2>2. ReturnedOf(s, r) = Returned(s)
    BY DEF ReturnedOf, Returned
  <2>3. Returned(s) \subseteq Of(s)
    <3>1. \A b \in Returned(s) : b.slab = s
      BY DEF Returned, Block
    <3>2. Returned(s) \subseteq Blocks
      BY DEF Blocks
    <3>3. QED BY <3>1, <3>2 DEF Of
  <2>4. PopFrom(s) = Reclaim(r) /\ PopTook(s) = Returned(s)
    BY <1>4 DEF PopFrom, PopTook
  <2> HIDE DEF r
  <2>5. Reclaimed(r, Reclaim(r)) /\ Exact(s, Reclaim(r), Of(s) \ ReturnedOf(s, r))
        /\ Reclaim(r).nbits < r.nbits
    BY <1>1, <2>1, <2>2, <2>3, ReclaimExact
  <2>6. Exact(s, PopFrom(s), Of(s) \ PopTook(s))
    BY <2>2, <2>4, <2>5
  <2> DEFINE z == Reclaim(r)
  <2>7. SameBut(r, z) /\ z.nbits < z.sc.n /\ z.rb = {} /\ z.rdirty = FALSE
    BY <1>4, <2>5 DEF Reclaimed, SameBut
  <2> HIDE DEF z
  <2>8. PopFrom(s) = z
    BY <2>4 DEF z
  <2>9. SameBut(v[s], PopFrom(s)) /\ PopFrom(s).nbits < PopFrom(s).sc.n
        /\ PopFrom(s).rb = {} /\ PopFrom(s).rdirty = FALSE
    BY <2>7, <2>8 DEF r
  <2>10. v[s].sc.cls = c /\ v[s].nbits = v[s].sc.n /\ PopTook(s) \subseteq Returned(s)
    BY <1>2, <1>4, <2>4 DEF r
  <2>11. QED BY <2>6, <2>9, <2>10 DEF Roomy
<1>5. CASE r.nbits # r.sc.n
  <2>1. PopFrom(s) = r /\ PopTook(s) = {} /\ Of(s) \ {} = Of(s)
    BY <1>5 DEF PopFrom, PopTook
  <2>2. r.nbits <= r.sc.n + 1
    <3>1. r.used \subseteq 0 .. r.sc.n /\ r.nbits = Cardinality(r.used)
      BY ZenonT(60), <1>1, ExactFacts DEF Exact
    <3>2. IsFiniteSet(0 .. r.sc.n) /\ Cardinality(0 .. r.sc.n) = r.sc.n + 1
      <4> DEFINE n == r.sc.n
      <4>1. n \in Nat
        BY <1>3
      <4> HIDE DEF n
      <4>2. IsFiniteSet(0 .. n) /\ Cardinality(0 .. n) = IF 0 > n THEN 0 ELSE n - 0 + 1
        BY <4>1, FS_Interval
      <4>3. IsFiniteSet(0 .. n) /\ Cardinality(0 .. n) = n + 1
        BY <4>1, <4>2
      <4>4. QED BY <4>3 DEF n
    <3>3. Cardinality(r.used) <= Cardinality(0 .. r.sc.n)
      BY <3>1, <3>2, FS_Subset
    <3>4. QED BY <3>1, <3>2, <3>3
  <2>3. r.nbits < r.sc.n
    BY <1>2, <1>3, <1>5, <2>2
  <2>4. SameBut(r, r)
    BY <1>1 DEF SameBut
  <2>5. v[s].sc.cls = c /\ v[s].nbits # v[s].sc.n /\ PopTook(s) \subseteq Returned(s)
    BY <1>2, <1>5, <2>1
  <2>6. /\ Exact(s, PopFrom(s), Of(s) \ PopTook(s)) /\ SameBut(v[s], PopFrom(s))
        /\ PopFrom(s).nbits < PopFrom(s).sc.n /\ PopFrom(s) = v[s] /\ PopTook(s) = {}
    BY <1>1, <2>1, <2>3, <2>4
  <2>7. QED BY <2>5, <2>6 DEF Roomy
<1>6. QED BY <1>4, <1>5

(* The step of the slab, as far as the blocks out of it go.                 *)
PopSlab(s) ==
  /\ \A x \in Slots : x # s => v'[x] = v[x]
  /\ v'[s].sc = v[s].sc
  /\ v'[s].rb = IF v[s].nbits = v[s].sc.n THEN {} ELSE v[s].rb

LEMMA PopMoves ==
  ASSUME Ctx, NEW t \in Threads, NEW s \in Slots, NEW c \in Classes, NEW k \in Banks,
         NEW e \in Entries, e.blk.len = Size[c], e.blk.slab = s, Puts(t, c, k, e),
         e.blk \notin Of(s) \ PopTook(s), PopSlab(s),
         held' = held, lost' = lost, \A u \in Threads : my'[u].blk = my[u].blk
  PROVE  /\ Once' /\ PutDone(t, c, k, e)
         /\ Of(s)' = (Of(s) \ PopTook(s)) \union {e.blk}
         /\ \A x \in Slots : x # s => Of(x)' = Of(x)
<1> DEFINE f == Whereabouts
           h == Whereabouts'
           D == PopTook(s)
           p == <<"back">>
           q == <<"bank", t, c, k>>
           g == [x \in Spots |-> IF x = p THEN f[x] \ D ELSE f[x]]
           b == e.blk
<1>1. Apart(f) /\ Blocks = Union(f) /\ Blocks' = Union(h)
  BY Gathered, CtxFacts DEF Good, Once
<1>2. p \in Spots /\ q \in Spots /\ p # q
  BY SpotsAre, SpotsDiffer
<1>3. D \subseteq f[p] /\ h[p] = f[p] \ D
  <2>1. CASE v[s].nbits = v[s].sc.n
    BY <2>1, BackLoses DEF PopSlab, PopTook
  <2>2. CASE v[s].nbits # v[s].sc.n
    <3>1. D = {}
      BY <2>2 DEF PopTook
    <3>2. \A x \in Slots : v'[x] = v[x] \/ (v'[x].rb = v[x].rb /\ v'[x].sc = v[x].sc)
      BY <2>2 DEF PopSlab
    <3>3. \A x \in Slots : Returned(x)' = Returned(x)
      BY <3>2, ReturnedStep
    <3>4. \A x \in Slots : Backs'[x] = Backs[x]
      BY <3>3 DEF Backs
    <3>5. BackOf(Backs') = BackOf(Backs)
      <4> DEFINE y == Backs
                 z == Backs'
      <4>1. \A x \in Slots : z[x] = y[x]
        BY <3>4
      <4> HIDE DEF y, z
      <4>2. \A a : a \in BackOf(y) <=> a \in BackOf(z)
        BY <4>1, InBack
      <4>3. BackOf(y) = BackOf(z)
        BY <4>2
      <4>4. QED BY <4>3 DEF y, z
    <3>6. h[p] = f[p]
      BY <3>5, BackIs
    <3>7. QED BY <3>1, <3>6
  <2>3. QED BY <2>1, <2>2
<1>4. \A x \in D : x.slab = s
  BY DEF PopTook, Returned, Block
<1>5. g[p] = f[p] \ D /\ \A x \in Spots \ {p} : g[x] = f[x]
  BY <1>2
<1>6. Apart(g) /\ Union(g) = Union(f) \ D
  <2>1. Drains(f, g, p, D)
    BY <1>1, <1>2, <1>3, <1>5 DEF Drains
  <2> HIDE DEF f, g, p, D
  <2>2. QED BY <2>1, Leave
<1>7. b \notin Union(g)
  <2>1. SUFFICES ASSUME b \in Union(g) PROVE FALSE
    OBVIOUS
  <2>2. b \in Blocks /\ b \notin D
    BY <1>1, <1>6, <2>1
  <2>3. b \in Of(s)
    BY <2>2 DEF Of
  <2>4. QED BY <2>2, <2>3
<1>8. e.blk \notin f[q]
  <2>1. SUFFICES ASSUME b \in f[q] PROVE FALSE
    OBVIOUS
  <2>2. b \in g[q]
    BY <1>2, <1>5, <2>1
  <2>3. b \in Union(g)
    BY <1>2, <2>2 DEF Union
  <2>4. QED BY <1>7, <2>3
<1>9. PutDone(t, c, k, e)
  BY <1>8, BankEnters
<1>10. h[q] = f[q] \union {b}
  BY <1>9 DEF PutDone
<1>11. \A x \in Spots \ {p, q} : h[x] = f[x]
  <2> PICK X : X = {p, q}
    OBVIOUS
  <2>1. p \in X /\ q \in X
    OBVIOUS
  <2>2. \A u \in Threads, d \in Classes, j \in Banks :
          <<"bank", u, d, j>> \in X \/ cache'[u][d][j] = cache[u][d][j]
    <3>1. ASSUME NEW u \in Threads, NEW d \in Classes, NEW j \in Banks
          PROVE  <<"bank", u, d, j>> \in X \/ cache'[u][d][j] = cache[u][d][j]
      <4>1. CASE u = t /\ d = c /\ j = k
        BY <2>1, <4>1
      <4>2. CASE u # t \/ d # c \/ j # k
        BY <1>9, <4>2 DEF PutDone
      <4>3. QED BY <4>1, <4>2
    <3>2. QED BY <3>1
  <2>3. \A x \in Spots \ X : Whereabouts'[x] = Whereabouts[x]
    <3>1. <<"back">> \in X
      BY <2>1
    <3>2. QED BY <2>2, <3>1, Elsewhere
  <2>4. QED BY <2>3
<1>12. Gains(g, h, q, b)
  <2>1. h[q] = g[q] \union {b}
    BY <1>2, <1>5, <1>10
  <2>2. \A x \in Spots \ {q} : h[x] = g[x]
    <3>1. ASSUME NEW x \in Spots \ {q} PROVE h[x] = g[x]
      <4>1. CASE x = p
        BY <1>3, <1>5, <4>1
      <4>2. CASE x # p
        BY <1>5, <1>11, <4>2
      <4>3. QED BY <4>1, <4>2
    <3> HIDE DEF g, h
    <3>2. QED BY <3>1
  <2> HIDE DEF g, h, q, b
  <2>3. QED BY <1>2, <1>6, <1>7, <2>1, <2>2 DEF Gains
<1> HIDE DEF f, g, h, q
<1>13. Apart(h) /\ Union(h) = Union(g) \union {b}
  BY <1>12, Enter
<1>14. Once'
  BY <1>9, <1>13 DEF PutDone, Once, h
<1>15. Blocks' = (Blocks \ D) \union {b}
  BY <1>1, <1>6, <1>13
<1>16. Of(s)' = (Of(s) \ D) \union {b} /\ \A x \in Slots : x # s => Of(x)' = Of(x)
  BY <1>4, <1>15 DEF Of
<1>17. QED BY <1>9, <1>14, <1>16
LEMMA PopFacts ==
  ASSUME Ctx, NEW t \in Threads, Pop(t), NEW s, s = my[t].cur, NEW c, c = my[t].cls,
         NEW r, r = PopFrom(s), NEW i, i = Min(Indices \ r.used)
  PROVE  /\ pc[t] \in {"visit", "pop"} /\ slabLock[s] \in {None, t} /\ s \in Slots /\ c \in Classes
         /\ s \in Members(bin[c]) /\ v[s].live /\ my[t] \in Works /\ my[t].blk = NoBlock
         /\ \A u \in Threads : pc[u] \in InMorph => my[u].cur # s
         /\ v[s].sc.cls = c /\ Roomy(s, c)
         /\ r \in Vslabs /\ r.sc = v[s].sc /\ r.sc \in LayoutSet /\ r.sc.n \in Nat /\ r.sc.cls = c
         /\ r.sc.n < SlabSize /\ SlabSize \in Nat /\ Indices = 0 .. SlabSize
         /\ i \in 0 .. r.sc.n - 1 /\ i \notin r.used /\ i \in Indices
<1>1. AtSlab(t) /\ ~Refuses(v[s], c)
  BY Zenon DEF Pop
<1>2. /\ pc[t] \in {"visit", "pop"} /\ slabLock[s] \in {None, t} /\ s \in Slots /\ c \in Classes
      /\ s \in Members(bin[c]) /\ v[s].live /\ my[t] \in Works /\ my[t].blk = NoBlock
  <2>1. pc[t] \in {"visit", "pop"} /\ (pc[t] = "visit" => slabLock[s] = None)
    <3>1. AtSlab(t) /\ my[t].cur = s
      BY <1>1
    <3>2. pc[t] = "pop" \/ (pc[t] = "visit" /\ slabLock[my[t].cur] = None)
      BY <3>1 DEF AtSlab
    <3>3. QED BY <3>1, <3>2
  <2>2. s \in Slots /\ v[s].live /\ my[t] \in Works /\ my[t].blk = NoBlock /\ s \in Members(bin[c])
    BY <2>1, CtxFacts DEF OnSlab, OnLive, HandOK, InHand, BinOK, AtBin
  <2>3. c \in Classes
    BY <2>2, WorkType
  <2>4. pc[t] = "pop" => slabLock[s] = t
    BY <2>2, CtxFacts DEF Locks, ThreadOK, WithSlab
  <2>5. QED BY <2>1, <2>2, <2>3, <2>4
<1>3. \A u \in Threads : pc[u] \in InMorph => my[u].cur # s
  <2>1. pc[t] \notin InMorph
    BY <1>2 DEF InMorph
  <2>2. QED BY <1>2, <2>1, NotInMorph, CtxFacts
<1>4. /\ v[s].sc.cls = c /\ Exact(s, r, Of(s) \ PopTook(s)) /\ SameBut(v[s], r) /\ r.nbits < r.sc.n
      /\ IF v[s].nbits = v[s].sc.n THEN r.rb = {} /\ r.rdirty = FALSE ELSE r = v[s]
  <2>1. ~Refuses(v[s], c) /\ s \in Slots
    BY <1>1, <1>2
  <2>2. Roomy(s, c)
    BY <1>3, <2>1, PopRoom
  <2>3. QED BY <2>2 DEF Roomy
<1>7. Roomy(s, c)
  BY <1>1, <1>2, <1>3, PopRoom
<1>5. r \in Vslabs /\ r.sc = v[s].sc /\ r.sc \in LayoutSet /\ r.sc.n \in Nat /\ r.sc.cls = c
      /\ r.sc.n < SlabSize /\ SlabSize \in Nat /\ Indices = 0 .. SlabSize
  <2>1. r \in Vslabs /\ r.sc = v[s].sc
    BY <1>4 DEF SameBut
  <2>2. r.sc \in LayoutSet /\ SlabSize \in Nat /\ Indices = 0 .. SlabSize
    BY <2>1, SlabType
  <2>3. QED BY <1>4, <2>1, <2>2, LayoutType
<1>6. i \in 0 .. r.sc.n - 1 /\ i \notin r.used /\ i \in Indices
  <2>1. i \in 0 .. r.sc.n - 1 /\ i \notin r.used
    <3>1. QED BY <1>4, FirstFree
  <2>2. QED BY <1>5, <2>1
<1>8. QED BY <1>2, <1>3, <1>4, <1>5, <1>6, <1>7

LEMMA PopGood ==
  ASSUME Ctx, NEW t \in Threads, Pop(t)
  PROVE  Good'
<1> PICK s : s = my[t].cur
  OBVIOUS
<1> PICK c : c = my[t].cls
  OBVIOUS
<1> DEFINE r == PopFrom(s)
           i == Min(Indices \ r.used)
           k == i % NBanks
           e == [blk |-> Block(s, r.sc, i), mi |-> i]
           q == [r EXCEPT !.used = @ \union {i}, !.nbits = @ + 1]
           p == IF Len(Append(cache[t][c][k], e)) = Cap THEN "full"
                ELSE IF r.numb = 0 THEN "touch" ELSE "pop"
           w == [my[t] EXCEPT !.val = IF r.nbits < 0 THEN morphLen + 1 ELSE morphLen - 1, !.next = p]
<1>0. AtSlab(t) /\ ~Refuses(v[s], c)
  BY Zenon DEF Pop
<1>1. /\ v' = [v EXCEPT ![s] = q]
      /\ numaList' = IF v[s].nbits = v[s].sc.n THEN Without(numaList, s) ELSE numaList
      /\ cache' = [cache EXCEPT ![t][c][k] = Append(cache[t][c][k], e)]
      /\ Be(t, "len", w) \/ (Go(t, p) /\ my' = my)
  BY Zenon DEF Pop, PopFrom
<1>2. /\ turn' = turn /\ held' = held /\ lost' = lost /\ bin' = bin /\ now' = now
      /\ lru' = lru /\ lruLen' = lruLen /\ morphLen' = morphLen
  <2>1. UNCHANGED <<listVars, lruVars, turn, held, lost>>
    BY Zenon DEF Pop
  <2>2. QED BY <2>1 DEF listVars, lruVars
<1> HIDE DEF e, q, p, w, k
<1>2a. /\ pc[t] \in {"visit", "pop"} /\ slabLock[s] \in {None, t} /\ s \in Slots /\ c \in Classes
       /\ s \in Members(bin[c]) /\ v[s].live /\ my[t] \in Works /\ my[t].blk = NoBlock
       /\ \A u \in Threads : pc[u] \in InMorph => my[u].cur # s
       /\ v[s].sc.cls = c /\ Roomy(s, c)
       /\ r \in Vslabs /\ r.sc = v[s].sc /\ r.sc \in LayoutSet /\ r.sc.n \in Nat /\ r.sc.cls = c
       /\ r.sc.n < SlabSize /\ SlabSize \in Nat /\ Indices = 0 .. SlabSize
       /\ i \in 0 .. r.sc.n - 1 /\ i \notin r.used /\ i \in Indices
  <2> PICK x, y : x = r /\ y = i
    OBVIOUS
  <2>1. x = PopFrom(s) /\ y = Min(Indices \ x.used)
    OBVIOUS
  <2> HIDE DEF r, i
  <2>2. QED BY <2>1, PopFacts
<1>3. /\ pc[t] \in {"visit", "pop"} /\ slabLock[s] \in {None, t} /\ s \in Slots /\ c \in Classes
      /\ s \in Members(bin[c]) /\ v[s].live /\ my[t] \in Works /\ my[t].blk = NoBlock
  BY <1>2a
<1>4. \A u \in Threads : pc[u] \in InMorph => my[u].cur # s
  BY <1>2a
<1>5. /\ v[s].sc.cls = c /\ Exact(s, r, Of(s) \ PopTook(s)) /\ SameBut(v[s], r) /\ r.nbits < r.sc.n
      /\ IF v[s].nbits = v[s].sc.n THEN r.rb = {} /\ r.rdirty = FALSE ELSE r = v[s]
  BY <1>2a DEF Roomy
<1>6. r \in Vslabs /\ r.sc = v[s].sc /\ r.sc \in LayoutSet /\ r.sc.n \in Nat /\ r.sc.cls = c
      /\ r.sc.n < SlabSize /\ SlabSize \in Nat /\ Indices = 0 .. SlabSize
  BY <1>2a
<1>7. i \in 0 .. r.sc.n - 1 /\ i \notin r.used /\ i \in Indices
  BY <1>2a
<1> HIDE DEF i, r
<1> USE DEF q, k, e, p, w
<1>8. /\ q \in Vslabs /\ q.sc = r.sc /\ q.scb = r.scb /\ q.numb = r.numb /\ q.dnum = r.dnum
      /\ q.used = r.used \union {i} /\ q.nbits = r.nbits + 1 /\ q.live = r.live
      /\ q.rb = r.rb /\ q.rdirty = r.rdirty
  <2>1. r.used \union {i} \in SUBSET Indices /\ r.nbits + 1 \in Nat
    BY <1>6, <1>7, SlabType
  <2>2. q = [r EXCEPT !.used = r.used \union {i}, !.nbits = r.nbits + 1]
    BY <1>6 DEF Vslabs
  <2> HIDE DEF q
  <2>3. QED BY <1>6, <2>1, <2>2 DEF Vslabs
<1> DEFINE b == Block(s, r.sc, i)
<1>9. Exact(s, q, (Of(s) \ PopTook(s)) \union {b}) /\ b \notin Of(s) \ PopTook(s)
  <2> HIDE DEF q
  <2>1. QED BY <1>5, <1>7, <1>8, ExactEnter
<1> HIDE DEF q
<1>10. /\ b \in Blks /\ b.slab = s /\ b.len = Size[c] /\ k \in Banks /\ e \in Entries /\ e.blk = b
  <2>1. b.slab = s /\ b.at \in Nat /\ b.len = Size[c] /\ b.len \in Nat \ {0}
    <3> HIDE DEF b
    <3>1. b = Block(s, r.sc, i)
      BY DEF b
    <3>2. QED BY <1>6, <1>7, <3>1, LayoutBlock
  <2>2. b = [slab |-> b.slab, at |-> b.at, len |-> b.len]
    BY DEF Block
  <2>3. b \in Blks
    <3> HIDE DEF b
    <3>1. QED BY <1>3, <2>1, <2>2 DEF Blks
  <2>4. k \in Banks
    <3>1. NBanks \in Nat \ {0} /\ i \in Int
      BY <1>6, <1>7, SlabsAssumption
    <3>2. i % NBanks \in 0 .. NBanks - 1
      BY <3>1
    <3>3. QED BY <3>2 DEF Banks
  <2> HIDE DEF b
  <2>5. [blk |-> b, mi |-> i] \in Entries
    BY <1>6, <1>7, <2>3 DEF Entries
  <2>6. e = [blk |-> b, mi |-> i]
    BY DEF b
  <2>7. e \in Entries /\ e.blk = b
    <3> HIDE DEF e
    <3>1. QED BY <2>5, <2>6
  <2>8. QED BY <2>1, <2>3, <2>4, <2>7
<1> HIDE DEF b, k, e
<1>11. p \in {"full", "touch", "pop"}
  OBVIOUS
<1> HIDE DEF p
<1>12. /\ Steps(t) /\ Others(t) /\ my' \in [Threads -> Works]
       /\ my'[t].cur = s /\ my'[t].cls = c /\ my'[t].blk = NoBlock
       /\ \/ pc'[t] = "len" /\ my'[t].next = p
          \/ pc'[t] = p
  <2>1. w \in Works /\ w.cur = s /\ w.cls = c /\ w.blk = NoBlock /\ w.next = p
    <3> DEFINE z == IF r.nbits < 0 THEN morphLen + 1 ELSE morphLen - 1
    <3>1. z \in Int /\ p \in Pcs
      BY <1>11, CtxFacts DEF Pcs
    <3> HIDE DEF z
    <3>2. QED BY <1>3, <3>1 DEF Works, z
  <2> HIDE DEF w
  <2>2. CASE Be(t, "len", w)
    BY <2>1, <2>2, CtxFacts, WorkSet, PcSet, BeSteps DEF Be, Ctx, Steps, Others
  <2>3. CASE Go(t, p) /\ my' = my
    <3>1. pc'[t] = p
      BY <2>3, CtxFacts, PcSet DEF Go
    <3>2. Steps(t)
      BY <2>3, CtxFacts, BeSteps DEF Ctx
    <3>3. my' \in [Threads -> Works]
      BY <2>3, CtxFacts DEF Types
    <3>4. QED BY <1>3, <2>3, <3>1, <3>2, <3>3 DEF Steps, Others
  <2>4. QED BY <1>1, <2>2, <2>3
<1> HIDE DEF w
<1>13. v' \in [Slots -> Vslabs] /\ v'[s] = q /\ \A x \in Slots : x # s => v'[x] = v[x]
  <2>1. v \in [Slots -> Vslabs]
    BY CtxFacts DEF Types
  <2>2. QED BY <1>1, <1>3, <1>8, <2>1
<1>14. PopSlab(s)
  <2>1. v'[s].sc = v[s].sc
    BY <1>6, <1>8, <1>13
  <2>2. v'[s].rb = IF v[s].nbits = v[s].sc.n THEN {} ELSE v[s].rb
    BY <1>5, <1>8, <1>13
  <2>3. QED BY <1>13, <2>1, <2>2 DEF PopSlab
<1>15. /\ Once' /\ PutDone(t, c, k, e)
       /\ Of(s)' = (Of(s) \ PopTook(s)) \union {b}
       /\ \A x \in Slots : x # s => Of(x)' = Of(x)
  <2>1. Puts(t, c, k, e)
    BY <1>1 DEF Puts
  <2>2. \A u \in Threads : my'[u].blk = my[u].blk
    BY <1>3, <1>12 DEF Others
  <2>3. e.blk.len = Size[c] /\ e.blk.slab = s /\ e.blk \notin Of(s) \ PopTook(s)
    BY <1>9, <1>10
  <2>4. /\ Once' /\ PutDone(t, c, k, e)
        /\ Of(s)' = (Of(s) \ PopTook(s)) \union {e.blk}
        /\ \A x \in Slots : x # s => Of(x)' = Of(x)
    BY <1>2, <1>3, <1>10, <1>14, <2>1, <2>2, <2>3, PopMoves
  <2>5. QED BY <1>10, <2>4
<1>16. Types'
  BY <1>2, <1>12, <1>13, <1>15, CtxFacts DEF Types, PutDone
<1>17. v'[s].live /\ v'[s].sc.cls = v[s].sc.cls /\ v'[s].numb = v[s].numb
  BY <1>3, <1>5, <1>6, <1>8, <1>13 DEF SameBut
<1>18. Remote'
  <2>1. pc[t] # "enlist" /\ pc'[t] # "enlist"
    BY <1>3, <1>11, <1>12
  <2>2. CASE v[s].nbits # v[s].sc.n
    <3>1. \A x \in Slots : \/ v'[x] = v[x]
                           \/ v'[x].rb = v[x].rb /\ v'[x].rdirty = v[x].rdirty /\ v'[x].live
      <4>1. v'[s].rb = v[s].rb /\ v'[s].rdirty = v[s].rdirty /\ v'[s].live
        BY <1>5, <1>8, <1>13, <1>17, <2>2
      <4>2. \A x \in Slots : x = s \/ v'[x] = v[x]
        BY <1>13
      <4>3. QED BY <4>1, <4>2
    <3>2. QED BY <1>1, <1>12, <2>1, <2>2, <3>1, RemoteStep, CtxFacts DEF Good
  <2>3. CASE v[s].nbits = v[s].sc.n
    <3>1. numaList' = Without(numaList, s)
      BY <1>1, <2>3
    <3>2. Distinct(numaList') /\ Members(numaList') = Members(numaList) \ {s}
      <4>1. numaList \in Seq(Slots) /\ Distinct(numaList)
        BY CtxFacts DEF Good, Remote
      <4>2. QED BY <3>1, <4>1, WithoutIn
    <3>3. v'[s].rb = {} /\ v'[s].rdirty = FALSE
      BY <1>5, <1>8, <1>13, <2>3
    <3>4. \A x \in Members(numaList') : v'[x].live
      <4>1. \A x \in Members(numaList') : x \in Slots /\ v[x].live /\ x # s
        <5>1. \A x \in Members(numaList) : x \in Slots
          BY CtxFacts DEF Members
        <5>2. \A x \in Members(numaList) : v[x].live
          BY CtxFacts DEF Good, Remote
        <5>3. QED BY <3>2, <5>1, <5>2
      <4>2. QED BY <1>13, <4>1
    <3>5. ASSUME NEW x \in Slots PROVE Dirty(x)'
      <4>1. CASE x = s
        BY <3>3, <4>1 DEF Dirty
      <4>2. CASE x # s
        <5>1. Dirty(x)
          BY CtxFacts DEF Good, Remote
        <5>2. (\E u \in Threads : pc[u] = "enlist" /\ my[u].cur = x)
                => \E u \in Threads : pc'[u] = "enlist" /\ my'[u].cur = x
          BY <1>12, <2>1 DEF Others
        <5>3. QED BY <1>13, <3>2, <4>2, <5>1, <5>2 DEF Dirty
      <4>3. QED BY <4>1, <4>2
    <3>6. QED BY <3>2, <3>4, <3>5 DEF Remote
  <2>4. QED BY <2>2, <2>3
<1>19. HandOK(t)' /\ OnLive(t)' /\ Walks(t)' /\ Alone(t)' /\ FillOK(t)' /\ BinOK(t)'
  <2>1. OnLive(t)'
    BY <1>12, <1>17 DEF OnLive
  <2>2. HandOK(t)'
    BY <1>11, <1>12 DEF HandOK, InHand
  <2>3. Walks(t)' /\ Alone(t)'
    BY <1>11, <1>12 DEF Walks, Alone, Leaving
  <2>4. FillOK(t)'
    BY <1>10, <1>12, <1>15 DEF FillOK, PutDone
  <2>5. BinOK(t)'
    BY <1>2, <1>3, <1>11, <1>12 DEF BinOK
  <2>6. QED BY <2>1, <2>2, <2>3, <2>4, <2>5
<1>20. pc[t] \notin InMorph /\ pc'[t] \notin InMorph /\ pc[t] # "insert"
  BY <1>3, <1>11, <1>12 DEF InMorph
<1>21. Exact(s, v'[s], Of(s)')
  <2>1. v'[s] = q /\ Of(s)' = (Of(s) \ PopTook(s)) \union {b}
    BY <1>13, <1>15
  <2>2. QED BY <1>9, <2>1
<1>22. ~NoBin(s) /\ \A u \in Threads \ {t} : cache'[u] = cache[u]
  BY <1>3, <1>15 DEF NoBin, PutDone
<1>23. QED
  BY <1>2, <1>3, <1>4, <1>12, <1>13, <1>15, <1>16, <1>17, <1>18, <1>19, <1>20, <1>21, <1>22, BlocksStep
(* A slab is morphed *)

(* What the steps of a morphing have in common.                             *)
Reshapes(t, s) ==
  /\ s \in Slots /\ my[t].cur = s /\ my'[t].cur = s
  /\ pc[t] \in {"seize", "unbin", "table", "metas"}
  /\ pc'[t] \in {"unbin", "table", "metas", "visit"}
  /\ Steps(t) /\ my' \in [Threads -> Works] /\ my'[t].blk = NoBlock
  /\ slabLock[s] \in {None, t}
  /\ v' \in [Slots -> Vslabs] /\ \A x \in Slots : x # s => v'[x] = v[x]
  /\ v[s].live /\ v'[s].live /\ v[s].rb = {} /\ v'[s].rb = {}
  /\ v[s].rdirty = FALSE /\ v'[s].rdirty = FALSE
  /\ cache' = cache /\ turn' = turn /\ held' = held /\ lost' = lost /\ numaList' = numaList
  /\ lruLen' \in Int /\ morphLen' \in Int

(* What they make of the slab.                                              *)
Reshaped(t, s) ==
  /\ Morphs(t)' \/ Exact(s, v'[s], Of(s))
  /\ Morphs(t)' => /\ Moving(s, v'[s], Of(s), my'[t].old)
                   /\ my'[t].sc = v'[s].scb /\ my'[t].cls = v'[s].sc.cls
  /\ pc'[t] = "unbin" => v'[s].used = my'[t].old

(* And of the LRU list.                                                     *)
LruKept(t, s) ==
  /\ lru' \in Seq(Slots) /\ Distinct(lru') /\ Members(lru') \subseteq Members(lru)
  /\ Members(lru) \ {s} \subseteq Members(lru')
  /\ s \in Members(lru') => v'[s].numb = 0 \/ pc'[t] = "unbin"
  /\ s \in Members(lru) \/ v'[s].numb = v[s].numb
  /\ pc'[t] = "unbin" => s \in Members(lru')

LEMMA MorphStep ==
  ASSUME Ctx, NEW t \in Threads, NEW s, Reshapes(t, s), Reshaped(t, s), LruKept(t, s),
         Bins', Unbinned'
  PROVE  Good'
<1>1. /\ s \in Slots /\ my[t].cur = s /\ my'[t].cur = s
      /\ pc[t] \in {"seize", "unbin", "table", "metas"}
      /\ pc'[t] \in {"unbin", "table", "metas", "visit"}
      /\ Steps(t) /\ my' \in [Threads -> Works] /\ my'[t].blk = NoBlock
      /\ slabLock[s] \in {None, t}
      /\ v' \in [Slots -> Vslabs] /\ \A x \in Slots : x # s => v'[x] = v[x]
      /\ v[s].live /\ v'[s].live /\ v[s].rb = {} /\ v'[s].rb = {}
      /\ v[s].rdirty = FALSE /\ v'[s].rdirty = FALSE
  BY DEF Reshapes
<1>2. /\ cache' = cache /\ turn' = turn /\ held' = held /\ lost' = lost /\ numaList' = numaList
      /\ lruLen' \in Int /\ morphLen' \in Int
  BY DEF Reshapes
<1>3. Others(t) /\ my[t].blk = NoBlock
  BY <1>1, CtxFacts DEF Others, Steps, HandOK, InHand
<1>4. \A u \in Threads \ {t} : pc[u] \in InMorph => my[u].cur # s
  <2>1. ASSUME NEW u \in Threads \ {t}, pc[u] \in InMorph, my[u].cur = s PROVE FALSE
    <3>1. slabLock[s] = u
      BY <2>1, MorphCur, CtxFacts
    <3>2. QED BY <1>1, <2>1, <3>1, Names
  <2>2. QED BY <2>1
<1>5. \A x \in Slots : Returned(x)' = Returned(x)
  <2>1. ASSUME NEW x \in Slots PROVE Returned(x)' = Returned(x)
    <3>1. CASE x = s
      <4>1. Returned(x) = {} /\ Returned(x)' = {}
        BY <1>1, <3>1 DEF Returned
      <4>2. QED BY <4>1
    <3>2. CASE x # s
      BY <1>1, <3>2 DEF Returned
    <3>3. QED BY <3>1, <3>2
  <2>2. QED BY <2>1
<1>6. Once' /\ \A x : Of(x)' = Of(x)
  <2>1. \A u \in Threads : my'[u].blk = my[u].blk
    BY <1>1, <1>3 DEF Others
  <2>2. QED BY <1>2, <1>5, <2>1, StillStep, CtxFacts DEF Good
<1>7. Types'
  BY <1>1, <1>2, CtxFacts DEF Types, LruKept
<1>8. Hands'
  <2>1. HandOK(t)'
    BY <1>1 DEF HandOK, InHand
  <2>2. QED BY <1>3, <2>1, HandsStep, CtxFacts DEF Good
<1>9. Of(s)' = Of(s)
  BY <1>6
<1>10. Slabwise'
  <2>1. ASSUME NEW x \in Slots, \A u \in Threads : Morphs(u)' => my'[u].cur # x
        PROVE  Exact(x, v'[x], Of(x)')
    <3>1. CASE x = s
      <4>1. Exact(s, v'[s], Of(s))
        BY <1>1, <2>1, <3>1 DEF Reshaped
      <4>2. v'[x] = v'[s] /\ Of(x)' = Of(s)
        BY <1>9, <3>1
      <4>3. QED BY <3>1, <4>1, <4>2
    <3>2. CASE x # s
      <4>1. \A u \in Threads : Morphs(u) => my[u].cur # x
        <5>1. \A u \in Threads \ {t} : Morphs(u)' <=> Morphs(u)
          BY <1>3 DEF Others, Morphs
        <5>2. QED BY <1>1, <1>3, <2>1, <3>2, <5>1 DEF Others
      <4>2. Exact(x, v[x], Of(x))
        BY <4>1, CtxFacts DEF Good, Slabwise
      <4>3. v'[x] = v[x] /\ Of(x)' = Of(x)
        BY <1>1, <1>6, <3>2
      <4>4. QED BY <4>2, <4>3
    <3>3. QED BY <3>1, <3>2
  <2>2. QED BY <2>1 DEF Slabwise
<1>11. Morphing'
  <2>1. ASSUME NEW u \in Threads PROVE MorphOK(u)'
    <3>1. CASE u = t
      <4>1. Morphs(t)' => /\ Moving(s, v'[s], Of(s)', my'[t].old)
                          /\ my'[t].sc = v'[s].scb /\ my'[t].cls = v'[s].sc.cls
        BY <1>9 DEF Reshaped
      <4>2. pc'[t] = "unbin" => v'[s].used = my'[t].old /\ v'[s].rdirty = FALSE
        BY <1>1 DEF Reshaped
      <4>3. MorphOK(t)'
        <5> PICK z : z = my'[t].cur
          OBVIOUS
        <5>1. z = s /\ Of(z)' = Of(s)'
          BY <1>1
        <5>2. Morphs(t)' => Moving(z, v'[z], Of(z)', my'[t].old)
                            /\ my'[t].sc = v'[z].scb /\ my'[t].cls = v'[z].sc.cls
          BY <4>1, <5>1
        <5>3. pc'[t] = "unbin" => v'[z].used = my'[t].old /\ v'[z].rdirty = FALSE
          BY <4>2, <5>1
        <5>4. QED BY <5>2, <5>3 DEF MorphOK, Of
      <4>4. QED BY <3>1, <4>3
    <3>2. CASE u # t /\ pc[u] \in InMorph
      <4>1. my[u].cur \in Slots /\ my[u].cur # s /\ pc'[u] = pc[u] /\ my'[u] = my[u]
        BY <1>3, <1>4, <3>2, MorphCur, CtxFacts DEF Others
      <4> PICK x : x = my[u].cur
        OBVIOUS
      <4> PICK w : w = my[u]
        OBVIOUS
      <4>2. Of(x)' = Of(x) /\ v'[x] = v[x] /\ my'[u].cur = x /\ w.cur = x
        BY <1>1, <1>6, <4>1
      <4>3. /\ Morphs(u) => Moving(x, v[x], Of(x), w.old) /\ w.sc = v[x].scb /\ w.cls = v[x].sc.cls
            /\ pc[u] = "unbin" => v[x].used = w.old /\ v[x].rdirty = FALSE
        BY CtxFacts DEF MorphOK
      <4>4. Morphs(u)' <=> Morphs(u)
        BY <4>1 DEF Morphs
      <4>5. /\ Morphs(u)' => Moving(x, v'[x], Of(x)', w.old) /\ w.sc = v'[x].scb /\ w.cls = v'[x].sc.cls
            /\ pc'[u] = "unbin" => v'[x].used = w.old /\ v'[x].rdirty = FALSE
        BY <4>1, <4>2, <4>3, <4>4
      <4>6. my'[u] = w
        BY <4>1
      <4>7. QED BY <4>2, <4>5, <4>6 DEF MorphOK, Of
    <3>3. CASE u # t /\ pc[u] \notin InMorph
      BY <1>3, <3>3 DEF Others, MorphOK, Morphs, InMorph
    <3>4. QED BY <3>1, <3>2, <3>3
  <2>2. QED BY <2>1 DEF Morphing
<1>12. Alive'
  <2>1. \A x \in Slots : v'[x] = v[x] \/ v'[x].live
    BY <1>1
  <2>2. OnLive(t)'
    BY <1>1 DEF OnLive
  <2>3. QED BY <1>3, <2>1, <2>2, AliveStep, CtxFacts DEF Good
<1>13. Aged'
  <2>1. \A x \in Members(lru') : Listed(x)'
    <3>1. ASSUME NEW x \in Members(lru') PROVE Listed(x)'
      <4>1. CASE x = s
        BY <1>1, <3>1, <4>1 DEF LruKept, Listed
      <4>2. CASE x # s
        <5>1. x \in Slots /\ Listed(x)
          <6>1. x \in Members(lru)
            BY <3>1 DEF LruKept
          <6>2. QED BY <6>1, CtxFacts DEF Good, Aged, Members
        <5>2. (\E u \in Threads : pc[u] = "unbin" /\ my[u].cur = x)
                => \E u \in Threads : pc'[u] = "unbin" /\ my'[u].cur = x
          BY <1>1, <1>3, <4>2 DEF Others
        <5>3. QED BY <1>1, <4>2, <5>1, <5>2 DEF Listed
      <4>3. QED BY <4>1, <4>2
    <3>2. QED BY <3>1
  <2>2. lruLock = t
    BY <1>1, CtxFacts DEF Locks, ThreadOK, WithLru
  <2>3. ASSUME NEW u \in Threads \ {t}
        PROVE  /\ pc[u] \in {"walk", "seize", "unbin"} /\ my[u].cur \in Members(lru)
                    => my[u].cur \in Members(lru')
               /\ pc[u] = "seize" => v'[my[u].cur].sc.cls = v[my[u].cur].sc.cls
               /\ Leaving(u) => my[u].cur \notin Members(lru') /\ v'[my[u].cur].numb = 0
    <3>1. pc[u] \notin {"walk", "seize", "unbin"}
      BY <2>2, CtxFacts DEF Locks, ThreadOK, WithLru
    <3>2. ASSUME Leaving(u)
          PROVE  my[u].cur \notin Members(lru') /\ v'[my[u].cur].numb = 0
      <4>1. my[u].cur \in Slots /\ my[u].cur \notin Members(lru) /\ v[my[u].cur].numb = 0
        BY <3>2, CtxFacts DEF Leaving, OnSlab, Walks
      <4>2. Members(lru') \subseteq Members(lru) /\ (s \in Members(lru) \/ v'[s].numb = v[s].numb)
        BY DEF LruKept
      <4>3. my[u].cur = s => v'[my[u].cur].numb = 0
        BY <4>1, <4>2
      <4>4. my[u].cur # s => v'[my[u].cur].numb = 0
        BY <1>1, <4>1
      <4>5. QED BY <4>1, <4>2, <4>3, <4>4
    <3>3. QED BY <3>1, <3>2
  <2>4. ~Leaving(t)' /\ Walks(t)' /\ Alone(t)'
    BY <1>1 DEF Leaving, Walks, Alone, LruKept
  <2>5. QED BY <1>3, <2>1, <2>3, <2>4, AgedFrame, CtxFacts DEF Good, LruKept
<1>14. Remote'
  <2>1. ASSUME NEW x \in Slots
        PROVE  \/ v'[x] = v[x]
               \/ v'[x].rb = v[x].rb /\ v'[x].rdirty = v[x].rdirty /\ v'[x].live
    BY <1>1
  <2>2. QED BY <1>1, <1>2, <1>3, <2>1, RemoteStep, CtxFacts DEF Good
<1>15. Filling'
  <2>1. FillOK(t)'
    BY <1>1 DEF FillOK, Ready
  <2>2. QED BY <1>2, <1>3, <2>1, FillStep, CtxFacts DEF Good
<1>16. QED BY <1>6, <1>7, <1>8, <1>10, <1>11, <1>12, <1>13, <1>14, <1>15 DEF Good
(* A thread at a slab that it is morphing.                                  *)
LEMMA AtMorph ==
  ASSUME Ctx, NEW t \in Threads, NEW s, s = my[t].cur, pc[t] \in {"seize", "unbin", "table", "metas"}
  PROVE  /\ s \in Slots /\ my[t] \in Works /\ my[t].blk = NoBlock /\ v[s].live /\ v[s] \in Vslabs
         /\ my[t].cls \in Classes /\ lruLock = t
         /\ pc[t] # "seize" => slabLock[s] = t
         /\ \A u \in Threads \ {t} : pc[u] \in InMorph => slabLock[my[u].cur] = u
<1>1. s \in Slots /\ my[t] \in Works /\ my[t].blk = NoBlock /\ v[s].live
  BY CtxFacts DEF OnSlab, HandOK, InHand, OnLive
<1>2. my[t].cls \in Classes /\ v[s] \in Vslabs
  BY <1>1, WorkType, CtxFacts, GoodTypes
<1>3. lruLock = t
  BY CtxFacts DEF Locks, ThreadOK, WithLru
<1>4. pc[t] # "seize" => slabLock[s] = t
  BY MorphCur, CtxFacts DEF InMorph
<1>5. QED BY <1>1, <1>2, <1>3, <1>4, MorphCur, CtxFacts

LEMMA TableGood ==
  ASSUME Ctx, NEW t \in Threads, Table(t)
  PROVE  Good'
<1> PICK s : s = my[t].cur
  OBVIOUS
<1>1. /\ pc[t] = "table" /\ v' = [v EXCEPT ![s].dnum = [i \in Indices |-> 0]] /\ Go(t, "metas")
      /\ UNCHANGED <<listVars, lruVars, cacheVars, moveVars, binLock, slabLock, lruLock, remVars, my>>
  BY Zenon DEF Table
<1>2. /\ bin' = bin /\ now' = now /\ lru' = lru /\ lruLen' = lruLen /\ morphLen' = morphLen
      /\ cache' = cache /\ turn' = turn /\ held' = held /\ lost' = lost /\ numaList' = numaList
      /\ my' = my
  BY <1>1 DEF listVars, lruVars, cacheVars, remVars
<1>3. /\ s \in Slots /\ my[t] \in Works /\ my[t].blk = NoBlock /\ v[s].live /\ v[s] \in Vslabs
      /\ slabLock[s] = t
  BY <1>1, AtMorph
<1>4. /\ Moving(s, v[s], Of(s), my[t].old) /\ my[t].sc = v[s].scb /\ my[t].cls = v[s].sc.cls
      /\ s \in Members(bin[my[t].cls])
  BY <1>1, CtxFacts DEF MorphOK, Morphs, BinOK, AtBin
<1>5. v' = v
  <2> DEFINE z == [i \in Indices |-> 0]
  <2>1. v[s].dnum = z
    BY <1>4 DEF Moving
  <2>2. v' = [v EXCEPT ![s].dnum = z]
    BY <1>1
  <2> HIDE DEF z
  <2>3. [v[s] EXCEPT !.dnum = z] = v[s]
    BY <1>3, <2>1 DEF Vslabs
  <2>4. v' = [v EXCEPT ![s] = v[s]]
    BY <2>2, <2>3
  <2>5. v \in [Slots -> Vslabs]
    BY CtxFacts DEF Types
  <2>6. QED BY <2>4, <2>5
<1>6. Steps(t) /\ pc'[t] = "metas" /\ my' \in [Threads -> Works] /\ my'[t] = my[t]
  BY <1>1, <1>2, CtxFacts, PcSet, BeSteps DEF Go, Ctx, Types
<1>7. Others(t)
  BY <1>6 DEF Others, Steps
<1>8. v[s].rb = {} /\ v[s].rdirty = FALSE
  BY <1>4 DEF Moving
<1>9. Reshapes(t, s)
  BY <1>1, <1>2, <1>3, <1>5, <1>6, <1>8, CtxFacts DEF Reshapes, Types
<1>10. Reshaped(t, s)
  BY <1>4, <1>5, <1>6 DEF Reshaped, Morphs
<1>11. LruKept(t, s)
  <2>1. s \in Members(lru) => v[s].numb = 0
    <3>1. ASSUME s \in Members(lru), v[s].numb # 0 PROVE FALSE
      <4>1. PICK u \in Threads : pc[u] = "unbin" /\ my[u].cur = s
        BY <3>1, CtxFacts DEF Good, Aged, Listed
      <4>2. slabLock[s] = u
        BY <4>1, MorphCur, CtxFacts DEF InMorph
      <4>3. QED BY <1>1, <1>3, <4>1, <4>2
    <3>2. QED BY <3>1
  <2>2. QED BY <1>2, <1>5, <1>6, <2>1, CtxFacts DEF LruKept, Good, Aged
<1>12. Bins'
  <2>1. BinOK(t)'
    BY <1>2, <1>4, <1>6 DEF BinOK
  <2>2. QED BY <1>2, <1>5, <1>7, <2>1, BinsStep, CtxFacts DEF Good
<1>13. Unbinned'
  BY <1>1, <1>2, <1>5, <1>7, UnbinnedStep, CtxFacts DEF Good
<1>14. QED BY <1>9, <1>10, <1>11, <1>12, <1>13, MorphStep
LEMMA MetasGood ==
  ASSUME Ctx, NEW t \in Threads, Metas(t)
  PROVE  Good'
<1> PICK s : s = my[t].cur
  OBVIOUS
<1> PICK c : c = my[t].cls
  OBVIOUS
<1> DEFINE over == Overs(s, v[s].sc, my[t].sc, my[t].old)
           q    == Ended(v[s], over)
           w    == [NoWork EXCEPT !.cls = c, !.cur = s]
<1>1. /\ pc[t] = "metas" /\ v' = [v EXCEPT ![s] = q] /\ Be(t, "visit", w)
      /\ now' = [now EXCEPT ![c] = s]
      /\ UNCHANGED <<bin, lruVars, cacheVars, moveVars, binLock, remVars>>
  BY Zenon DEF Metas, Overs, Ended, InUse
<1>2. /\ bin' = bin /\ lru' = lru /\ lruLen' = lruLen /\ morphLen' = morphLen
      /\ cache' = cache /\ turn' = turn /\ held' = held /\ lost' = lost /\ numaList' = numaList
  BY <1>1 DEF lruVars, cacheVars, remVars
<1>3. /\ s \in Slots /\ my[t] \in Works /\ my[t].blk = NoBlock /\ v[s].live /\ v[s] \in Vslabs
      /\ slabLock[s] = t /\ c \in Classes
  BY <1>1, AtMorph
<1>4. /\ Moving(s, v[s], Of(s), my[t].old) /\ my[t].sc = v[s].scb /\ c = v[s].sc.cls
      /\ s \in Members(bin[c])
  BY <1>1, CtxFacts DEF MorphOK, Morphs, BinOK, AtBin
<1>5. /\ Exact(s, q, Of(s)) /\ q \in Vslabs /\ q.sc = v[s].sc
  BY <1>4, MovingEnds
<1>6. q.live = v[s].live /\ q.numb = v[s].numb /\ q.rb = v[s].rb /\ q.rdirty = v[s].rdirty
  <2>1. DOMAIN v[s] = SlabFields
    BY <1>3, SlabType
  <2> HIDE DEF over
  <2>2. QED BY <2>1 DEF Ended, SlabFields
<1>7. w \in Works /\ w.blk = NoBlock /\ w.cur = s /\ w.cls = c
  BY <1>3, PlainType DEF Works, NoWork
<1> HIDE DEF w, q
<1>8. Steps(t) /\ pc'[t] = "visit" /\ my' \in [Threads -> Works] /\ my'[t] = w
  BY <1>1, <1>7, CtxFacts, WorkSet, PcSet, BeSteps DEF Be, Ctx
<1>9. v' \in [Slots -> Vslabs] /\ v'[s] = q /\ \A x \in Slots : x # s => v'[x] = v[x]
  <2>1. v \in [Slots -> Vslabs]
    BY CtxFacts DEF Types
  <2>2. QED BY <1>1, <1>3, <1>5, <2>1
<1>10. Others(t)
  BY <1>8 DEF Others, Steps
<1>11. v[s].rb = {} /\ v[s].rdirty = FALSE
  BY <1>4 DEF Moving
<1>12. Reshapes(t, s)
  BY <1>1, <1>2, <1>3, <1>6, <1>7, <1>8, <1>9, <1>11, CtxFacts DEF Reshapes
<1>13. Reshaped(t, s)
  BY <1>5, <1>8, <1>9 DEF Reshaped, Morphs
<1>14. LruKept(t, s)
  <2>1. s \in Members(lru) => v[s].numb = 0
    <3>1. ASSUME s \in Members(lru), v[s].numb # 0 PROVE FALSE
      <4>1. PICK u \in Threads : pc[u] = "unbin" /\ my[u].cur = s
        BY <3>1, CtxFacts DEF Good, Aged, Listed
      <4>2. slabLock[s] = u
        BY <4>1, MorphCur, CtxFacts DEF InMorph
      <4>3. QED BY <1>1, <1>3, <4>1, <4>2
    <3>2. QED BY <3>1
  <2>2. QED BY <1>2, <1>6, <1>8, <1>9, <2>1, CtxFacts DEF LruKept, Good, Aged
<1>15. Bins'
  <2>1. BinOK(t)'
    BY <1>2, <1>4, <1>7, <1>8 DEF BinOK
  <2>2. DOMAIN now' = Classes /\ \A d \in Classes : now'[d] = now[d] \/ now'[d] \in Members(bin[d]) \union {Root}
    BY <1>1, <1>3, <1>4, CtxFacts
  <2>3. \A x \in Slots : v'[x] = v[x] \/ v'[x].live
    BY <1>3, <1>6, <1>9
  <2>4. QED BY <1>2, <1>10, <2>1, <2>2, <2>3, BinsStep, CtxFacts DEF Good
<1>16. Unbinned'
  <2>1. ~NoBin(s)
    BY <1>3, <1>4 DEF NoBin
  <2>2. \A x \in Slots : v'[x] = v[x] \/ ~NoBin(x)
    BY <1>9, <2>1
  <2>3. QED BY <1>1, <1>2, <1>10, <2>2, UnbinnedStep, CtxFacts DEF Good
<1>17. QED BY <1>12, <1>13, <1>14, <1>15, <1>16, MorphStep
LEMMA SeizeGood ==
  ASSUME Ctx, NEW t \in Threads, Seize(t), ~Outdated(t)
  PROVE  Good'
<1> PICK s : s = my[t].cur
  OBVIOUS
<1> PICK c : c = my[t].cls
  OBVIOUS
<1> DEFINE refuse == Refusal(v[s], c)
           o == IF Keeps(v[s]) THEN v[s].used ELSE {}
           x == [my[t] EXCEPT !.cur = After(lru, s)]
           w == [my[t] EXCEPT !.sc = v[s].sc, !.old = o]
<1>0. /\ pc[t] = "seize" /\ slabLock[s] = None
      /\ IF refuse THEN Be(t, "walk", x) /\ UNCHANGED <<memVars, slabLock>>
         ELSE /\ Be(t, "unbin", w)
              /\ IF Keeps(v[s]) THEN v' = [v EXCEPT ![s] = Remade(v[s], c)] ELSE UNCHANGED memVars
      /\ UNCHANGED <<listVars, lruVars, cacheVars, moveVars, binLock, lruLock, remVars>>
  BY Zenon DEF Seize, Remade
<1>1. ~refuse => v[s].rdirty # TRUE
  BY <1>0, Zenon DEF Outdated
<1>2. /\ bin' = bin /\ now' = now /\ lru' = lru /\ lruLen' = lruLen /\ morphLen' = morphLen
      /\ cache' = cache /\ turn' = turn /\ held' = held /\ lost' = lost /\ numaList' = numaList
  BY <1>0 DEF listVars, lruVars, cacheVars, remVars
<1>3. /\ s \in Slots /\ my[t] \in Works /\ my[t].blk = NoBlock /\ v[s].live /\ v[s] \in Vslabs
      /\ c \in Classes
  BY <1>0, AtMorph
<1>4. /\ s \in Members(lru) /\ v[s].sc.cls # c /\ lru \in Seq(Slots)
  BY <1>0, CtxFacts DEF Walks
<1>5. \A u \in Threads : pc[u] \in InMorph => my[u].cur # s
  <2>1. pc[t] \notin InMorph
    BY <1>0 DEF InMorph
  <2>2. slabLock[s] = None
    BY <1>0
  <2>3. QED BY <1>3, <2>1, <2>2, NotInMorph, CtxFacts
<1>6. Exact(s, v[s], Of(s))
  BY <1>3, <1>5, AtRest, CtxFacts
<1>7. v[s].numb = 0
  <2>1. v[s].numb = 0 \/ \E u \in Threads : pc[u] = "unbin" /\ my[u].cur = s
    BY <1>4, CtxFacts DEF Good, Aged, Listed
  <2>2. QED BY <1>5, <2>1 DEF InMorph
<1>8. CASE refuse
  <2>1. Be(t, "walk", x) /\ v' = v
    BY <1>0, <1>8 DEF memVars
  <2>2. After(lru, s) \in Members(lru) \union {Root} /\ After(lru, s) \in Slots \union {Root}
    BY <1>4, AfterIn DEF Members
  <2>3. x \in Works /\ x.blk = NoBlock /\ x.cur = After(lru, s)
    <3> DEFINE n == After(lru, s)
    <3>1. n \in Slots \union {Root}
      BY <2>2
    <3> HIDE DEF n
    <3>2. [my[t] EXCEPT !.cur = n] \in Works /\ [my[t] EXCEPT !.cur = n].blk = NoBlock
          /\ [my[t] EXCEPT !.cur = n].cur = n
      BY <1>3, <3>1 DEF Works
    <3>3. QED BY <3>2 DEF n
  <2> HIDE DEF x
  <2>4. Steps(t) /\ pc'[t] = "walk" /\ my' \in [Threads -> Works] /\ my'[t] = x
    BY <2>1, <2>3, CtxFacts, WorkSet, PcSet, BeSteps DEF Be, Ctx
  <2>5. Local(t)'
    <3>1. OnLive(t)' /\ BinOK(t)' /\ FillOK(t)'
      BY <2>4 DEF OnLive, OnSlab, BinOK, AtBin, FillOK, Ready
    <3>2. Walks(t)' /\ Alone(t)'
      BY <1>2, <2>2, <2>3, <2>4 DEF Walks, Alone, Leaving
    <3>3. QED BY <3>1, <3>2 DEF Local
  <2>6. pc[t] \notin InMorph /\ pc[t] \notin InHand /\ pc'[t] \notin InMorph /\ pc'[t] \notin InHand
        /\ pc[t] \notin {"insert", "enlist"} /\ my'[t].blk = NoBlock
    BY <1>0, <2>3, <2>4 DEF InMorph, InHand
  <2>7. \A d \in Classes : now'[d] = now[d] \/ now'[d] \in Members(bin[d]) \union {Root}
    BY <1>2
  <2>8. QED
    BY <1>2, <2>1, <2>4, <2>5, <2>6, <2>7, CtxFacts, QuietStep
<1>9. CASE ~refuse
  <2>1. Be(t, "unbin", w) /\ (v[s].nbits # 0 => v' = [v EXCEPT ![s] = Remade(v[s], c)])
        /\ (v[s].nbits = 0 => v' = v)
    BY <1>0, <1>9 DEF memVars, Keeps
  <2>1a. o = v[s].used
    BY <1>6, ExactFacts DEF Keeps
  <2> HIDE DEF o
  <2>2. v[s].rdirty = FALSE /\ v[s].rb = {}
    <3>1. v[s].rdirty = FALSE
      BY <1>1, <1>3, <1>9, SlabType
    <3>2. QED BY <1>3, <3>1, CtxFacts DEF Good, Remote, Dirty
  <2>3. w \in Works /\ w.blk = NoBlock /\ w.cur = s /\ w.cls = c /\ w.sc = v[s].sc /\ w.old = v[s].used
    <3> DEFINE a == v[s].sc
    <3>1. a \in LayoutSet /\ o \subseteq Indices
      BY <1>3, <2>1a, SlabType
    <3> HIDE DEF a
    <3>2. [my[t] EXCEPT !.sc = a, !.old = o] \in Works /\ [my[t] EXCEPT !.sc = a, !.old = o].blk = NoBlock
          /\ [my[t] EXCEPT !.sc = a, !.old = o].cur = s /\ [my[t] EXCEPT !.sc = a, !.old = o].cls = c
          /\ [my[t] EXCEPT !.sc = a, !.old = o].sc = a /\ [my[t] EXCEPT !.sc = a, !.old = o].old = o
      BY <1>3, <3>1 DEF Works
    <3>3. QED BY <2>1a, <3>2 DEF a
  <2> HIDE DEF w
  <2>4. Steps(t) /\ pc'[t] = "unbin" /\ my' \in [Threads -> Works] /\ my'[t] = w
    BY <2>1, <2>3, CtxFacts, WorkSet, PcSet, BeSteps DEF Be, Ctx
  <2>5. Others(t)
    BY <2>4 DEF Others, Steps
  <2>6. ~Under(v[s], Mixed(c, v[s].nbits)) \/ v[s].nbits = 0
    BY <1>9 DEF Refusal, Keeps
  <2>7. /\ v' \in [Slots -> Vslabs] /\ \A y \in Slots : y # s => v'[y] = v[y]
        /\ v'[s].live /\ v'[s].rb = {} /\ v'[s].rdirty = FALSE
        /\ v'[s] = v[s] \/ v'[s].nbits = 0
        /\ Reshaped(t, s)
    <3>1. v \in [Slots -> Vslabs]
      BY CtxFacts DEF Types
    <3>2. OldOf(v[s], Of(s)) = {}
      BY <1>6, <1>7, ExactFacts
    <3>3. CASE v[s].nbits = 0
      <4>1. v' = v
        BY <2>1, <3>3
      <4>2. v[s].used = {}
        BY <1>6, <3>3, ExactFacts
      <4>3. ~Morphs(t)'
        BY <2>3, <2>4, <4>2 DEF Morphs
      <4>4. Reshaped(t, s)
        BY <1>6, <2>3, <2>4, <4>1, <4>3 DEF Reshaped
      <4>5. QED BY <1>3, <2>2, <3>1, <4>1, <4>4
    <3>4. CASE v[s].nbits # 0
      <4> DEFINE q == Remade(v[s], c)
      <4>1. v' = [v EXCEPT ![s] = q]
        BY <2>1, <3>4
      <4>2. Moving(s, q, Of(s), v[s].used)
        <5> PICK r : r = v[s]
          OBVIOUS
        <5>1. /\ Exact(s, r, Of(s)) /\ r.numb = 0 /\ r.rb = {} /\ r.rdirty = FALSE
              /\ c # r.sc.cls /\ r.nbits # 0 /\ ~Under(r, Mixed(c, r.nbits))
          BY <1>4, <1>6, <1>7, <2>2, <2>6, <3>4
        <5>2. Moving(s, Remade(r, c), Of(s), r.used)
          BY <1>3, <5>1, ExactMoves
        <5>3. QED BY <5>2
      <4>3. q.live = v[s].live /\ q.sc = Mixed(c, v[s].nbits) /\ q.scb = v[s].sc /\ q.used = v[s].used
        <5>1. DOMAIN v[s] = SlabFields
          BY <1>3, SlabType
        <5>2. QED BY <5>1 DEF Remade, SlabFields
      <4>4. q.sc.cls = c
        <5>1. \A k : Mixed(c, k).cls = c
          BY <1>3, Names DEF Mixed
        <5>2. QED BY <4>3, <5>1
      <4>5. q \in Vslabs /\ q.rb = {} /\ q.rdirty = FALSE /\ q.nbits = 0
        BY <4>2 DEF Moving
      <4> HIDE DEF q
      <4>6. v'[s] = q /\ v' \in [Slots -> Vslabs] /\ \A y \in Slots : y # s => v'[y] = v[y]
        BY <1>3, <3>1, <4>1, <4>5
      <4>7. v[s].used # {}
        BY <1>6, <3>4, ExactFacts
      <4>8. Morphs(t)'
        BY <2>3, <2>4, <4>7 DEF Morphs
      <4>9. Reshaped(t, s)
        BY <2>3, <2>4, <3>2, <4>2, <4>3, <4>4, <4>6, <4>8 DEF Reshaped
      <4>10. QED BY <1>3, <4>3, <4>5, <4>6, <4>9
    <3>5. QED BY <3>3, <3>4
  <2>8. Reshapes(t, s)
    BY <1>0, <1>2, <1>3, <2>2, <2>3, <2>4, <2>7, CtxFacts DEF Reshapes
  <2>9. LruKept(t, s)
    BY <1>2, <1>4, <2>4, CtxFacts DEF LruKept, Good, Aged
  <2>10. Bins'
    <3>1. BinOK(t)'
      BY <2>4 DEF BinOK, AtBin
    <3>2. \A y \in Slots : v'[y] = v[y] \/ v'[y].live
      BY <2>7
    <3>3. DOMAIN now' = Classes /\ \A d \in Classes : now'[d] = now[d] \/ now'[d] \in Members(bin[d]) \union {Root}
      BY <1>2, CtxFacts
    <3>4. QED BY <1>2, <2>5, <3>1, <3>2, <3>3, BinsStep, CtxFacts DEF Good
  <2>11. Unbinned'
    <3>1. \A y \in Slots : v'[y] = v[y] \/ v'[y].nbits = 0
      BY <2>7
    <3>2. QED BY <1>0, <1>2, <2>5, <3>1, UnbinnedStep, CtxFacts DEF Good
  <2>12. QED BY <2>7, <2>8, <2>9, <2>10, <2>11, MorphStep
<1>10. QED BY <1>8, <1>9
(* The slab goes from one bin to another, and nothing else does.            *)
LEMMA RebinBins ==
  ASSUME Ctx, NEW t \in Threads, NEW s, s = my[t].cur, pc[t] = "unbin",
         NEW last, Rebin(t, last), failed' = "no",
         Others(t), pc'[t] \in {"table", "visit"}, my'[t].cur = s, my'[t].cls = my[t].cls,
         v'[s].live, \A x \in Slots : x # s => v'[x] = v[x]
  PROVE  Bins' /\ Unbinned'
<1> PICK c : c = my[t].cls
  OBVIOUS
<1> PICK a : a = my[t].sc.cls
  OBVIOUS
<1>1. /\ s \in Slots /\ c \in Classes /\ a \in Classes /\ v[s].live /\ my[t] \in Works
  <2>1. s \in Slots /\ c \in Classes /\ v[s].live /\ my[t] \in Works
    BY AtMorph
  <2>2. my[t].sc \in LayoutSet
    BY <2>1, WorkType
  <2>3. QED BY <2>1, <2>2, LayoutType
<1>2. /\ binLock[a] = None
      /\ bin' = [bin EXCEPT ![a] = Without(@, s), ![c] = <<s>> \o @]
      /\ now' = [now EXCEPT ![a] = IF @ = s THEN After(bin[a], s) ELSE @,
                            ![c] = IF last THEN s ELSE @]
  BY Zenon DEF Rebin
<1>3. s \in Members(bin[a])
  BY DEF Rebin, FailIf
<1>4. binLock[c] = t /\ a # c
  <2>1. binLock[c] = t
    BY <1>1, CtxFacts DEF Locks, ThreadOK, InFill, FillPcs
  <2>2. QED BY <1>2, <2>1, Names
<1>5. Bins
  BY CtxFacts DEF Good
<1> DEFINE k == Without(bin[a], s)
           l == <<s>> \o bin[c]
           n == IF now[a] = s THEN After(bin[a], s) ELSE now[a]
           m == IF last THEN s ELSE now[c]
<1>6. s \notin Members(bin[c])
  BY <1>1, <1>3, <1>4, <1>5 DEF Bins
<1>7. k \in Seq(Slots) /\ Distinct(k) /\ Members(k) = Members(bin[a]) \ {s}
  <2>1. bin[a] \in Seq(Slots) /\ Distinct(bin[a])
    BY <1>1, <1>5 DEF Bins
  <2>2. QED BY <2>1, WithoutIn
<1>8. l \in Seq(Slots) /\ Distinct(l) /\ Members(l) = Members(bin[c]) \union {s}
  <2>1. bin[c] \in Seq(Slots) /\ Distinct(bin[c])
    BY <1>1, <1>5 DEF Bins
  <2>2. QED BY <1>1, <1>6, <2>1, PrependIn
<1>9. n \in Members(k) \union {Root} /\ m \in Members(l) \union {Root}
  <2>1. bin[a] \in Seq(Slots) /\ Distinct(bin[a]) /\ now[a] \in Members(bin[a]) \union {Root}
        /\ now[c] \in Members(bin[c]) \union {Root}
    BY <1>1, <1>5 DEF Bins
  <2>2. s # Root
    BY <1>1, Names
  <2>3. After(bin[a], s) \in (Members(bin[a]) \ {s}) \union {Root}
    BY <1>3, <2>1, <2>2, AfterIn
  <2>4. n \in (Members(bin[a]) \ {s}) \union {Root}
    BY <2>1, <2>3
  <2>5. m \in Members(bin[c]) \union {s, Root}
    BY <2>1
  <2>6. QED BY <1>7, <1>8, <2>4, <2>5
<1>10. /\ bin' = [bin EXCEPT ![a] = k, ![c] = l] /\ now' = [now EXCEPT ![a] = n, ![c] = m]
  BY <1>1, <1>2, <1>4, <1>5 DEF Bins
<1> HIDE DEF k, l, n, m
<1>11. /\ bin' \in [Classes -> Seq(Slots)] /\ DOMAIN now' = Classes
       /\ bin'[a] = k /\ bin'[c] = l /\ now'[a] = n /\ now'[c] = m
       /\ \A d \in Classes \ {a, c} : bin'[d] = bin[d] /\ now'[d] = now[d]
  BY <1>1, <1>4, <1>5, <1>7, <1>8, <1>10 DEF Bins
<1>12. \A d \in Classes : Distinct(bin'[d]) /\ now'[d] \in Members(bin'[d]) \union {Root}
  <2>1. ASSUME NEW d \in Classes
        PROVE  Distinct(bin'[d]) /\ now'[d] \in Members(bin'[d]) \union {Root}
    <3>1. CASE d = a
      BY <1>7, <1>9, <1>11, <3>1
    <3>2. CASE d = c
      BY <1>8, <1>9, <1>11, <3>2
    <3>3. CASE d # a /\ d # c
      BY <1>5, <1>11, <3>3 DEF Bins
    <3>4. QED BY <3>1, <3>2, <3>3
  <2>2. QED BY <2>1
<1>13. \A d \in Classes : \A x : x # s => (x \in Members(bin'[d]) <=> x \in Members(bin[d]))
  <2>1. ASSUME NEW d \in Classes, NEW x, x # s
        PROVE  x \in Members(bin'[d]) <=> x \in Members(bin[d])
    <3>1. CASE d = a
      BY <1>7, <1>11, <2>1, <3>1
    <3>2. CASE d = c
      BY <1>8, <1>11, <2>1, <3>2
    <3>3. CASE d # a /\ d # c
      BY <1>11, <3>3
    <3>4. QED BY <3>1, <3>2, <3>3
  <2>2. QED BY <2>1
<1>14. \A d \in Classes : s \in Members(bin'[d]) <=> d = c
  <2>1. ASSUME NEW d \in Classes PROVE s \in Members(bin'[d]) <=> d = c
    <3>1. CASE d = a
      BY <1>4, <1>7, <1>11, <3>1
    <3>2. CASE d = c
      BY <1>8, <1>11, <3>2
    <3>3. CASE d # a /\ d # c
      BY <1>1, <1>3, <1>5, <1>11, <3>3 DEF Bins
    <3>4. QED BY <3>1, <3>2, <3>3
  <2>2. QED BY <2>1
<1>15. Bins'
  <2>1. \A d, e \in Classes : d # e => Members(bin'[d]) \cap Members(bin'[e]) = {}
    <3>1. ASSUME NEW d \in Classes, NEW e \in Classes, d # e,
                 NEW x \in Members(bin'[d]) \cap Members(bin'[e])
          PROVE  FALSE
      <4>1. CASE x = s
        BY <1>14, <3>1, <4>1
      <4>2. CASE x # s
        <5>1. x \in Members(bin[d]) /\ x \in Members(bin[e])
          BY <1>13, <3>1, <4>2
        <5>2. QED BY <1>5, <3>1, <5>1 DEF Bins
      <4>3. QED BY <4>1, <4>2
    <3>2. QED BY <3>1
  <2>2. \A d \in Classes : \A x \in Members(bin'[d]) : v'[x].live
    <3>1. ASSUME NEW d \in Classes, NEW x \in Members(bin'[d]) PROVE v'[x].live
      <4>1. CASE x = s
        BY <4>1
      <4>2. CASE x # s
        <5>1. x \in Members(bin[d]) /\ v[x].live
          BY <1>5, <1>13, <3>1, <4>2 DEF Bins
        <5>2. x \in Slots
          BY <3>1, <5>1, CtxFacts DEF Members
        <5>3. QED BY <4>2, <5>1, <5>2
      <4>3. QED BY <4>1, <4>2
    <3>2. QED BY <3>1
  <2>3. ASSUME NEW u \in Threads \ {t}
        PROVE  /\ AtBin(u) => my[u].cur \in Members(bin'[my[u].cls])
               /\ pc[u] = "insert" => /\ v'[my[u].cur].live
                                      /\ \A d \in Classes : my[u].cur \notin Members(bin'[d])
    <3>1. BinOK(u) /\ my[u].cls \in Classes
      BY CtxFacts, WorkType
    <3>2. AtBin(u) => my[u].cur \in Members(bin'[my[u].cls])
      <4>1. ASSUME AtBin(u) PROVE my[u].cls # a /\ my[u].cls # c
        BY <1>1, <1>2, <1>4, <4>1, BinOfOne, CtxFacts
      <4>2. QED BY <1>11, <3>1, <4>1 DEF BinOK
    <3>3. ASSUME pc[u] = "insert"
          PROVE  v'[my[u].cur].live /\ \A d \in Classes : my[u].cur \notin Members(bin'[d])
      <4>1. my[u].cur \in Slots /\ v[my[u].cur].live
            /\ \A d \in Classes : my[u].cur \notin Members(bin[d])
        BY <3>1, <3>3, CtxFacts DEF BinOK, OnSlab
      <4>2. my[u].cur # s
        BY <1>1, <1>3, <4>1
      <4>3. QED BY <1>13, <4>1, <4>2
    <3>4. QED BY <3>2, <3>3
  <2>4. BinOK(t)'
    BY <1>1, <1>14 DEF BinOK
  <2>5. QED BY <1>5, <1>11, <1>12, <2>1, <2>2, <2>3, <2>4, BinsFrame, CtxFacts
<1>16. Unbinned'
  <2>1. ASSUME NEW x \in Slots
        PROVE  ~NoBin(x)' \/ (v'[x] = v[x] /\ (NoBin(x)' => NoBin(x)))
    <3>1. CASE x = s
      BY <1>1, <1>14, <3>1 DEF NoBin
    <3>2. CASE x # s
      BY <1>13, <3>2 DEF NoBin
    <3>3. QED BY <3>1, <3>2
  <2>2. QED BY <2>1, UnbinnedFrame, CtxFacts DEF Good
<1>17. QED BY <1>15, <1>16
LEMMA ReuseGood ==
  ASSUME Ctx, NEW t \in Threads, Reuse(t), failed' = "no"
  PROVE  Good'
<1> PICK s : s = my[t].cur
  OBVIOUS
<1> PICK c : c = my[t].cls
  OBVIOUS
<1> DEFINE w == [NoWork EXCEPT !.cls = c, !.cur = s]
           q == NewSlab(c)
<1>1. /\ pc[t] = "unbin" /\ my[t].old = {} /\ Rebin(t, TRUE)
      /\ v' = [v EXCEPT ![s] = q] /\ Be(t, "visit", w)
      /\ UNCHANGED <<lruVars, cacheVars, moveVars, binLock, remVars>>
  BY Zenon DEF Reuse
<1>2. /\ lru' = lru /\ lruLen' = lruLen /\ morphLen' = morphLen
      /\ cache' = cache /\ turn' = turn /\ held' = held /\ lost' = lost /\ numaList' = numaList
  BY <1>1 DEF lruVars, cacheVars, remVars
<1>3. /\ s \in Slots /\ my[t] \in Works /\ my[t].blk = NoBlock /\ v[s].live /\ v[s] \in Vslabs
      /\ slabLock[s] = t /\ c \in Classes
      /\ \A u \in Threads \ {t} : pc[u] \in InMorph => slabLock[my[u].cur] = u
  BY <1>1, AtMorph
<1>4. v[s].used = {} /\ v[s].rdirty = FALSE /\ s \in Members(lru)
  BY <1>1, CtxFacts DEF MorphOK, Walks
<1>5. Exact(s, v[s], Of(s))
  <2>1. \A u \in Threads : Morphs(u) => my[u].cur # s
    <3>1. ~Morphs(t)
      BY <1>1 DEF Morphs
    <3>2. \A u \in Threads \ {t} : Morphs(u) => pc[u] \in InMorph
      BY DEF Morphs, InMorph
    <3>3. \A u \in Threads \ {t} : pc[u] \in InMorph => my[u].cur # s
      BY <1>3
    <3>4. QED BY <3>1, <3>2, <3>3
  <2>2. QED BY <1>3, <2>1, CtxFacts DEF Good, Slabwise
<1>6. Of(s) = {}
  BY <1>4, <1>5, ExactFacts
<1>7. v[s].rb = {}
  BY <1>3, <1>4, CtxFacts DEF Good, Remote, Dirty
<1>8. /\ q \in Vslabs /\ q.live /\ q.numb = 0 /\ q.used = {} /\ q.nbits = 0
      /\ q.dnum = [i \in Indices |-> 0] /\ q.rb = {} /\ ~q.rdirty /\ q.sc.cls = c
  BY <1>3, PlainType, NewSlabIs
<1>9. q.rdirty = FALSE
  BY <1>8, SlabType
<1>10. w \in Works /\ w.blk = NoBlock /\ w.cur = s /\ w.cls = c
  BY <1>3, PlainType DEF Works, NoWork
<1> HIDE DEF w, q
<1>11. Steps(t) /\ pc'[t] = "visit" /\ my' \in [Threads -> Works] /\ my'[t] = w
  BY <1>1, <1>10, CtxFacts, WorkSet, PcSet, BeSteps DEF Be, Ctx
<1>12. v' \in [Slots -> Vslabs] /\ v'[s] = q /\ \A x \in Slots : x # s => v'[x] = v[x]
  <2>1. v \in [Slots -> Vslabs]
    BY CtxFacts DEF Types
  <2>2. QED BY <1>1, <1>3, <1>8, <2>1
<1>13. Others(t)
  BY <1>11 DEF Others, Steps
<1>14. Reshapes(t, s)
  BY <1>1, <1>2, <1>3, <1>4, <1>7, <1>8, <1>9, <1>10, <1>11, <1>12, CtxFacts DEF Reshapes
<1>15. Reshaped(t, s)
  <2>1. OldOf(v[s], Of(s)) = {}
    BY <1>6 DEF OldOf
  <2>2. Exact(s, q, {})
    BY <1>8, ExactEmpty
  <2>3. ~Morphs(t)'
    BY <1>11 DEF Morphs
  <2>4. Exact(s, v'[s], Of(s))
    BY <1>6, <1>12, <2>2
  <2>5. QED BY <1>11, <2>1, <2>3, <2>4 DEF Reshaped
<1>16. LruKept(t, s)
  BY <1>2, <1>4, <1>8, <1>11, <1>12, CtxFacts DEF LruKept, Good, Aged
<1>17. Bins' /\ Unbinned'
  <2>1. v'[s].live /\ pc'[t] = "visit" /\ my'[t].cur = s /\ my'[t].cls = my[t].cls
    BY <1>8, <1>10, <1>11, <1>12
  <2>2. pc[t] = "unbin" /\ Rebin(t, TRUE)
    BY <1>1
  <2>3. QED BY <1>12, <1>13, <2>1, <2>2, RebinBins
<1>18. QED BY <1>14, <1>15, <1>16, <1>17, MorphStep

LEMMA UnbinGood ==
  ASSUME Ctx, NEW t \in Threads, Unbin(t), failed' = "no"
  PROVE  Good'
<1> PICK s : s = my[t].cur
  OBVIOUS
<1> DEFINE q == [v[s] EXCEPT !.used = {}]
<1>1. /\ pc[t] = "unbin" /\ my[t].old # {} /\ Rebin(t, FALSE)
      /\ lru' = Without(lru, s) /\ lruLen' = lruLen - 1 /\ morphLen' = morphLen - 1
      /\ Go(t, "table") /\ v' = [v EXCEPT ![s].used = {}]
      /\ UNCHANGED <<cacheVars, moveVars, binLock, slabLock, lruLock, remVars, my>>
  BY Zenon DEF Unbin
<1>2. /\ cache' = cache /\ turn' = turn /\ held' = held /\ lost' = lost /\ numaList' = numaList
      /\ my' = my /\ lruLen' \in Int /\ morphLen' \in Int
  BY <1>1, CtxFacts DEF cacheVars, remVars
<1>3. /\ s \in Slots /\ my[t] \in Works /\ my[t].blk = NoBlock /\ v[s].live /\ v[s] \in Vslabs
      /\ slabLock[s] = t
  BY <1>1, AtMorph
<1>4. /\ Moving(s, v[s], Of(s), my[t].old) /\ my[t].sc = v[s].scb /\ my[t].cls = v[s].sc.cls
      /\ s \in Members(lru)
  BY <1>1, CtxFacts DEF MorphOK, Morphs, Walks
<1>5. /\ q \in Vslabs /\ q.sc = v[s].sc /\ q.scb = v[s].scb /\ q.live = v[s].live
      /\ q.numb = v[s].numb /\ q.nbits = v[s].nbits /\ q.dnum = v[s].dnum
      /\ q.rb = v[s].rb /\ q.rdirty = v[s].rdirty
  BY <1>3 DEF Vslabs
<1>6. v' = [v EXCEPT ![s] = q]
  BY <1>1
<1> HIDE DEF q
<1>7. v' \in [Slots -> Vslabs] /\ v'[s] = q /\ \A x \in Slots : x # s => v'[x] = v[x]
  <2>1. v \in [Slots -> Vslabs]
    BY CtxFacts DEF Types
  <2>2. QED BY <1>3, <1>5, <1>6, <2>1
<1>8. v[s].rb = {} /\ v[s].rdirty = FALSE
  BY <1>4 DEF Moving
<1>9. Moving(s, q, Of(s), my[t].old)
  <2> PICK o : o = my[t].old
    OBVIOUS
  <2>1. Moving(s, v[s], Of(s), o)
    BY <1>4
  <2>2. Moving(s, q, Of(s), o)
    BY SMTT(30), <1>5, <2>1 DEF Moving
  <2>3. QED BY <2>2
<1>10. Steps(t) /\ pc'[t] = "table" /\ my' \in [Threads -> Works] /\ my'[t] = my[t]
  BY <1>1, <1>2, CtxFacts, PcSet, BeSteps DEF Go, Ctx, Types
<1>11. Others(t)
  BY <1>10 DEF Others, Steps
<1>12. Reshapes(t, s)
  BY <1>1, <1>2, <1>3, <1>5, <1>7, <1>8, <1>10, CtxFacts DEF Reshapes
<1>13. Reshaped(t, s)
  BY <1>4, <1>5, <1>7, <1>9, <1>10 DEF Reshaped, Morphs
<1>14. LruKept(t, s)
  <2>1. lru \in Seq(Slots) /\ Distinct(lru)
    BY CtxFacts DEF Good, Aged
  <2>2. lru' \in Seq(Slots) /\ Distinct(lru') /\ Members(lru') = Members(lru) \ {s}
    BY <1>1, <2>1, WithoutIn
  <2>3. QED BY <1>4, <1>10, <2>2 DEF LruKept
<1>15. Bins' /\ Unbinned'
  <2>1. v'[s].live
    BY <1>3, <1>5, <1>7
  <2>2. QED BY <1>1, <1>7, <1>10, <1>11, <2>1, RebinBins
<1>16. QED BY <1>12, <1>13, <1>14, <1>15, MorphStep
LEMMA CreateGood ==
  ASSUME Ctx, NEW t \in Threads, Create(t)
  PROVE  Good'
<1> PICK s : s = Min({x \in Slots : ~v[x].live})
  OBVIOUS
<1> PICK c : c = my[t].cls
  OBVIOUS
<1> DEFINE w == [my[t] EXCEPT !.cur = s]
           q == NewSlab(c)
<1>1. /\ pc[t] = "create" /\ {x \in Slots : ~v[x].live} # {}
      /\ v' = [v EXCEPT ![s] = q] /\ Be(t, "insert", w)
      /\ lru' = Append(lru, s) /\ lruLen' = lruLen + 1 /\ morphLen' = morphLen + 1
      /\ UNCHANGED <<listVars, cacheVars, moveVars, binLock, slabLock, lruLock, remVars>>
  BY Zenon DEF Create
<1>2. /\ cache' = cache /\ turn' = turn /\ held' = held /\ lost' = lost /\ numaList' = numaList
      /\ bin' = bin /\ now' = now /\ lruLen' \in Int /\ morphLen' \in Int
  BY <1>1, CtxFacts DEF cacheVars, remVars, listVars
<1>3. s \in Slots /\ ~v[s].live
  <2>1. {x \in Slots : ~v[x].live} \in SUBSET Nat
    BY SlabsAssumption DEF Slots
  <2>2. QED BY <1>1, <2>1, MinIn
<1>4. my[t] \in Works /\ my[t].blk = NoBlock /\ c \in Classes
  BY <1>1, CtxFacts, WorkType DEF HandOK, InHand
<1>5. v[s] = NoSlab
  BY <1>3, CtxFacts DEF Good, Alive
<1>6. v[s].rb = {} /\ v[s].rdirty = FALSE
  <2>1. NoSlab.rb = {} /\ NoSlab.rdirty = FALSE
    BY NewSlabIs, PlainType, SlabType
  <2>2. QED BY <1>5, <2>1
<1>7. Of(s) = {}
  BY <1>3, BlockLive, CtxFacts DEF Of
<1>8. /\ \A u \in Threads : pc[u] \in OnSlab => my[u].cur # s
      /\ s \notin Members(lru) /\ \A d \in Classes : s \notin Members(bin[d])
  <2>1. \A u \in Threads : pc[u] \in OnSlab => my[u].cur # s
    BY <1>3, CtxFacts DEF OnLive
  <2>2. s \notin Members(lru)
    BY <1>3, CtxFacts DEF Good, Aged, Listed
  <2>3. \A d \in Classes : s \notin Members(bin[d])
    BY <1>3, CtxFacts DEF Good, Bins
  <2>4. QED BY <2>1, <2>2, <2>3
<1>9. /\ q \in Vslabs /\ q.live /\ q.numb = 0 /\ q.used = {} /\ q.nbits = 0
      /\ q.dnum = [i \in Indices |-> 0] /\ q.rb = {} /\ ~q.rdirty
  BY <1>4, PlainType, NewSlabIs
<1>10. q.rdirty = FALSE
  BY <1>9, SlabType
<1>11. w \in Works /\ w.blk = NoBlock /\ w.cur = s
  BY <1>3, <1>4 DEF Works
<1> HIDE DEF w, q
<1>12. Steps(t) /\ pc'[t] = "insert" /\ my' \in [Threads -> Works] /\ my'[t] = w
  BY <1>1, <1>11, CtxFacts, WorkSet, PcSet, BeSteps DEF Be, Ctx
<1>13. v' \in [Slots -> Vslabs] /\ v'[s] = q /\ \A x \in Slots : x # s => v'[x] = v[x]
  <2>1. v \in [Slots -> Vslabs]
    BY CtxFacts DEF Types
  <2>2. QED BY <1>1, <1>3, <1>9, <2>1
<1>14. Others(t) /\ Unmoved
  BY <1>1, <1>12, StepsUnmoved DEF Others, Steps, InMorph
<1>15. \A x \in Slots : v'[x] = v[x] \/ v'[x].live
  BY <1>9, <1>13
<1>16. Once' /\ \A x : Of(x)' = Of(x)
  <2>1. ASSUME NEW x \in Slots PROVE Returned(x)' = Returned(x)
    <3>1. CASE x = s
      <4>1. Returned(x) = {} /\ Returned(x)' = {}
        BY <1>6, <1>9, <1>13, <3>1 DEF Returned
      <4>2. QED BY <4>1
    <3>2. CASE x # s
      BY <1>13, <3>2 DEF Returned
    <3>3. QED BY <3>1, <3>2
  <2>2. \A u \in Threads : my'[u].blk = my[u].blk
    BY <1>4, <1>11, <1>12, <1>14 DEF Others
  <2>3. QED BY <1>2, <2>1, <2>2, StillStep, CtxFacts DEF Good
<1>17. lru' \in Seq(Slots) /\ Members(lru') = Members(lru) \union {s} /\ Distinct(lru')
  BY <1>1, <1>3, <1>8, AppendIn, DistinctAppend, CtxFacts DEF Good, Aged
<1>18. Types'
  BY <1>2, <1>12, <1>13, <1>17, CtxFacts DEF Types
<1>19. Hands'
  <2>1. HandOK(t)'
    BY <1>11, <1>12 DEF HandOK, InHand
  <2>2. QED BY <1>14, <2>1, HandsStep, CtxFacts DEF Good
<1>20. Slabwise' /\ Morphing'
  <2>1. ASSUME NEW x \in Slots
        PROVE  \/ v'[x] = v[x] /\ Of(x)' = Of(x)
               \/ /\ \A u \in Threads : pc[u] \in InMorph => my[u].cur # x
                  /\ Exact(x, v'[x], Of(x)')
    <3>1. CASE x = s
      <4>1. Exact(x, q, {})
        BY <1>9, ExactEmpty
      <4>2. Of(x) = {} /\ v'[x] = q
        BY <1>7, <1>13, <3>1
      <4>3. Of(x)' = {}
        BY <1>16, <4>2
      <4>4. Exact(x, v'[x], Of(x)')
        BY <4>1, <4>2, <4>3
      <4>5. QED BY <1>8, <3>1, <4>4 DEF InMorph, OnSlab
    <3>2. CASE x # s
      BY <1>13, <1>16, <3>2
    <3>3. QED BY <3>1, <3>2
  <2>2. QED BY <1>14, <2>1, SlabwiseStep, CtxFacts DEF Good
<1>21. Alive'
  <2>1. OnLive(t)'
    BY <1>9, <1>11, <1>12, <1>13 DEF OnLive
  <2>2. QED BY <1>14, <1>15, <2>1, AliveStep, CtxFacts DEF Good
<1>22. Aged'
  <2>1. \A x \in Members(lru') : Listed(x)'
    <3>1. ASSUME NEW x \in Members(lru') PROVE Listed(x)'
      <4>1. CASE x = s
        BY <1>9, <1>13, <4>1 DEF Listed
      <4>2. CASE x # s
        <5>1. x \in Slots /\ Listed(x)
          <6>1. x \in Members(lru)
            BY <1>17, <3>1, <4>2
          <6>2. QED BY <6>1, CtxFacts DEF Good, Aged, Members
        <5>2. (\E u \in Threads : pc[u] = "unbin" /\ my[u].cur = x)
                => \E u \in Threads : pc'[u] = "unbin" /\ my'[u].cur = x
          BY <1>1, <1>14 DEF Others
        <5>3. QED BY <1>13, <4>2, <5>1, <5>2 DEF Listed
      <4>3. QED BY <4>1, <4>2
    <3>2. QED BY <3>1
  <2>2. ASSUME NEW u \in Threads \ {t}
        PROVE  /\ pc[u] \in {"walk", "seize", "unbin"} /\ my[u].cur \in Members(lru)
                    => my[u].cur \in Members(lru')
               /\ pc[u] = "seize" => v'[my[u].cur].sc.cls = v[my[u].cur].sc.cls
               /\ Leaving(u) => my[u].cur \notin Members(lru') /\ v'[my[u].cur].numb = 0
    <3>1. pc[u] \in OnSlab => my[u].cur \in Slots /\ my[u].cur # s
      BY <1>8, CtxFacts
    <3>2. pc[u] = "seize" => v'[my[u].cur].sc.cls = v[my[u].cur].sc.cls
      BY <1>13, <3>1 DEF OnSlab
    <3>3. Leaving(u) => my[u].cur \notin Members(lru') /\ v'[my[u].cur].numb = 0
      BY <1>13, <1>17, <3>1, CtxFacts DEF OnSlab, Leaving, Walks
    <3>4. QED BY <1>17, <3>2, <3>3
  <2>3. ~Leaving(t)' /\ Walks(t)' /\ Alone(t)'
    BY <1>12 DEF Leaving, Walks, Alone
  <2>4. QED BY <1>14, <1>17, <2>1, <2>2, <2>3, AgedFrame, CtxFacts DEF Good
<1>23. Remote'
  <2>1. ASSUME NEW x \in Slots
        PROVE  \/ v'[x] = v[x]
               \/ v'[x].rb = v[x].rb /\ v'[x].rdirty = v[x].rdirty /\ v'[x].live
    BY <1>6, <1>9, <1>10, <1>13
  <2>2. QED BY <1>1, <1>2, <1>14, <2>1, RemoteStep, CtxFacts DEF Good
<1>24. Filling'
  <2>1. FillOK(t)'
    BY <1>12 DEF FillOK, Ready
  <2>2. QED BY <1>2, <1>14, <2>1, FillStep, CtxFacts DEF Good
<1>25. Bins'
  <2>1. BinOK(t)'
    <3>1. my'[t].cur = s /\ v'[s].live
      BY <1>9, <1>11, <1>12, <1>13
    <3>2. \A u \in Threads \ {t} : pc'[u] = "insert" => my'[u].cur # s
      BY <1>8, <1>14 DEF Others, OnSlab
    <3>3. \A d \in Classes : s \notin Members(bin'[d])
      BY <1>2, <1>8
    <3>4. QED BY <1>12, <3>1, <3>2, <3>3 DEF BinOK, AtBin
  <2>2. DOMAIN now' = Classes /\ \A d \in Classes : now'[d] = now[d] \/ now'[d] \in Members(bin[d]) \union {Root}
    BY <1>2, CtxFacts
  <2>3. QED BY <1>2, <1>14, <1>15, <2>1, <2>2, BinsStep, CtxFacts DEF Good
<1>26. Unbinned'
  <2>1. \A x \in Slots : v'[x] = v[x] \/ v'[x].nbits = 0
    BY <1>9, <1>13
  <2>2. QED BY <1>1, <1>2, <1>14, <2>1, UnbinnedStep, CtxFacts DEF Good
<1>27. QED BY <1>16, <1>18, <1>19, <1>20, <1>21, <1>22, <1>23, <1>24, <1>25, <1>26 DEF Good
-----------------------------------------------------------------------------
(* The invariant *)

LEMMA NextGood ==
  ASSUME Ctx, Next, failed' = "no", ~stale'
  PROVE  Good'
<1>1. ASSUME NEW t \in Threads, Call(t)
      PROVE  Good'
  BY <1>1, MallocHitGood, MallocMissGood, FreeGood, FarFreeGood, MigrateGood DEF Call
<1>2. ASSUME NEW t \in Threads, Fill(t), ~Outdated(t)
      PROVE  Good'
  BY <1>2, PopNoneGood, PopGood, SetLenGood, TouchGood, PopFullGood, TakeGood, GetGood,
     SearchGood, WalkEndGood, WalkOnGood, CreateGood, InsertGood, SeizeGood, ReuseGood,
     UnbinGood, TableGood, MetasGood DEF Fill
<1>3. ASSUME NEW t \in Threads, Return(t), ~Outdated(t)
      PROVE  Good'
  BY <1>3, UnsetGood, FreeNewGood, FreedGood, FreeOldGood, RelistGood, UnlinkGood, CheckGood,
     DropGood, FarMarkGood, EnlistGood, PutBackGood, SettleGood DEF Return
<1>4. CASE FlusherStep
  BY <1>4, WakeGood, FlushGood DEF FlusherStep
<1>5. QED BY <1>1, <1>2, <1>3, <1>4 DEF Next, Inside

(* The lists of Slabs_proofs hold what they should.                         *)
LEMMA GoodBase ==
  ASSUME Good, Locks, numaList \in Seq(Slots)
  PROVE  Base
<1>1. Types /\ Bins
  BY DEF Good
<1>2. Layouts
  <2>1. DOMAIN v = Slots
    BY <1>1 DEF Types
  <2>2. ASSUME NEW s \in Slots PROVE DOMAIN v[s] = SlabFields /\ v[s].sc.cls \in Classes
    <3>1. v[s] \in Vslabs
      BY <1>1, GoodTypes
    <3>2. DOMAIN v[s] = SlabFields /\ v[s].sc \in LayoutSet
      BY <3>1, SlabType
    <3>3. QED BY <3>2, LayoutType
  <2>3. QED BY <2>1, <2>2 DEF Layouts
<1>3. Stacked
  <2>1. /\ DOMAIN cache = Threads
        /\ \A t \in Threads : /\ DOMAIN cache[t] = Classes
                              /\ \A c \in Classes : DOMAIN cache[t][c] = Banks
    BY <1>1 DEF Types
  <2>2. ASSUME NEW t \in Threads, NEW c \in Classes, NEW b \in Banks
        PROVE  Stack(cache[t][c][b])
    <3> PICK l : l = cache[t][c][b]
      OBVIOUS
    <3>1. l \in Seq(Entries)
      BY <1>1, GoodTypes
    <3>2. l \in Seq(Members(l))
      BY <3>1 DEF Members
    <3>3. \A e \in Members(l) : e.blk.slab \in Slots
      <4>1. \A e \in Members(l) : e \in Entries
        BY <3>1 DEF Members
      <4>2. QED BY <4>1 DEF Entries, Blks
    <3>4. QED BY <3>2, <3>3 DEF Stack
  <2>3. QED BY <2>1, <2>2 DEF Stacked
<1>4. Lists
  <2>1. lru \in Seq(Slots) /\ \A b \in held : b.slab \in Slots
    BY <1>1 DEF Types, Blks
  <2>2. \A t \in Threads : /\ pc[t] = "walk" => my[t].cur \in Members(lru) \union {Root}
                           /\ pc[t] = "seize" => my[t].cur \in Members(lru)
    BY DEF Good, Aged, Walks
  <2>3. QED BY <2>1, <2>2 DEF Lists
<1>5. QED BY <1>1, <1>2, <1>3, <1>4 DEF Base

(* What moves neither a thread nor a slab on numa_list.                     *)
Abides == home' = home /\ logged' = logged /\ numaList' = numaList

LEMMA AbidesUnless ==
  ASSUME NEW t \in Threads, Call(t) \/ Inside(t)
  PROVE  Abides \/ (\E b \in held : FarFree(t, b)) \/ Pop(t) \/ Enlist(t) \/ Settle(t)
<1>1. ASSUME NEW c \in Classes, MallocHit(t, c) PROVE Abides
  <2>1. UNCHANGED <<v, listVars, lruVars, moveVars, binLock, slabLock, lruLock, remVars, pc, my>>
    BY Zenon, <1>1 DEF MallocHit
  <2>2. QED BY <2>1 DEF Abides, moveVars, remVars
<1>2. ASSUME NEW c \in Classes, MallocMiss(t, c) PROVE Abides
  <2>1. UNCHANGED <<memVars, bin, lruVars, cacheVars, moveVars, slabLock, lruLock, remVars>>
    BY Zenon, <1>2 DEF MallocMiss
  <2>2. QED BY <2>1 DEF Abides, moveVars, remVars
<1>3. ASSUME Unset(t) PROVE Abides
  <2>1. UNCHANGED <<v, listVars, lruVars, turn, held, lost, moveVars, binLock, slabLock, lruLock,
                     remVars>>
    BY Zenon, <1>3 DEF Unset
  <2>2. QED BY <2>1 DEF Abides, moveVars, remVars
<1>4. ASSUME NEW b \in held, Free(t, b) PROVE Abides
  <2>1. UNCHANGED <<memVars, listVars, lruVars, cache, turn, lost, moveVars, binLock, slabLock,
                     lruLock, remVars>>
    BY Zenon, <1>4 DEF Free
  <2>2. QED BY <2>1 DEF Abides, moveVars, remVars
<1>5. ASSUME Migrate(t) PROVE Abides
  <2>1. UNCHANGED <<memVars, listVars, lruVars, cacheVars, home, binLock, slabLock, lruLock,
                     remVars>>
    BY Zenon, <1>5 DEF Migrate
  <2>2. QED BY <2>1 DEF Abides, moveVars, remVars
<1>6. ASSUME PopNone(t) PROVE Abides
  <2>1. UNCHANGED <<memVars, listVars, lruVars, cacheVars, moveVars, binLock, lruLock, remVars>>
    BY Zenon, <1>6 DEF PopNone
  <2>2. QED BY <2>1 DEF Abides, moveVars, remVars
<1>7. ASSUME SetLen(t) PROVE Abides
  <2>1. UNCHANGED <<memVars, listVars, lru, lruLen, cacheVars, moveVars, binLock, slabLock,
                     lruLock, remVars>>
    BY Zenon, <1>7 DEF SetLen
  <2>2. QED BY <2>1 DEF Abides, moveVars, remVars
<1>8. ASSUME Touch(t) PROVE Abides
  <2>1. UNCHANGED <<memVars, listVars, lruLen, morphLen, cacheVars, moveVars, binLock, slabLock,
                     lruLock, remVars, my>>
    BY Zenon, <1>8 DEF Touch
  <2>2. QED BY <2>1 DEF Abides, moveVars, remVars
<1>9. ASSUME PopFull(t) PROVE Abides
  <2>1. UNCHANGED <<memVars, bin, lruVars, cacheVars, moveVars, lruLock, remVars>>
    BY Zenon, <1>9 DEF PopFull
  <2>2. QED BY <2>1 DEF Abides, moveVars, remVars
<1>10. ASSUME Take(t) PROVE Abides
  <2>1. UNCHANGED <<v, listVars, lruVars, moveVars, binLock, slabLock, lruLock, remVars>>
    BY Zenon, <1>10 DEF Take
  <2>2. QED BY <2>1 DEF Abides, moveVars, remVars
<1>11. ASSUME Get(t) PROVE Abides
  <2>1. UNCHANGED <<memVars, listVars, lruVars, cacheVars, moveVars, binLock, slabLock, lruLock,
                     remVars, my>>
    BY Zenon, <1>11 DEF Get
  <2>2. QED BY <2>1 DEF Abides, moveVars, remVars
<1>12. ASSUME Search(t) PROVE Abides
  <2>1. UNCHANGED <<memVars, listVars, lruVars, cacheVars, moveVars, binLock, slabLock, remVars>>
    BY Zenon, <1>12 DEF Search
  <2>2. QED BY <2>1 DEF Abides, moveVars, remVars
<1>13. ASSUME WalkEnd(t) PROVE Abides
  <2>1. UNCHANGED <<memVars, listVars, lruVars, cacheVars, moveVars, binLock, slabLock, remVars>>
    BY Zenon, <1>13 DEF WalkEnd
  <2>2. QED BY <2>1 DEF Abides, moveVars, remVars
<1>14. ASSUME WalkOn(t) PROVE Abides
  <2>1. UNCHANGED <<memVars, listVars, lruVars, cacheVars, moveVars, binLock, slabLock, lruLock,
                     remVars>>
    BY Zenon, <1>14 DEF WalkOn
  <2>2. QED BY <2>1 DEF Abides, moveVars, remVars
<1>15. ASSUME Create(t) PROVE Abides
  <2>1. UNCHANGED <<listVars, cacheVars, moveVars, binLock, slabLock, lruLock, remVars>>
    BY Zenon, <1>15 DEF Create
  <2>2. QED BY <2>1 DEF Abides, moveVars, remVars
<1>16. ASSUME Insert(t) PROVE Abides
  <2>1. UNCHANGED <<memVars, lruVars, cacheVars, moveVars, binLock, slabLock, lruLock, remVars,
                     my>>
    BY Zenon, <1>16 DEF Insert
  <2>2. QED BY <2>1 DEF Abides, moveVars, remVars
<1>17. ASSUME Seize(t) PROVE Abides
  <2>1. UNCHANGED <<listVars, lruVars, cacheVars, moveVars, binLock, lruLock, remVars>>
    BY Zenon, <1>17 DEF Seize
  <2>2. QED BY <2>1 DEF Abides, moveVars, remVars
<1>18. ASSUME Reuse(t) PROVE Abides
  <2>1. UNCHANGED <<lruVars, cacheVars, moveVars, binLock, remVars>>
    BY Zenon, <1>18 DEF Reuse
  <2>2. QED BY <2>1 DEF Abides, moveVars, remVars
<1>19. ASSUME Unbin(t) PROVE Abides
  <2>1. UNCHANGED <<cacheVars, moveVars, binLock, slabLock, lruLock, remVars, my>>
    BY Zenon, <1>19 DEF Unbin
  <2>2. QED BY <2>1 DEF Abides, moveVars, remVars
<1>20. ASSUME Table(t) PROVE Abides
  <2>1. UNCHANGED <<listVars, lruVars, cacheVars, moveVars, binLock, slabLock, lruLock, remVars,
                     my>>
    BY Zenon, <1>20 DEF Table
  <2>2. QED BY <2>1 DEF Abides, moveVars, remVars
<1>21. ASSUME Metas(t) PROVE Abides
  <2>1. UNCHANGED <<bin, lruVars, cacheVars, moveVars, binLock, remVars>>
    BY Zenon, <1>21 DEF Metas
  <2>2. QED BY <2>1 DEF Abides, moveVars, remVars
<1>22. ASSUME FreeNew(t) PROVE Abides
  <2>1. UNCHANGED <<pm, listVars, lruVars, cacheVars, moveVars, binLock, lruLock, remVars>>
    BY Zenon, <1>22 DEF FreeNew
  <2>2. QED BY <2>1 DEF Abides, moveVars, remVars
<1>23. ASSUME Freed(t) PROVE Abides
  <2>1. UNCHANGED <<memVars, listVars, lruVars, cacheVars, moveVars, binLock, lruLock, remVars>>
    BY Zenon, <1>23 DEF Freed
  <2>2. QED BY <2>1 DEF Abides, moveVars, remVars
<1>24. ASSUME FreeOld(t) PROVE Abides
  <2>1. UNCHANGED <<listVars, lruVars, cacheVars, moveVars, binLock, slabLock, lruLock, remVars>>
    BY Zenon, <1>24 DEF FreeOld
  <2>2. QED BY <2>1 DEF Abides, moveVars, remVars
<1>25. ASSUME Relist(t) PROVE Abides
  <2>1. UNCHANGED <<memVars, listVars, cacheVars, moveVars, binLock, slabLock, lruLock, remVars>>
    BY Zenon, <1>25 DEF Relist
  <2>2. QED BY <2>1 DEF Abides, moveVars, remVars
<1>26. ASSUME Unlink(t) PROVE Abides
  <2>1. UNCHANGED <<memVars, lruVars, cacheVars, moveVars, binLock, slabLock, lruLock, remVars,
                     my>>
    BY Zenon, <1>26 DEF Unlink
  <2>2. QED BY <2>1 DEF Abides, moveVars, remVars
<1>27. ASSUME Check(t) PROVE Abides
  <2>1. UNCHANGED <<listVars, lruVars, cacheVars, moveVars, binLock, slabLock, lruLock, remVars>>
    BY Zenon, <1>27 DEF Check
  <2>2. QED BY <2>1 DEF Abides, moveVars, remVars
<1>28. ASSUME Drop(t) PROVE Abides
  <2>1. UNCHANGED <<listVars, cacheVars, moveVars, binLock, slabLock, lruLock, remVars>>
    BY Zenon, <1>28 DEF Drop
  <2>2. QED BY <2>1 DEF Abides, moveVars, remVars
<1>29. ASSUME FarMark(t) PROVE Abides
  <2>1. UNCHANGED <<pm, listVars, lruVars, cacheVars, moveVars, binLock, slabLock, lruLock,
                     remVars>>
    BY Zenon, <1>29 DEF FarMark
  <2>2. QED BY <2>1 DEF Abides, moveVars, remVars
<1>30. ASSUME PutBack(t) PROVE Abides
  <2>1. UNCHANGED <<memVars, listVars, lruVars, turn, held, lost, moveVars, binLock, slabLock, lruLock,
                     remVars>>
    BY Zenon, <1>30 DEF PutBack
  <2>2. QED BY <2>1 DEF Abides, moveVars, remVars
<1>31. QED
  BY <1>1, <1>2, <1>3, <1>4, <1>5, <1>6, <1>7, <1>8, <1>9, <1>10, <1>11, <1>12, <1>13, <1>14,
     <1>15, <1>16, <1>17, <1>18, <1>19, <1>20, <1>21, <1>22, <1>23, <1>24, <1>25, <1>26, <1>27,
     <1>28, <1>29, <1>30
  DEF Call, Inside, Fill, Return


LEMMA NextOuter ==
  ASSUME Ctx, Outer, Next
  PROVE  Outer' /\ numaList' \in Seq(Slots)
<1>1. LogMax \in Nat \ {0} /\ home \in [Threads -> Homes] /\ logged \in [Threads -> 0 .. LogMax]
      /\ numaList \in Seq(Slots)
  BY SlabsAssumption, CtxFacts DEF Outer
<1>2. CASE Abides
  BY <1>1, <1>2 DEF Abides, Outer
<1>3. ASSUME NEW t \in Threads, NEW b \in held, FarFree(t, b)
      PROVE  Outer' /\ numaList' \in Seq(Slots)
  <2>1. /\ logged' = [logged EXCEPT ![t] = IF logged[t] = LogMax THEN 1 ELSE @ + 1]
        /\ UNCHANGED <<memVars, listVars, lruVars, cache, turn, lost, moveVars, binLock, slabLock,
                       lruLock, numaLock, numaList>>
    BY Zenon, <1>3 DEF FarFree
  <2>2. home' = home /\ numaList' = numaList
    BY <2>1 DEF moveVars
  <2>3. QED BY <1>1, <2>1, <2>2 DEF Outer
<1>4. ASSUME NEW t \in Threads, Pop(t)
      PROVE  Outer' /\ numaList' \in Seq(Slots)
  <2>1. UNCHANGED <<listVars, lruVars, turn, held, lost, moveVars, binLock, lruLock,
                    numaLock, sem, logged>>
    BY Zenon, <1>4 DEF Pop
  <2>2. numaList' = Without(numaList, my[t].cur) \/ numaList' = numaList
    BY Zenon, <1>4 DEF Pop
  <2>3. home' = home /\ logged' = logged
    BY <2>1 DEF moveVars
  <2>4. Without(numaList, my[t].cur) \in Seq(Slots)
    BY <1>1, WithoutIn
  <2>5. QED BY <1>1, <2>2, <2>3, <2>4 DEF Outer
<1>5. ASSUME NEW t \in Threads, Enlist(t)
      PROVE  Outer' /\ numaList' \in Seq(Slots)
  <2>1. home' = home /\ logged' = logged /\ pc[t] = "enlist"
        /\ (numaList' = numaList \/ numaList' = Append(numaList, my[t].cur))
    BY <1>5 DEF Enlist, moveVars
  <2>2. my[t].cur \in Slots
    BY <2>1, CtxFacts DEF OnSlab
  <2>3. QED BY <1>1, <2>1, <2>2 DEF Outer
<1>6. ASSUME NEW t \in Threads, Settle(t)
      PROVE  Outer' /\ numaList' \in Seq(Slots)
  <2>1. /\ \E h \in Homes : home' = [home EXCEPT ![t] = h]
        /\ UNCHANGED <<memVars, listVars, lruVars, cacheVars, moves, binLock, slabLock, lruLock, remVars>>
    BY Zenon, <1>6 DEF Settle
  <2>2. logged' = logged /\ numaList' = numaList
    BY <2>1 DEF remVars
  <2>3. home' \in [Threads -> Homes]
    BY <1>1, <2>1
  <2>4. QED BY <1>1, <2>2, <2>3 DEF Outer
<1>7. CASE FlusherStep
  <2>1. home' = home /\ logged' = logged
        /\ (numaList' = numaList \/ (numaList # <<>> /\ numaList' = Tail(numaList)))
    BY <1>7 DEF FlusherStep, Wake, Flush, FlushEnd, Dequeue, moveVars
  <2>2. numaList' \in Seq(Slots)
    BY <1>1, <2>1, TailIn
  <2>3. QED BY <1>1, <2>1, <2>2 DEF Outer
<1>8. QED BY <1>2, <1>3, <1>4, <1>5, <1>6, <1>7, AbidesUnless DEF Next

LEMMA GoodShapes ==
  ASSUME Good
  PROVE  Shapes
<1>1. \A s \in Slots : Shape(v[s])
  <2>1. \A s \in Slots : v[s] \in Vslabs
    BY GoodTypes DEF Good
  <2>2. QED BY <2>1, SlabType DEF Shape
<1>2. ASSUME NEW c \in Classes
      PROVE  Members(bin[c]) \subseteq Slots /\ now[c] \in Slots \union {Root}
  <2>1. bin[c] \in Seq(Slots) /\ now[c] \in Members(bin[c]) \union {Root}
    BY DEF Good, Bins
  <2>2. QED BY <2>1 DEF Members
<1>3. Members(lru) \subseteq Slots /\ lruLen \in Int /\ morphLen \in Int
  BY DEF Good, Types, Members
<1>4. QED BY <1>1, <1>2, <1>3 DEF Shapes

(* One slab is replaced; the lists are as they were.                        *)
LEMMA SlabShapes ==
  ASSUME Ctx, NEW s, NEW q, Shape(q) \/ q = v[s], v' = [v EXCEPT ![s] = q] \/ v' = v,
         UNCHANGED listVars, Members(lru') \subseteq Slots, lruLen' \in Int, morphLen' \in Int
  PROVE  Shapes'
<1>1. Shapes /\ v \in [Slots -> Vslabs]
  BY GoodShapes, CtxFacts DEF Types
<1>2. \A x \in Slots : Shape(v'[x])
  <2>1. \A x \in Slots : v'[x] = v[x] \/ v'[x] = q
    BY <1>1
  <2>2. \A x \in Slots : Shape(v[x])
    BY <1>1 DEF Shapes
  <2>3. \A x \in Slots : v'[x] = v[x] \/ Shape(v'[x])
    <3>1. CASE Shape(q)
      BY <2>1, <3>1
    <3>2. CASE q = v[s]
      BY <1>1, <3>2
    <3>3. QED BY <3>1, <3>2
  <2>4. ASSUME NEW x \in Slots PROVE Shape(v'[x])
    <3>1. CASE v'[x] = v[x]
      BY <2>2, <3>1
    <3>2. CASE Shape(v'[x])
      BY <3>2
    <3>3. QED BY <2>3, <3>1, <3>2
  <2>5. QED BY <2>4
<1>3. bin' = bin /\ now' = now
  BY DEF listVars
<1>4. QED BY <1>1, <1>2, <1>3 DEF Shapes, Shape
(* Steps that leave slabs and bins as they were.                            *)
LEMMA StillShapes ==
  ASSUME Ctx, NEW t \in Threads,
         \/ Touch(t) \/ Enlist(t) \/ PutBack(t) \/ Unset(t)
         \/ \E b \in held : Free(t, b)
  PROVE  Shapes'
<1>1. Members(lru) \subseteq Slots /\ lruLen \in Int /\ morphLen \in Int /\ lru \in Seq(Slots)
  BY CtxFacts DEF Members
<1>2. CASE Touch(t)
  <2> PICK s : s = my[t].cur
    OBVIOUS
  <2>1. UNCHANGED <<memVars, listVars, lruLen, morphLen>>
    BY Zenon, <1>2 DEF Touch
  <2>2. pc[t] = "touch" /\ (lru' = lru \/ lru' = Append(Without(lru, s), s))
    BY Zenon, <1>2 DEF Touch
  <2>3. s \in Slots
    BY <2>2, CtxFacts DEF OnSlab
  <2>4. Members(lru') \subseteq Slots
    <3>1. Without(lru, s) \in Seq(Slots)
      BY <1>1, WithoutIn
    <3>2. Append(Without(lru, s), s) \in Seq(Slots)
      BY <2>3, <3>1, AppendIn
    <3>3. lru' \in Seq(Slots)
      BY <1>1, <2>2, <3>2
    <3>4. QED BY <3>3 DEF Members
  <2>5. v' = v /\ UNCHANGED listVars /\ lruLen' = lruLen /\ morphLen' = morphLen
    BY <2>1 DEF memVars
  <2>6. QED BY <1>1, <2>4, <2>5, SlabShapes
<1>3. CASE Enlist(t)
  <2>1. UNCHANGED <<memVars, listVars, lruVars>>
    BY Zenon, <1>3 DEF Enlist
  <2>2. v' = v /\ UNCHANGED listVars /\ lru' = lru /\ lruLen' = lruLen /\ morphLen' = morphLen
    BY <2>1 DEF memVars, lruVars
  <2>3. QED BY <1>1, <2>2, SlabShapes
<1>4. CASE PutBack(t)
  <2>1. UNCHANGED <<memVars, listVars, lruVars>>
    BY Zenon, <1>4 DEF PutBack
  <2>2. v' = v /\ UNCHANGED listVars /\ lru' = lru /\ lruLen' = lruLen /\ morphLen' = morphLen
    BY <2>1 DEF memVars, lruVars
  <2>3. QED BY <1>1, <2>2, SlabShapes
<1>5. ASSUME NEW b \in held, Free(t, b)
      PROVE  Shapes'
  <2>1. UNCHANGED <<memVars, listVars, lruVars>>
    BY Zenon, <1>5 DEF Free
  <2>2. v' = v /\ UNCHANGED listVars /\ lru' = lru /\ lruLen' = lruLen /\ morphLen' = morphLen
    BY <2>1 DEF memVars, lruVars
  <2>3. QED BY <1>1, <2>2, SlabShapes
<1>6. CASE Unset(t)
  <2>1. UNCHANGED <<v, listVars, lruVars>>
    BY Zenon, <1>6 DEF Unset
  <2>2. v' = v /\ UNCHANGED listVars /\ lru' = lru /\ lruLen' = lruLen /\ morphLen' = morphLen
    BY <2>1 DEF lruVars
  <2>3. QED BY <1>1, <2>2, SlabShapes
<1>7. QED BY <1>2, <1>3, <1>4, <1>5, <1>6

(* Steps that change one slab.                                              *)
LEMMA OneShapes ==
  ASSUME Ctx, NEW t \in Threads, FreeNew(t) \/ FarMark(t) \/ Check(t) \/ Drop(t) \/ Seize(t)
  PROVE  Shapes'
<1> PICK s : s = my[t].cur
  OBVIOUS
<1> PICK r : r = v[s]
  OBVIOUS
<1>1. Members(lru) \subseteq Slots /\ lruLen \in Int /\ morphLen \in Int /\ lru \in Seq(Slots)
  BY CtxFacts DEF Members
<1>2. s \in Slots /\ r \in Vslabs /\ DOMAIN r = SlabFields
      /\ r.used \subseteq Indices /\ r.nbits \in Nat /\ r.numb \in Nat
  <2>1. pc[t] \in {"new", "far", "check", "drop", "seize"}
    <3>1. pc[t] = "new" \/ pc[t] = "far" \/ pc[t] = "check" \/ pc[t] = "drop" \/ pc[t] = "seize"
      BY Zenon DEF FreeNew, FarMark, Check, Drop, Seize
    <3>2. QED BY <3>1
  <2>2. s \in Slots /\ r \in Vslabs
    BY <2>1, CtxFacts, GoodTypes DEF OnSlab
  <2>3. QED BY <2>2, SlabType
<1>3. Shape(NoSlab)
  BY PlainType, SlabType DEF Shape
<1>4. CASE FreeNew(t)
  <2> DEFINE q == [r EXCEPT !.used = @ \ {my[t].idx}, !.nbits = @ - 1]
  <2>1. UNCHANGED <<pm, listVars, lruVars>> /\ v' = [v EXCEPT ![s] = q]
    BY Zenon, <1>4 DEF FreeNew
  <2>2. Shape(q)
    BY <1>2 DEF Shape, SlabFields
  <2> HIDE DEF q
  <2>3. UNCHANGED listVars /\ lru' = lru /\ lruLen' = lruLen /\ morphLen' = morphLen
    BY <2>1 DEF lruVars
  <2>4. QED BY <1>1, <2>1, <2>2, <2>3, SlabShapes
<1>5. CASE FarMark(t)
  <2> DEFINE q == [r EXCEPT !.rdirty = TRUE,
                            !.rb = IF my[t].idx \in r.rb THEN @ \ {my[t].idx} ELSE @ \union {my[t].idx}]
  <2>1. UNCHANGED <<pm, listVars, lruVars>>
        /\ v' = [v EXCEPT ![s].rdirty = TRUE,
                          ![s].rb = IF my[t].idx \in r.rb THEN @ \ {my[t].idx} ELSE @ \union {my[t].idx}]
    BY Zenon, <1>5 DEF FarMark
  <2>2. v' = [v EXCEPT ![s] = q]
    <3>1. v \in [Slots -> Vslabs]
      BY CtxFacts DEF Types
    <3>2. QED BY <1>2, <2>1, <3>1 DEF SlabFields
  <2>3. Shape(q)
    BY <1>2 DEF Shape, SlabFields
  <2> HIDE DEF q
  <2>4. UNCHANGED listVars /\ lru' = lru /\ lruLen' = lruLen /\ morphLen' = morphLen
    BY <2>1 DEF lruVars
  <2>5. QED BY <1>1, <2>2, <2>3, <2>4, SlabShapes
<1>6. CASE Check(t)
  <2>1. UNCHANGED <<listVars, lruVars>> /\ (v' = v \/ v' = [v EXCEPT ![s] = NoSlab])
    <3>1. UNCHANGED <<listVars, lruVars, cacheVars, moveVars, binLock, slabLock, lruLock, remVars>>
      BY Zenon, <1>6 DEF Check
    <3>2. UNCHANGED memVars \/ v' = [v EXCEPT ![s] = NoSlab] \/ UNCHANGED <<memVars, my>>
      BY Zenon, <1>6 DEF Check, Destroy
    <3>3. QED BY <3>1, <3>2 DEF memVars
  <2>2. UNCHANGED listVars /\ lru' = lru /\ lruLen' = lruLen /\ morphLen' = morphLen
    BY <2>1 DEF lruVars
  <2>3. QED BY <1>1, <1>3, <2>1, <2>2, SlabShapes
<1>7. CASE Drop(t)
  <2>1. /\ UNCHANGED listVars /\ (v' = v \/ v' = [v EXCEPT ![s] = NoSlab])
        /\ lru' = Without(lru, s) /\ lruLen' = lruLen - 1 /\ morphLen' = morphLen - 1
    <3>1. UNCHANGED <<listVars, cacheVars, moveVars, binLock, slabLock, lruLock, remVars>>
      BY Zenon, <1>7 DEF Drop
    <3>2. UNCHANGED memVars \/ v' = [v EXCEPT ![s] = NoSlab]
      BY Zenon, <1>7 DEF Drop, Destroy
    <3>3. lru' = Without(lru, s) /\ lruLen' = lruLen - 1 /\ morphLen' = morphLen - 1
      BY Zenon, <1>7 DEF Drop
    <3>4. QED BY <3>1, <3>2, <3>3 DEF memVars
  <2>2. Members(lru') \subseteq Slots
    BY <1>1, <2>1, WithoutIn
  <2>3. lruLen' \in Int /\ morphLen' \in Int
    BY <1>1, <2>1
  <2>4. QED BY <1>3, <2>1, <2>2, <2>3, SlabShapes
<1>8. CASE Seize(t)
  <2> DEFINE q == Remade(r, my[t].cls)
  <2>1. UNCHANGED <<listVars, lruVars>> /\ (v' = v \/ v' = [v EXCEPT ![s] = q])
    <3>1. UNCHANGED <<listVars, lruVars>>
      BY Zenon, <1>8 DEF Seize
    <3>2. UNCHANGED memVars \/ v' = [v EXCEPT ![s] = q]
      BY Zenon, <1>8 DEF Seize, Remade
    <3>3. QED BY <3>1, <3>2 DEF memVars
  <2>2. Shape(q)
    BY <1>2 DEF Shape, Remade, SlabFields
  <2> HIDE DEF q
  <2>3. UNCHANGED listVars /\ lru' = lru /\ lruLen' = lruLen /\ morphLen' = morphLen
    BY <2>1 DEF lruVars
  <2>4. QED BY <1>1, <2>1, <2>2, <2>3, SlabShapes
<1>9. QED BY <1>4, <1>5, <1>6, <1>7, <1>8
LEMMA UnlinkShapes ==
  ASSUME Ctx, NEW t \in Threads, Unlink(t)
  PROVE  Shapes'
<1> PICK s : s = my[t].cur
  OBVIOUS
<1> PICK a : a = my[t].sc.cls
  OBVIOUS
<1>1. Shapes /\ v \in [Slots -> Vslabs] /\ bin \in [Classes -> Seq(Slots)] /\ DOMAIN now = Classes
  BY GoodShapes, CtxFacts DEF Types, Good, Bins
<1>2. UNCHANGED <<memVars, lruVars>>
  BY Zenon DEF Unlink
<1>3. /\ bin' = bin \/ bin' = [bin EXCEPT ![a] = Without(@, s)]
      /\ now' = now \/ (s \in Members(bin[a]) /\ now' = [now EXCEPT ![a] = After(bin[a], s)])
  BY DEF Unlink
<1>4. a \in Classes
  BY CtxFacts DEF Locks, ThreadOK, WorkOK
<1>5. bin[a] \in Seq(Slots) /\ Without(bin[a], s) \in Seq(Slots)
  BY <1>1, <1>4, WithoutIn
<1>6. s \in Members(bin[a]) => After(bin[a], s) \in Slots \union {Root}
  BY <1>5, AfterIn DEF Members
<1>7. ASSUME NEW c \in Classes
      PROVE  Members(bin'[c]) \subseteq Slots /\ now'[c] \in Slots \union {Root}
  <2>1. bin'[c] \in Seq(Slots)
    BY <1>1, <1>3, <1>4, <1>5
  <2>2. now'[c] \in Slots \union {Root}
    BY <1>1, <1>3, <1>6 DEF Shapes
  <2>3. QED BY <2>1, <2>2 DEF Members
<1>8. QED BY <1>1, <1>2, <1>7 DEF Shapes, Shape, memVars, lruVars

LEMMA RebinShapes ==
  ASSUME Ctx, NEW t \in Threads, Reuse(t) \/ Unbin(t)
  PROVE  Shapes'
<1> PICK s : s = my[t].cur
  OBVIOUS
<1> PICK a : a = my[t].sc.cls
  OBVIOUS
<1> PICK c : c = my[t].cls
  OBVIOUS
<1>1. Shapes /\ v \in [Slots -> Vslabs] /\ bin \in [Classes -> Seq(Slots)] /\ DOMAIN now = Classes
      /\ lru \in Seq(Slots)
  BY GoodShapes, CtxFacts DEF Types, Good, Bins
<1>2. pc[t] = "unbin" /\ \E last : Rebin(t, last)
  BY Zenon DEF Reuse, Unbin
<1>3. a \in Classes /\ c \in Classes /\ s \in Slots
  <2>1. a \in Classes /\ c \in Classes
    BY CtxFacts DEF Locks, ThreadOK, WorkOK
  <2>2. QED BY <1>2, <2>1, CtxFacts DEF OnSlab
<1>4. /\ binLock[a] = None
      /\ bin' = [bin EXCEPT ![a] = Without(@, s), ![c] = <<s>> \o @]
      /\ \E last : now' = [now EXCEPT ![a] = IF @ = s THEN After(bin[a], s) ELSE @,
                                      ![c] = IF last THEN s ELSE @]
  BY Zenon, <1>2 DEF Rebin
<1>5. a # c
  <2>1. binLock[c] = t
    BY <1>2, <1>3, CtxFacts DEF Locks, ThreadOK, InFill, FillPcs
  <2>2. QED BY <1>4, <2>1, Names
<1>6. bin[a] \in Seq(Slots) /\ Without(bin[a], s) \in Seq(Slots) /\ <<s>> \o bin[c] \in Seq(Slots)
  BY <1>1, <1>3, WithoutIn, PrependIn
<1>7. bin' \in [Classes -> Seq(Slots)]
  BY <1>1, <1>3, <1>4, <1>5, <1>6
<1>8. now[a] = s => After(bin[a], s) \in Slots \union {Root}
  <2>1. now[a] \in Members(bin[a]) \union {Root} /\ s # Root
    BY <1>3, CtxFacts, Names
  <2>2. QED BY <1>6, <2>1, AfterIn DEF Members
<1>9. ASSUME NEW d \in Classes
      PROVE  Members(bin'[d]) \subseteq Slots /\ now'[d] \in Slots \union {Root}
  <2>1. now[d] \in Slots \union {Root}
    BY <1>1 DEF Shapes
  <2>2. PICK last : now' = [now EXCEPT ![a] = IF @ = s THEN After(bin[a], s) ELSE @,
                                       ![c] = IF last THEN s ELSE @]
    BY <1>4
  <2> DEFINE n == IF now[a] = s THEN After(bin[a], s) ELSE now[a]
             m == IF last THEN s ELSE now[c]
  <2>3. now' = [now EXCEPT ![a] = n, ![c] = m]
    BY <1>1, <1>3, <1>5, <2>2
  <2>4. n \in Slots \union {Root} /\ m \in Slots \union {Root}
    BY <1>1, <1>3, <1>8 DEF Shapes
  <2> HIDE DEF n, m
  <2>5. now'[d] = now[d] \/ now'[d] = n \/ now'[d] = m
    BY <1>1, <2>3
  <2>6. bin'[d] \in Seq(Slots)
    BY <1>7
  <2>7. QED BY <2>1, <2>4, <2>5, <2>6 DEF Members
<1>10. Members(lru') \subseteq Slots /\ lruLen' \in Int /\ morphLen' \in Int
  <2>1. UNCHANGED lruVars \/ (lru' = Without(lru, s) /\ lruLen' = lruLen - 1 /\ morphLen' = morphLen - 1)
    <3>1. UNCHANGED <<lruVars, cacheVars, moveVars, binLock, remVars>>
          \/ (lru' = Without(lru, s) /\ lruLen' = lruLen - 1 /\ morphLen' = morphLen - 1)
      BY Zenon DEF Reuse, Unbin
    <3>2. QED BY <3>1
  <2>2. Without(lru, s) \in Seq(Slots)
    BY <1>1, WithoutIn
  <2>3. lru' \in Seq(Slots) /\ lruLen' \in Int /\ morphLen' \in Int
    BY <1>1, <2>1, <2>2, CtxFacts DEF lruVars
  <2>4. QED BY <2>3 DEF Members
<1>11. \A x \in Slots : Shape(v'[x])
  <2>1. v[s] \in Vslabs
    BY <1>1, <1>3
  <2> DEFINE q == [v[s] EXCEPT !.used = {}]
  <2>2. Shape(q) /\ Shape(NewSlab(c))
    <3>1. Shape(q)
      BY <2>1, SlabType DEF Shape, SlabFields
    <3>2. Shape(NewSlab(c))
      BY <1>3, PlainType, SlabType DEF Shape
    <3>3. QED BY <3>1, <3>2
  <2>3. v' = [v EXCEPT ![s] = NewSlab(c)] \/ v' = [v EXCEPT ![s].used = {}]
    BY Zenon DEF Reuse, Unbin
  <2>4. v' = [v EXCEPT ![s] = NewSlab(c)] \/ v' = [v EXCEPT ![s] = q]
    BY <2>3
  <2> HIDE DEF q
  <2>5. \A x \in Slots : Shape(v[x])
    BY <1>1 DEF Shapes
  <2>6. ASSUME NEW x \in Slots PROVE Shape(v'[x])
    <3>1. v'[x] = v[x] \/ v'[x] = q \/ v'[x] = NewSlab(c)
      BY <1>1, <2>4
    <3>2. QED BY <2>2, <2>5, <3>1
  <2>7. QED BY <2>6
<1>12. QED BY <1>9, <1>10, <1>11 DEF Shapes, Shape

LEMMA NextShapes ==
  ASSUME Ctx, Next, ~stale'
  PROVE  Shapes'
<1>1. ASSUME Good'
      PROVE  Shapes'
  BY <1>1, GoodShapes, PTL
<1>2. ASSUME NEW t \in Threads, Call(t)
      PROVE  Shapes'
  BY <1>1, <1>2, MallocHitGood, MallocMissGood, StillShapes, FarFreeGood, MigrateGood DEF Call
<1>3. ASSUME NEW t \in Threads, Fill(t), ~Outdated(t)
      PROVE  Shapes'
  BY <1>1, <1>3, PopNoneGood, PopGood, SetLenGood, StillShapes, PopFullGood, TakeGood, GetGood,
     SearchGood, WalkEndGood, WalkOnGood, CreateGood, InsertGood, OneShapes, RebinShapes,
     TableGood, MetasGood DEF Fill
<1>4. ASSUME NEW t \in Threads, Return(t), ~Outdated(t)
      PROVE  Shapes'
  BY <1>1, <1>4, OneShapes, FreedGood, FreeOldGood, RelistGood, UnlinkShapes, StillShapes,
     SettleGood DEF Return
<1>5. CASE FlusherStep
  BY <1>1, <1>5, WakeGood, FlushGood DEF FlusherStep
<1>6. QED BY <1>2, <1>3, <1>4, <1>5 DEF Next, Inside
LEMMA InitGood ==
  ASSUME Init
  PROVE  IndInv
<1>1. /\ v = [s \in Slots |-> NoSlab] /\ bin = [c \in Classes |-> <<>>] /\ now = [c \in Classes |-> Root]
      /\ lru = <<>> /\ lruLen = 0 /\ morphLen = 0
      /\ cache = [t \in Threads |-> [c \in Classes |-> [b \in Banks |-> <<>>]]]
      /\ turn = [t \in Threads |-> [c \in Classes |-> NBanks - 1]]
      /\ held = {} /\ lost = {} /\ home = InitHome
      /\ binLock = [c \in Classes |-> None] /\ slabLock = [s \in Slots |-> None]
      /\ lruLock = None /\ numaLock = None /\ numaList = <<>>
      /\ logged = [t \in Threads |-> 0] /\ pc = [t \in Threads |-> "idle"]
      /\ my = [t \in Threads |-> NoWork] /\ failed = "no" /\ ~stale
  BY DEF Init
<1>2. /\ NoWork.blk = NoBlock /\ NoWork.cur = Root /\ NoWork \in Works /\ WorkOK(NoWork)
      /\ NoSlab \in Vslabs /\ ~NoSlab.live /\ NoSlab.rb = {} /\ ~NoSlab.rdirty
  BY Names, PlainType, NewSlabIs
<1>3. Members(<<>>) = {}
  BY DEF Members
<1>4. Locks
  <2>1. ASSUME NEW t \in Threads PROVE ThreadOK(t)
    <3>1. pc[t] = "idle" /\ my[t] = NoWork
      BY <1>1
    <3>2. \A c \in Classes : binLock[c] # t
      BY <1>1, Names
    <3>3. \A s \in Slots : slabLock[s] # t
      BY <1>1, Names
    <3>4. lruLock # t
      BY <1>1, Names
    <3>5. ~InFill(t) /\ pc[t] \notin WithSlab /\ pc[t] \notin WithLru /\ pc[t] \notin OnSlab
      BY <3>1 DEF InFill, FillPcs, WithSlab, WithLru, OnSlab
    <3>6. QED BY <1>2, <3>1, <3>2, <3>3, <3>4, <3>5 DEF ThreadOK
  <2>2. /\ pc \in [Threads -> Pcs] /\ DOMAIN my = Threads
        /\ binLock \in [Classes -> Threads \union {None}]
        /\ slabLock \in [Slots -> Threads \union {None}]
        /\ lruLock \in Threads \union {None} /\ numaLock \in {None, Flusher}
    BY <1>1 DEF Pcs
  <2>3. QED BY <2>1, <2>2 DEF Locks
<1>5. numaList \in Seq(Slots) /\ Outer
  BY <1>1, SlabsAssumption DEF Outer
<1>6. Types
  <2>1. NBanks - 1 \in Banks
    BY SlabsAssumption DEF Banks
  <2>2. QED BY <1>1, <1>2, <2>1 DEF Types
<1>7. Blocks = {} /\ Once
  <2>1. \A t \in Threads, c \in Classes, k \in Banks : cache[t][c][k] = <<>>
    BY <1>1
  <2>2. \A t \in Threads : my[t].blk = NoBlock
    BY <1>1, <1>2
  <2>3. \A s \in Slots : Returned(s) = {}
    BY <1>1, <1>2 DEF Returned
  <2>4. BlksIn(<<>>) = {}
    BY DEF BlksIn
  <2>5. \A x \in Spots : Whereabouts[x] = {}
    <3>1. ASSUME NEW x \in Spots PROVE Whereabouts[x] = {}
      <4>1. Whereabouts[<<"held">>] = {} /\ Whereabouts[<<"lost">>] = {}
        BY <1>1, WhereIs
      <4>2. Whereabouts[<<"back">>] = {}
        <5>1. UNION {Returned(s) : s \in Slots} = {}
          BY <2>3
        <5>2. QED BY <5>1, WhereIs
      <4>3. \A t \in Threads : Whereabouts[<<"hand", t>>] = {}
        BY <2>2, WhereIs
      <4>4. \A t \in Threads, c \in Classes, k \in Banks : Whereabouts[<<"bank", t, c, k>>] = {}
        <5>1. TAKE t \in Threads, c \in Classes, k \in Banks
        <5>2. Whereabouts[<<"bank", t, c, k>>] = BlksIn(cache[t][c][k])
          BY WhereIs
        <5>3. cache[t][c][k] = <<>>
          BY <2>1
        <5>4. QED BY <2>4, <5>2, <5>3
      <4>5. QED BY <4>1, <4>2, <4>3, <4>4, SpotsAre
    <3>2. QED BY <3>1
  <2>6. Apart(Whereabouts)
    BY <2>5 DEF Apart
  <2>7. Union(Whereabouts) = {}
    BY <2>5 DEF Union
  <2>8. Blocks = {}
    BY <2>7, Gathered
  <2>9. QED BY <1>3, <2>1, <2>6, <2>8 DEF Once, NoTwice
<1>8. \A s \in Slots : Exact(s, v[s], Of(s))
  <2>1. \A s : Exact(s, NoSlab, {})
    BY <1>2, NewSlabIs, ExactEmpty
  <2>2. \A s : Of(s) = {}
    BY <1>7 DEF Of
  <2>3. QED BY <1>1, <2>1, <2>2
<1>9. \A t \in Threads : pc[t] = "idle" /\ my[t].blk = NoBlock
  BY <1>1, <1>2
<1>10. Hands /\ Slabwise /\ Morphing /\ Filling
  <2>1. Hands
    BY <1>9 DEF Hands, HandOK, InHand
  <2>2. Slabwise
    BY <1>8 DEF Slabwise
  <2>3. Morphing
    BY <1>9 DEF Morphing, MorphOK, Morphs
  <2>4. Filling
    BY <1>9 DEF Filling, FillOK, Ready
  <2>5. QED BY <2>1, <2>2, <2>3, <2>4
<1>11. Alive /\ Aged /\ Remote
  <2>1. Alive
    BY <1>1, <1>9 DEF Alive, OnLive, OnSlab
  <2>2. Aged
    BY <1>1, <1>3, <1>9 DEF Aged, Distinct, Walks, Alone, Leaving
  <2>3. Remote
    <3>1. \A s \in Slots : v[s] = NoSlab
      BY <1>1
    <3>2. \A s \in Slots : Dirty(s)
      BY <1>2, <3>1 DEF Dirty
    <3>3. QED BY <1>1, <1>3, <3>2 DEF Remote, Distinct
  <2>4. QED BY <2>1, <2>2, <2>3
<1>12. Bins /\ Unbinned
  <2>1. \A c \in Classes : bin[c] = <<>> /\ now[c] = Root
    BY <1>1
  <2>2. bin \in [Classes -> Seq(Slots)] /\ DOMAIN now = Classes
    BY <1>1
  <2>3. Bins
    BY <1>3, <1>9, <2>1, <2>2 DEF Bins, BinOK, AtBin, Distinct
  <2>4. Unbinned
    BY <1>1, <1>2 DEF Unbinned, Out
  <2>5. QED BY <2>3, <2>4
<1>13. Good
  BY <1>6, <1>7, <1>10, <1>11, <1>12 DEF Good
<1>14. QED BY <1>4, <1>5, <1>13, GoodShapes DEF IndInv

LEMMA NextIndInv ==
  ASSUME IndInv, [Next]_vars
  PROVE  IndInv'
<1>1. CASE Next /\ ~stale'
  <2>0. ~stale
    BY <1>1 DEF Next, Call, Inside, FlusherStep
  <2>1. Good /\ Locks /\ numaList \in Seq(Slots) /\ Outer
    BY <1>1, <2>0 DEF Next, IndInv
  <2>2. Locks'
    BY <1>1, <2>1, GoodBase, NextLocks
  <2>3. Ctx
    BY <2>1, <2>2 DEF Ctx
  <2>4. Outer' /\ numaList' \in Seq(Slots) /\ Shapes'
    BY <1>1, <2>1, <2>3, NextOuter, NextShapes
  <2>5. failed' = "no" => Good'
    BY <1>1, <2>3, NextGood
  <2>6. QED BY <2>2, <2>4, <2>5 DEF IndInv
<1>2. CASE UNCHANGED vars /\ ~stale'
  <2>0. ~stale
    BY <1>2 DEF vars
  <2>1. Locks' /\ Outer' /\ Shapes' /\ numaList' = numaList /\ failed' = failed
    BY <1>2, <2>0 DEF vars, IndInv, Locks, ThreadOK, InFill, Outer, Shapes, Shape
  <2>2. UNCHANGED <<memVars, listVars, lruVars, cacheVars, pc, my, numaList>>
    BY <1>2 DEF vars, memVars, listVars, lruVars, cacheVars
  <2>3. failed' = "no" => Good'
    BY <2>0, <2>1, <2>2, SameGood DEF IndInv
  <2>4. QED BY <2>0, <2>1, <2>3 DEF IndInv
<1>3. CASE stale'
  BY <1>3 DEF IndInv
<1>4. QED BY <1>1, <1>2, <1>3

(* Slabs, caches, lists and threads agree in every reachable state up to    *)
(* the first step that works with an outdated layout.                       *)
THEOREM Inductive == Spec => []IndInv
<1>1. QED BY InitGood, NextIndInv, PTL DEF Spec
-----------------------------------------------------------------------------
(* The properties *)

(* A block covers, of its own layout, itself alone; so the bitmap is all    *)
(* that the blocks that are out cover.                                      *)
LEMMA ExactUsed ==
  ASSUME NEW s, NEW r, NEW B, Exact(s, r, B)
  PROVE  r.used = UNION {Covered(r.sc, b) : b \in B}
<1>1. r \in Vslabs /\ r.sc \in LayoutSet /\ r.used \subseteq Indices
  BY SlabType DEF Exact
<1>2. Indices = 0 .. SlabSize /\ SlabSize \in Nat /\ r.sc.n \in Nat /\ r.sc.n < SlabSize
  BY <1>1, SlabType, LayoutType
<1>3. ASSUME NEW i \in Indices, Block(s, r.sc, i) \in B
      PROVE  i \in Covered(r.sc, Block(s, r.sc, i))
  <2>1. Block(s, r.sc, i).at = At(r.sc, i) /\ Block(s, r.sc, i).len = Size[r.sc.cls]
        /\ Index(r.sc, Block(s, r.sc, i).at) = i
    BY <1>1, <1>2, BlockIs
  <2>2. At(r.sc, i) \in Int /\ Size[r.sc.cls] \in Nat \ {0}
    BY <1>1, <1>2, AtType, LayoutType
  <2>3. QED BY <1>2, <2>1, <2>2 DEF Covered, Reach
<1>4. ASSUME NEW i \in r.used PROVE \E b \in B : i \in Covered(r.sc, b)
  <2>1. i \in Indices
    BY <1>1
  <2>2. CASE Block(s, r.sc, i) \in B
    BY <1>3, <2>1, <2>2
  <2>3. CASE Over(r, B, i) # {}
    BY <2>3 DEF Over, OldOf
  <2>4. QED BY <2>1, <2>2, <2>3 DEF Exact
<1>5. ASSUME NEW b \in B, NEW i \in Covered(r.sc, b) PROVE i \in r.used
  <2>1. i \in Indices /\ i >= Index(r.sc, b.at) /\ At(r.sc, i) < b.at + b.len
    BY DEF Covered, Reach
  <2>2. Placed(s, r, b)
    BY DEF Exact
  <2>3. CASE b.len # Size[r.sc.cls]
    <3>1. b \in Over(r, B, i)
      BY <2>3 DEF Over, OldOf
    <3>2. QED BY <2>1, <3>1 DEF Exact
  <2>4. CASE b.len = Size[r.sc.cls]
    <3> DEFINE j == Index(r.sc, b.at)
    <3>1. b = Block(s, r.sc, j) /\ j \in 0 .. r.sc.n - 1
      BY <1>1, <2>2, <2>4, OwnBlock
    <3> HIDE DEF j
    <3>2. b.at = At(r.sc, j) /\ Index(r.sc, b.at) = j /\ j \in Int /\ i \in Int
      BY <1>1, <1>2, <2>1, <3>1, BlockIs
    <3>3. i = j
      <4>1. SUFFICES ASSUME j < i PROVE FALSE
        BY <2>1, <3>2
      <4>2. At(r.sc, j) + Size[r.sc.cls] <= At(r.sc, i)
        BY <1>1, <3>2, <4>1, AtOrder
      <4>3. At(r.sc, j) \in Int /\ At(r.sc, i) \in Int /\ Size[r.sc.cls] \in Nat
        BY <1>1, <3>2, AtType, LayoutType
      <4>4. QED BY <2>1, <2>4, <3>2, <4>2, <4>3
    <3>4. QED BY <2>1, <3>1, <3>3 DEF Exact
  <2>5. QED BY <2>3, <2>4
<1>6. QED BY <1>4, <1>5

(* A slab that nobody has locked is not being morphed.                      *)
LEMMA AtPeace ==
  ASSUME Good, Locks, NEW s \in Slots, slabLock[s] = None
  PROVE  Exact(s, v[s], Of(s))
<1>1. \A u \in Threads : pc[u] \in InMorph => my[u].cur # s
  <2>1. ASSUME NEW u \in Threads, pc[u] \in InMorph, my[u].cur = s PROVE FALSE
    <3>1. slabLock[s] = u
      BY <2>1, MorphCur
    <3>2. QED BY <3>1, SlabsAssumption
  <2>2. QED BY <2>1
<1>2. QED BY <1>1, AtRest

LEMMA IndTypes ==
  ASSUME IndInv, ~stale
  PROVE  TypeOK
<1>1. Locks /\ Outer /\ Shapes
  BY DEF IndInv
<1>2. \A t \in Threads : home[t] \in Homes /\ pc[t] \in Pcs /\ logged[t] \in 0 .. LogMax
  BY <1>1 DEF Outer, Locks
<1>3. \A c \in Classes : binLock[c] # None => pc[binLock[c]] # "idle"
  <2>1. ASSUME NEW c \in Classes, binLock[c] # None PROVE pc[binLock[c]] # "idle"
    <3>1. PICK u \in Threads : u = binLock[c]
      BY <1>1, <2>1 DEF Locks
    <3>2. InFill(u)
      BY <1>1, <3>1 DEF Locks, ThreadOK
    <3>3. QED BY <3>1, <3>2 DEF InFill, FillPcs
  <2>2. QED BY <2>1
<1>4. lruLock # None => pc[lruLock] \in {"walk", "seize", "unbin", "table", "metas"}
  <2>1. ASSUME lruLock # None PROVE pc[lruLock] \in WithLru
    <3>1. PICK u \in Threads : u = lruLock
      BY <1>1, <2>1 DEF Locks
    <3>2. QED BY <1>1, <3>1 DEF Locks, ThreadOK
  <2>2. QED BY <2>1 DEF WithLru
<1>5. QED BY <1>1, <1>2, <1>3, <1>4 DEF TypeOK, Shapes, Shape

LEMMA IndAccounted ==
  ASSUME IndInv
  PROVE  Accounted /\ OldCounted
<1>1. ASSUME Clean PROVE Good /\ Locks
  BY <1>1 DEF IndInv, Clean, Running
<1>2. ASSUME Clean, NEW s \in Slots, slabLock[s] = None
      PROVE  /\ v[s].used = UNION {Covered(v[s].sc, b) : b \in {x \in Blocks : x.slab = s}}
             /\ v[s].nbits = Cardinality(v[s].used)
             /\ v[s].numb = Cardinality({b \in Blocks : b.slab = s /\ b.len # Size[v[s].sc.cls]})
             /\ \A i \in Indices :
                  v[s].dnum[i] = Cardinality({b \in {x \in Blocks : x.slab = s /\ x.len # Size[v[s].sc.cls]} :
                                                i \in Covered(v[s].sc, b)})
  <2>1. Exact(s, v[s], Of(s))
    BY <1>1, <1>2, AtPeace
  <2>2. v[s].used = UNION {Covered(v[s].sc, b) : b \in Of(s)}
    BY <2>1, ExactUsed
  <2>3. OldOf(v[s], Of(s)) = {b \in Blocks : b.slab = s /\ b.len # Size[v[s].sc.cls]}
    BY DEF OldOf, Of
  <2>4. /\ v[s].nbits = Cardinality(v[s].used) /\ v[s].numb = Cardinality(OldOf(v[s], Of(s)))
        /\ \A i \in Indices : v[s].dnum[i] = Cardinality(Over(v[s], Of(s), i))
    BY <2>1 DEF Exact
  <2>5. QED BY <2>2, <2>3, <2>4 DEF Of, Over
<1>3. QED BY <1>2 DEF Accounted, OldCounted

LEMMA IndApart ==
  ASSUME IndInv
  PROVE  BlocksApart
<1>1. ASSUME Clean PROVE Good
  BY <1>1 DEF IndInv, Clean, Running
<1>2. ASSUME Clean, NEW s \in Slots
      PROVE  /\ \A a, b \in Of(s) : a # b => Beside(a, b)
             /\ \A b \in Of(s) : Within(v[s], b)
  <2>1. CASE \A t \in Threads : Morphs(t) => my[t].cur # s
    <3>1. Exact(s, v[s], Of(s))
      BY <1>1, <1>2, <2>1 DEF Good, Slabwise
    <3>2. QED BY <3>1, ExactApart
  <2>2. CASE \E t \in Threads : Morphs(t) /\ my[t].cur = s
    <3>1. PICK t \in Threads : Morphs(t) /\ my[t].cur = s
      BY <2>2
    <3>2. Moving(s, v[s], Of(s), my[t].old)
      BY <1>1, <1>2, <3>1 DEF Good, Morphing, MorphOK
    <3>3. QED BY <3>2, MovingApart
  <2>3. QED BY <2>1, <2>2
<1>3. ASSUME Clean, NEW b \in Blocks PROVE b.slab \in Slots
  BY <1>1, <1>3, BlockTypes DEF Good
<1>4. QED BY <1>2, <1>3 DEF BlocksApart, Of, Beside, Within

LEMMA IndDirty ==
  ASSUME IndInv
  PROVE  DirtyListed
BY DEF IndInv, Clean, Running, DirtyListed, Good, Remote, Dirty

(* Types hold, and a lock is held only where the code holds it, also once   *)
(* an assert has stopped the program, as long as no step has worked with an *)
(* outdated layout.                                                         *)
THEOREM Typed == Spec => [](~stale => TypeOK)
<1>1. IndInv => (~stale => TypeOK)
  BY IndTypes
<1>2. QED BY <1>1, Inductive, PTL

(* Threads wait for one another in a circle only if one of them is between  *)
(* LRU_lock and the slab's or the bin's lock in slab_morphing, as long as   *)
(* no step has worked with an outdated layout.                              *)
THEOREM LockOrdered == Spec => [](~stale => OnlyMorphDeadlocks)
<1>1. IndInv => (~stale => OnlyMorphDeadlocks)
  BY LockOrder DEF IndInv
<1>2. QED BY <1>1, Inductive, PTL

(* bitmap and nbits of a slab that nobody has locked are exactly the blocks *)
(* that some block out there reaches into: nothing leaks, and nothing is    *)
(* handed out twice, in every Clean state.                                  *)
THEOREM Accounting == Spec => []Accounted
<1>1. QED BY Inductive, IndAccounted, PTL

(* num_b of a morphed slab counts the old blocks that are left, num_b of a  *)
(* dmeta those that reach into its block, in every Clean state.             *)
THEOREM OldCounting == Spec => []OldCounted
<1>1. QED BY Inductive, IndAccounted, PTL

(* Blocks that are out never overlap, nor does one overlap the header of    *)
(* its slab, in the middle of a morphing too, in every Clean state.         *)
THEOREM Disjoint == Spec => []BlocksApart
<1>1. QED BY Inductive, IndApart, PTL

(* A slab with remote frees is on numa_list, or about to be put there, in   *)
(* every Clean state.                                                       *)
THEOREM DirtyFound == Spec => []DirtyListed
<1>1. QED BY Inductive, IndDirty, PTL
=============================================================================
