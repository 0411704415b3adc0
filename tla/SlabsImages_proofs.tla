------------------------- MODULE SlabsImages_proofs -------------------------
(***************************************************************************)
(* Proofs about Slabs, on top of the accounts of SlabsBlocks_proofs: what  *)
(* a crash finds on the pages of a slab, in the middle of a morphing too,  *)
(* which asserts do not fail, and that to its clients the layer is a heap  *)
(* of blocks; as there, up to the first step that works with an outdated   *)
(* layout (stale), after which none of it is so.                           *)
(***************************************************************************)
EXTENDS SlabsBlocks_proofs

-----------------------------------------------------------------------------
(* What is persistent, against what is out.                                 *)

HeldOf(s) == {b \in held : b.slab = s}
Kept(s)   == {e \in UNION {Caches(t) : t \in Threads} : e.blk.slab = s}

(* The meta bits tell each block of the layout that a client holds; the     *)
(* table each old block; an entry of a cache the meta bit to set.           *)
Noted(p, H, sc)    == \A b \in H : b.len = Size[sc.cls] => Index(sc, b.at) \in p.meta
Listing(p, j)      == j \in DOMAIN p.table /\ p.table[j] = 0
Tabulated(r, p, B) == \A b \in B : b.len # Size[r.sc.cls] => Listing(p, Index(r.scb, b.at))
Known(K, sc)       == \A e \in K : e.blk.len = Size[sc.cls] => e.mi = Index(sc, e.blk.at)

Settled(r, p, H, B, K) ==
  p.phase = 0 /\ Noted(p, H, r.sc) /\ Tabulated(r, p, B) /\ Known(K, r.sc)

(* While it is morphed with blocks in use, these are blocks of the layout   *)
(* before, recorded in the meta bits until they are in the table.           *)
Shifting(r, p, H, B, K, where) ==
  /\ p.phase \in {2, 3} /\ Known(K, r.scb)
  /\ IF where = "metas" THEN Tabulated(r, p, B) ELSE Noted(p, H, r.scb)

Still(s) == Settled(v[s], pm[s], HeldOf(s), Of(s), Kept(s))
Moves(s, where) == Shifting(v[s], pm[s], HeldOf(s), Of(s), Kept(s), where)

Images ==
  /\ DOMAIN pm = Slots /\ \A s \in Slots : DOMAIN pm[s] = {"phase", "meta", "table"}
  /\ \A s \in Slots : (\A t \in Threads : Morphs(t) => my[t].cur # s) => Still(s)
  /\ \A t \in Threads : Morphs(t) => Moves(my[t].cur, pc[t])

RunImages == failed = "no" /\ ~stale => Images

(* Where a block is after a step, it was before, or it is new.              *)
LEMMA BlocksFrom ==
  ASSUME NEW X, held' \subseteq X, lost' \subseteq X,
         \A t \in Threads, c \in Classes, k \in Banks : BlksIn(cache'[t][c][k]) \subseteq X,
         \A t \in Threads : my'[t].blk \in X \union {NoBlock},
         \A s \in Slots : Returned(s)' \subseteq X
  PROVE  Blocks' \subseteq X
<1>1. \A x \in Spots : Whereabouts'[x] \subseteq X
  <2>1. ASSUME NEW x \in Spots PROVE Whereabouts'[x] \subseteq X
    <3>1. CASE x = <<"held">> \/ x = <<"lost">>
      BY <3>1, WhereIsNext
    <3>2. CASE x = <<"back">>
      <4>1. UNION {Returned(s)' : s \in Slots} \subseteq X
        OBVIOUS
      <4>2. QED BY <3>2, <4>1, WhereIsNext
    <3>3. ASSUME NEW t \in Threads, x = <<"hand", t>> PROVE Whereabouts'[x] \subseteq X
      <4>1. Whereabouts'[x] = {my'[t].blk} \ {NoBlock}
        BY <3>3, WhereIsNext
      <4>2. QED BY <4>1
    <3>4. ASSUME NEW t \in Threads, NEW c \in Classes, NEW k \in Banks, x = <<"bank", t, c, k>>
          PROVE Whereabouts'[x] \subseteq X
      BY <3>4, WhereIsNext
    <3>5. QED BY <3>1, <3>2, <3>3, <3>4, SpotsAre
  <2>2. QED BY <2>1
<1>2. Union(Whereabouts') \subseteq X
  BY <1>1 DEF Union
<1>3. QED BY <1>2, Gathered

LEMMA InBlocks ==
  /\ held \subseteq Blocks /\ lost \subseteq Blocks
  /\ \A t \in Threads, c \in Classes, k \in Banks : BlksIn(cache[t][c][k]) \subseteq Blocks
  /\ \A t \in Threads : my[t].blk \in Blocks \union {NoBlock}
  /\ \A s \in Slots : Returned(s) \subseteq Blocks
<1>1. \A x \in Spots : Whereabouts[x] \subseteq Blocks
  BY Gathered DEF Union
<1>2. held \subseteq Blocks /\ lost \subseteq Blocks
  BY <1>1, WhereIs, SpotsAre
<1>3. ASSUME NEW t \in Threads, NEW c \in Classes, NEW k \in Banks
      PROVE  BlksIn(cache[t][c][k]) \subseteq Blocks
  <2>1. <<"bank", t, c, k>> \in Spots /\ Whereabouts[<<"bank", t, c, k>>] = BlksIn(cache[t][c][k])
    BY WhereIs, SpotsAre
  <2>2. QED BY <1>1, <2>1
<1>4. ASSUME NEW t \in Threads PROVE my[t].blk \in Blocks \union {NoBlock}
  <2>1. <<"hand", t>> \in Spots /\ Whereabouts[<<"hand", t>>] = {my[t].blk} \ {NoBlock}
    BY WhereIs, SpotsAre
  <2>2. QED BY <1>1, <2>1
<1>5. \A s \in Slots : Returned(s) \subseteq Blocks
  BY DEF Blocks
<1>6. QED BY <1>2, <1>3, <1>4, <1>5

(* The entries of the caches.                                               *)
Entered == UNION {Caches(t) : t \in Threads}

LEMMA EntryIn ==
  /\ \A e : e \in Entered <=>
       \E t \in Threads, c \in Classes, k \in Banks : e \in Members(cache[t][c][k])
  /\ \A e : e \in Entered' <=>
       \E t \in Threads, c \in Classes, k \in Banks : e \in Members(cache'[t][c][k])
<1>1. \A e : e \in Entered <=>
       \E t \in Threads, c \in Classes, k \in Banks : e \in Members(cache[t][c][k])
  BY DEF Entered, Caches
<1>2. \A e : e \in Entered' <=>
       \E t \in Threads, c \in Classes, k \in Banks : e \in Members(cache'[t][c][k])
  BY DEF Entered, Caches, Members
<1>3. QED BY <1>1, <1>2

(* A good state before and after a step, and the images before it.          *)
Framed == DOMAIN pm = Slots /\ \A s \in Slots : DOMAIN pm[s] = {"phase", "meta", "table"}
Fine == Ctx /\ Good' /\ Images

Unmorphed(s) == \A t \in Threads : Morphs(t) => my[t].cur # s
Carries(s) ==
  /\ Still(s) => Still(s)'
  /\ \A w : Moves(s, w) => Moves(s, w)'
Fewer(s) ==
  /\ v'[s].sc = v[s].sc /\ v'[s].scb = v[s].scb /\ pm'[s] = pm[s]
  /\ HeldOf(s)' \subseteq HeldOf(s) /\ Of(s)' \subseteq Of(s) /\ Kept(s)' \subseteq Kept(s)

LEMMA FewerCarries ==
  ASSUME NEW s, Fewer(s)
  PROVE  Carries(s)
BY DEF Fewer, Carries, Still, Moves, Settled, Shifting, Noted, Tabulated, Listing, Known

LEMMA MorphsIn ==
  ASSUME Locks, NEW t \in Threads, Morphs(t)
  PROVE  my[t].cur \in Slots /\ slabLock[my[t].cur] = t /\ pc[t] \in InMorph
<1>1. pc[t] \in InMorph
  BY DEF Morphs, InMorph
<1>2. QED BY <1>1, MorphCur

(* A step of a thread that is not morphing.                                 *)
LEMMA ImagesStep ==
  ASSUME Fine, NEW t, Others(t), t \in Threads => ~Morphs(t) /\ ~Morphs(t)',
         Framed', \A s \in Slots : Carries(s) \/ (Unmorphed(s) /\ Still(s)')
  PROVE  Images'
<1>1. ASSUME NEW u \in Threads
      PROVE  /\ Morphs(u)' <=> Morphs(u)
             /\ Morphs(u) => my'[u].cur = my[u].cur /\ pc'[u] = pc[u]
  <2>1. CASE u = t
    BY <2>1 DEF Morphs, InMorph
  <2>2. CASE u # t
    BY <2>2 DEF Morphs, Others
  <2>3. QED BY <2>1, <2>2
<1>2. ASSUME NEW s \in Slots, Unmorphed(s)' PROVE Still(s)'
  <2>1. Unmorphed(s)
    BY <1>1, <1>2 DEF Unmorphed
  <2>2. Still(s)
    BY <2>1 DEF Fine, Images, Unmorphed
  <2>3. QED BY <2>2 DEF Carries
<1>3. ASSUME NEW u \in Threads, Morphs(u)' PROVE Moves(my[u].cur, pc[u])'
  <2>1. Morphs(u) /\ my'[u].cur = my[u].cur /\ pc'[u] = pc[u]
    BY <1>1, <1>3
  <2> PICK x, w : x = my[u].cur /\ w = pc[u]
    OBVIOUS
  <2>2. x \in Slots /\ Moves(x, w)
    BY <2>1, MorphsIn DEF Fine, Images, Ctx
  <2>3. ~Unmorphed(x)
    BY <2>1 DEF Unmorphed
  <2>4. Moves(x, w)'
    BY <2>2, <2>3 DEF Carries
  <2>5. x = my'[u].cur /\ w = pc'[u]
    BY <2>1
  <2>6. QED BY <2>4, <2>5 DEF Moves, Shifting, HeldOf, Of, Kept
<1>4. QED BY <1>2, <1>3 DEF Images, Framed, Unmorphed
(* No block goes anywhere a client, a cache or the images see.              *)
LEMMA StillImages ==
  ASSUME Fine, NEW t, Others(t),
         t \in Threads => /\ ~Morphs(t) /\ ~Morphs(t)'
                          /\ my'[t].blk \in Blocks \union {NoBlock},
         pm' = pm, cache' = cache, held' \subseteq held, lost' = lost,
         \A s \in Slots : /\ v'[s].sc = v[s].sc /\ v'[s].scb = v[s].scb
                          /\ Returned(s)' \subseteq Blocks
  PROVE  Images'
<1>1. Blocks' \subseteq Blocks
  <2>1. \A u \in Threads : my'[u].blk \in Blocks \union {NoBlock}
    BY InBlocks DEF Others
  <2>2. \A u \in Threads, c \in Classes, k \in Banks : BlksIn(cache'[u][c][k]) \subseteq Blocks
    BY InBlocks
  <2>3. held' \subseteq Blocks /\ lost' \subseteq Blocks
    BY InBlocks
  <2>4. QED BY <2>1, <2>2, <2>3, BlocksFrom
<1>2. \A s \in Slots : Fewer(s)
  <2>1. TAKE s \in Slots
  <2>2. HeldOf(s)' \subseteq HeldOf(s)
    BY DEF HeldOf
  <2>3. Of(s)' \subseteq Of(s)
    BY <1>1 DEF Of
  <2>4. Kept(s)' \subseteq Kept(s)
    BY DEF Kept, Caches
  <2>5. QED BY <2>2, <2>3, <2>4 DEF Fewer
<1>3. Framed'
  BY DEF Framed, Fine, Images
<1>4. QED BY <1>2, <1>3, FewerCarries, ImagesStep

LEMMA CalmImages ==
  ASSUME Fine, NEW t \in Threads, NEW p, NEW w, Be(t, p, w) \/ (Go(t, p) /\ my' = my),
         pc[t] \notin InMorph, p \notin InMorph, p \notin InHand, UNCHANGED <<memVars, cacheVars>>
  PROVE  Images'
<1>1. Ctx /\ Locks /\ Locks' /\ Hands'
  BY DEF Fine, Good, Ctx
<1>2. Steps(t)
  BY <1>1, BeSteps
<1>3. pc'[t] = p
  BY <1>1, PcSet DEF Be, Go
<1>4. my'[t].blk = NoBlock
  BY <1>1, <1>3 DEF Hands, HandOK
<1>5. v' = v /\ pm' = pm /\ cache' = cache /\ held' = held /\ lost' = lost
  BY DEF memVars, cacheVars
<1>6. Others(t)
  BY <1>2 DEF Others, Steps
<1>7. \A s \in Slots : Returned(s)' \subseteq Blocks
  BY <1>5, InBlocks DEF Returned
<1>8. ~Morphs(t) /\ ~Morphs(t)'
  BY <1>3 DEF Morphs, InMorph
<1>9. QED BY <1>4, <1>5, <1>6, <1>7, <1>8, StillImages

LEMMA DoneImages ==
  ASSUME Fine, NEW t \in Threads, Done(t), pc[t] \notin InMorph, UNCHANGED <<memVars, cacheVars>>
  PROVE  Images'
<1>1. my[t].then \in {"idle", "putback"}
  BY CtxFacts, WorkType DEF Fine
<1>2. Be(t, my[t].then, NoWork) /\ my[t].then \notin InMorph /\ my[t].then \notin InHand
  BY <1>1 DEF Done, Rest, InMorph, InHand
<1>3. QED BY <1>2, CalmImages

LEMMA FillImages ==
  ASSUME Fine, NEW t \in Threads,
         \/ \E c \in Classes : MallocMiss(t, c)
         \/ PopNone(t) \/ SetLen(t) \/ Touch(t) \/ PopFull(t) \/ Get(t) \/ Search(t)
         \/ WalkEnd(t) \/ WalkOn(t) \/ Insert(t)
  PROVE  Images'
<1> USE DEF InMorph, InHand
<1>1. ASSUME NEW c \in Classes, MallocMiss(t, c) PROVE Images'
  <2> DEFINE first == IF now[c] = Root THEN Front(bin[c]) ELSE now[c]
             w == [NoWork EXCEPT !.cls = c, !.cur = first]
             p == IF first = Root THEN "get" ELSE "visit"
  <2>1. /\ pc[t] = "idle" /\ Be(t, p, w)
        /\ UNCHANGED <<memVars, bin, lruVars, cacheVars, moveVars, slabLock, lruLock, remVars>>
    BY Zenon, <1>1 DEF MallocMiss
  <2> HIDE DEF w, first
  <2>2. QED BY <2>1, CalmImages
<1>2. ASSUME PopNone(t) PROVE Images'
  <2> DEFINE c == my[t].cls
             s == my[t].cur
             n == IF After(bin[c], s) = Root THEN Front(bin[c]) ELSE After(bin[c], s)
             w == [my[t] EXCEPT !.cur = IF n = now[c] THEN Root ELSE n]
             p == IF n = now[c] THEN "get" ELSE "visit"
  <2>1. /\ AtSlab(t) /\ Be(t, p, w)
        /\ UNCHANGED <<memVars, listVars, lruVars, cacheVars, moveVars, binLock, lruLock, remVars>>
    BY Zenon, <1>2 DEF PopNone
  <2>2. pc[t] \in {"pop", "visit"}
    BY <2>1 DEF AtSlab
  <2> HIDE DEF w, n
  <2>3. QED BY <2>1, <2>2, CalmImages
<1>3. ASSUME SetLen(t) PROVE Images'
  <2> DEFINE w == [my[t] EXCEPT !.val = 0]
  <2>1. pc[t] = "len" /\ Be(t, my[t].next, w) /\ UNCHANGED <<memVars, cacheVars>>
    BY <1>3 DEF SetLen
  <2>2. my[t].next \in AfterLen
    BY <2>1 DEF Fine, Ctx, Locks, ThreadOK
  <2> HIDE DEF w
  <2>3. QED BY <2>1, <2>2, CalmImages DEF AfterLen
<1>4. ASSUME Touch(t) PROVE Images'
  <2>1. pc[t] = "touch" /\ Go(t, "pop") /\ my' = my /\ UNCHANGED <<memVars, cacheVars>>
    BY <1>4 DEF Touch
  <2>2. QED BY <2>1, CalmImages
<1>5. ASSUME PopFull(t) PROVE Images'
  <2> DEFINE w == [NoWork EXCEPT !.cls = my[t].cls]
  <2>1. pc[t] = "full" /\ Be(t, "take", w) /\ UNCHANGED <<memVars, cacheVars>>
    BY <1>5 DEF PopFull
  <2> HIDE DEF w
  <2>2. QED BY <2>1, CalmImages
<1>6. ASSUME Get(t) PROVE Images'
  <2>1. PICK p \in {"search", "create"} :
          pc[t] = "get" /\ Go(t, p) /\ my' = my /\ UNCHANGED <<memVars, cacheVars>>
    BY <1>6 DEF Get
  <2>2. QED BY <2>1, CalmImages
<1>7. ASSUME Search(t) PROVE Images'
  <2> DEFINE w == [my[t] EXCEPT !.cur = Front(lru)]
  <2>1. pc[t] = "search" /\ Be(t, "walk", w) /\ UNCHANGED <<memVars, cacheVars>>
    BY <1>7 DEF Search
  <2> HIDE DEF w
  <2>2. QED BY <2>1, CalmImages
<1>8. ASSUME WalkEnd(t) PROVE Images'
  <2> DEFINE w == [my[t] EXCEPT !.cur = Root]
  <2>1. pc[t] = "walk" /\ Be(t, "create", w) /\ UNCHANGED <<memVars, cacheVars>>
    BY <1>8 DEF WalkEnd
  <2> HIDE DEF w
  <2>2. QED BY <2>1, CalmImages
<1>9. ASSUME WalkOn(t) PROVE Images'
  <2> DEFINE w == [my[t] EXCEPT !.cur = After(lru, my[t].cur)]
  <2>1. /\ pc[t] = "walk" /\ ((Go(t, "seize") /\ my' = my) \/ Be(t, "walk", w))
        /\ UNCHANGED <<memVars, cacheVars>>
    BY <1>9 DEF WalkOn
  <2> HIDE DEF w
  <2>2. CASE Go(t, "seize") /\ my' = my
    <3>1. Be(t, "seize", w) \/ (Go(t, "seize") /\ my' = my)
      BY <2>2
    <3>2. pc[t] = "walk" /\ UNCHANGED <<memVars, cacheVars>>
      BY <2>1
    <3>3. QED BY <3>1, <3>2, CalmImages
  <2>3. CASE Be(t, "walk", w)
    BY <2>1, <2>3, CalmImages
  <2>4. QED BY <2>1, <2>2, <2>3
<1>10. ASSUME Insert(t) PROVE Images'
  <2>1. pc[t] = "insert" /\ Go(t, "visit") /\ my' = my /\ UNCHANGED <<memVars, cacheVars>>
    BY <1>10 DEF Insert
  <2>2. pc[t] \notin InMorph /\ "visit" \notin InMorph /\ "visit" \notin InHand
    BY <2>1
  <2>3. Be(t, "visit", my[t]) \/ (Go(t, "visit") /\ my' = my)
    BY <2>1
  <2> HIDE DEF InMorph, InHand
  <2>4. QED BY <2>1, <2>2, <2>3, CalmImages
<1>11. QED
  BY <1>1, <1>2, <1>3, <1>4, <1>5, <1>6, <1>7, <1>8, <1>9, <1>10

LEMMA ReturnImages ==
  ASSUME Fine, NEW t \in Threads,
         Migrate(t) \/ Settle(t) \/ Freed(t) \/ Relist(t) \/ Unlink(t) \/ Enlist(t)
  PROVE  Images'
<1> USE DEF InMorph, InHand
<1>1. ASSUME Migrate(t) PROVE Images'
  <2>1. pc[t] = "idle" /\ Be(t, "putback", NoWork) /\ UNCHANGED <<memVars, cacheVars>>
    BY <1>1 DEF Migrate, Rest
  <2>2. QED BY <2>1, CalmImages
<1>2. ASSUME Settle(t) PROVE Images'
  <2>1. pc[t] = "putback" /\ Be(t, "idle", NoWork) /\ UNCHANGED <<memVars, cacheVars>>
    BY <1>2 DEF Settle, Rest
  <2>2. QED BY <2>1, CalmImages
<1>3. ASSUME Freed(t) PROVE Images'
  <2> DEFINE w == [my[t] EXCEPT !.next = "drop"]
  <2>1. Be(t, "unlink", w) \/ Done(t)
    BY <1>3 DEF Freed
  <2>2. pc[t] = "freed" /\ UNCHANGED <<memVars, cacheVars>>
    BY <1>3 DEF Freed
  <2> HIDE DEF w
  <2>3. QED BY <2>1, <2>2, CalmImages, DoneImages
<1>4. ASSUME Relist(t) PROVE Images'
  <2>1. pc[t] = "relist" /\ Done(t) /\ UNCHANGED <<memVars, cacheVars>>
    BY <1>4 DEF Relist
  <2>2. QED BY <2>1, DoneImages
<1>5. ASSUME Unlink(t) PROVE Images'
  <2>1. pc[t] = "unlink" /\ Go(t, "check") /\ my' = my /\ UNCHANGED <<memVars, cacheVars>>
    BY <1>5 DEF Unlink
  <2>2. QED BY <2>1, CalmImages
<1>6. ASSUME Enlist(t) PROVE Images'
  <2>1. pc[t] = "enlist" /\ Done(t) /\ UNCHANGED <<memVars, cacheVars>>
    BY <1>6 DEF Enlist
  <2>2. QED BY <2>1, DoneImages
<1>7. QED BY <1>1, <1>2, <1>3, <1>4, <1>5, <1>6
(* The block in hand has the index that was computed for it.                *)
LEMMA HandIndex ==
  ASSUME Ctx, NEW t \in Threads, NEW s, s = my[t].cur, pc[t] \in {"unset", "new", "far"},
         slabLock[s] = None, v[s].sc = my[t].sc, my[t].blk.len = Size[v[s].sc.cls]
  PROVE  /\ my[t].blk = Block(s, v[s].sc, my[t].idx) /\ my[t].idx \in Indices
         /\ Exact(s, v[s], Of(s)) /\ s \in Slots /\ v[s] \in Vslabs /\ my[t].blk \in Blocks
<1> DEFINE r == v[s]
           b == my[t].blk
           i == my[t].idx
<1>1. /\ s \in Slots /\ r \in Vslabs /\ r.live /\ b \in Of(s) /\ b \in Blocks
      /\ i = Index(r.sc, b.at) /\ my[t] \in Works
  BY HandBlock, CtxFacts, GoodTypes DEF InHand, HandOK
<1>2. \A u \in Threads : pc[u] \in InMorph => my[u].cur # s
  BY <1>1, NotInMorph, CtxFacts DEF InMorph
<1>3. Exact(s, r, Of(s))
  BY <1>1, <1>2, AtRest, CtxFacts
<1>4. Placed(s, r, b)
  BY <1>1, <1>3 DEF Exact
<1>5. b = Block(s, r.sc, i) /\ i \in 0 .. r.sc.n - 1
  BY <1>1, <1>4, OwnBlock
<1>6. i \in Indices
  <2>1. r.sc \in LayoutSet /\ Indices = 0 .. SlabSize /\ SlabSize \in Nat
    BY <1>1, SlabType
  <2>2. r.sc.n \in Nat /\ r.sc.n < SlabSize
    BY <2>1, LayoutType
  <2> HIDE DEF i, r
  <2>3. QED BY <1>5, <2>1, <2>2
<1>7. QED BY <1>1, <1>3, <1>5, <1>6

LEMMA FarFreeImages ==
  ASSUME Fine, NEW t \in Threads, NEW b \in held, FarFree(t, b)
  PROVE  Images'
<1> DEFINE w == [NoWork EXCEPT !.cur = b.slab, !.blk = b, !.sc = v[b.slab].sc,
                               !.idx = Index(v[b.slab].sc, b.at)]
<1>1. /\ pc[t] = "idle" /\ v' = v /\ pm' = pm /\ lost' = lost
      /\ cache' = cache /\ held' = held \ {b} /\ Be(t, "far", w)
  BY DEF FarFree, memVars
<1>2. b \in Blocks
  BY DEF Blocks
<1>3. w \in Works /\ w.blk = b
  <2> DEFINE s == b.slab
             sc == v[s].sc
             i == Index(sc, b.at)
  <2>1. s \in Slots /\ b \in Blks /\ b.at \in Nat /\ sc \in LayoutSet
    BY <1>2, CtxFacts, BlockTypes, GoodTypes, SlabType DEF Fine
  <2>2. i \in Int
    BY <2>1, IndexType
  <2> HIDE DEF sc, i
  <2> DEFINE x == [NoWork EXCEPT !.cur = s, !.blk = b, !.sc = sc, !.idx = i]
  <2>3. x \in Works /\ x.blk = b
    BY <2>1, <2>2, PlainType DEF Works
  <2>4. w = x
    BY DEF i, sc
  <2>5. QED BY <2>3, <2>4
<1> HIDE DEF w
<1>4. Others(t) /\ my'[t].blk = b /\ pc'[t] = "far"
  <2>1. Steps(t) /\ my'[t] = w /\ pc'[t] = "far"
    BY <1>1, <1>3, CtxFacts, WorkSet, PcSet, BeSteps DEF Be, Ctx, Fine
  <2>2. QED BY <1>3, <2>1 DEF Steps, Others
<1>5. \A s \in Slots : Returned(s)' \subseteq Blocks
  BY <1>1, InBlocks DEF Returned
<1>6. ~Morphs(t) /\ ~Morphs(t)'
  BY <1>1, <1>4 DEF Morphs
<1>7. QED BY <1>1, <1>2, <1>4, <1>5, <1>6, StillImages

LEMMA FreeNewImages ==
  ASSUME Fine, NEW t \in Threads, FreeNew(t)
  PROVE  Images'
<1> PICK s : s = my[t].cur
  OBVIOUS
<1> DEFINE q == [v[s] EXCEPT !.used = @ \ {my[t].idx}, !.nbits = @ - 1]
           w1 == [my[t] EXCEPT !.val = morphLen + 1, !.next = "freed", !.blk = NoBlock]
           w2 == [my[t] EXCEPT !.blk = NoBlock]
<1>1. /\ pc[t] = "new" /\ v' = [v EXCEPT ![s] = q] /\ pm' = pm
      /\ Be(t, "len", w1) \/ Be(t, "freed", w2)
      /\ UNCHANGED cacheVars
  BY Zenon DEF FreeNew
<1> HIDE DEF w1, w2
<1>2. /\ cache' = cache /\ held' = held /\ lost' = lost
  BY <1>1 DEF cacheVars
<1>3. Ctx /\ Locks /\ Locks' /\ Hands' /\ s \in Slots /\ v \in [Slots -> Vslabs]
  BY <1>1, CtxFacts DEF Fine, Good, Ctx, OnSlab, Types
<1>4. Others(t) /\ pc'[t] \in {"len", "freed"}
  <2>1. Steps(t)
    BY <1>1, <1>3, BeSteps
  <2>2. QED BY <1>1, <1>3, <2>1, PcSet DEF Be, Steps, Others
<1>5. my'[t].blk = NoBlock
  BY <1>3, <1>4 DEF Hands, HandOK, InHand
<1>6. \A x \in Slots : v'[x].sc = v[x].sc /\ v'[x].scb = v[x].scb /\ v'[x].rb = v[x].rb
  <2>1. v[s] \in Vslabs
    BY <1>3
  <2>2. q.sc = v[s].sc /\ q.scb = v[s].scb /\ q.rb = v[s].rb
    BY <2>1 DEF Vslabs
  <2> HIDE DEF q
  <2>3. QED BY <1>1, <1>3, <2>2
<1> HIDE DEF q
<1>7. \A x \in Slots : Returned(x)' \subseteq Blocks
  BY <1>6, InBlocks DEF Returned
<1>8. ~Morphs(t) /\ ~Morphs(t)'
  BY <1>1, <1>4 DEF Morphs
<1>9. QED BY <1>1, <1>2, <1>4, <1>5, <1>6, <1>7, <1>8, StillImages

LEMMA FarMarkImages ==
  ASSUME Fine, NEW t \in Threads, FarMark(t), ~Outdated(t)
  PROVE  Images'
<1> PICK s : s = my[t].cur
  OBVIOUS
<1> PICK i : i = my[t].idx
  OBVIOUS
<1> DEFINE q == [v[s] EXCEPT !.rdirty = TRUE, !.rb = IF i \in v[s].rb THEN @ \ {i} ELSE @ \union {i}]
           w == [my[t] EXCEPT !.blk = NoBlock]
<1>1. /\ pc[t] = "far" /\ slabLock[s] = None /\ pm' = pm
      /\ v[s].sc = my[t].sc /\ my[t].blk.len = Size[v[s].sc.cls]
      /\ Done(t) \/ Be(t, "enlist", w)
      /\ UNCHANGED cacheVars
  <2>1. /\ pc[t] = "far" /\ slabLock[s] = None /\ pm' = pm
        /\ Done(t) \/ Be(t, "enlist", w)
        /\ UNCHANGED cacheVars
    BY Zenon DEF FarMark
  <2> HIDE DEF w
  <2>2. QED BY <2>1 DEF Outdated
<1>2. v' = [v EXCEPT ![s].rdirty = TRUE, ![s].rb = IF i \in v[s].rb THEN @ \ {i} ELSE @ \union {i}]
  BY Zenon DEF FarMark
<1> HIDE DEF w
<1>3. /\ cache' = cache /\ held' = held /\ lost' = lost
  BY <1>1 DEF cacheVars
<1>4. Ctx /\ Locks /\ Locks' /\ Hands' /\ v \in [Slots -> Vslabs]
  BY CtxFacts DEF Fine, Good, Ctx, Types
<1>5. my[t].blk = Block(s, v[s].sc, i) /\ my[t].blk \in Blocks /\ s \in Slots /\ v[s] \in Vslabs
  BY <1>1, <1>4, HandIndex
<1>6. Others(t) /\ pc'[t] \in {"enlist", "idle", "putback"}
  <2>1. CASE Done(t)
    <3>1. Steps(t) /\ pc'[t] \in {"idle", "putback"}
      BY <1>4, <2>1, DoneFacts
    <3>2. QED BY <3>1 DEF Steps, Others
  <2>2. CASE Be(t, "enlist", w)
    <3>1. Steps(t) /\ pc'[t] = "enlist"
      BY <1>4, <2>2, BeSteps, PcSet DEF Be
    <3>2. QED BY <3>1 DEF Steps, Others
  <2>3. QED BY <1>1, <2>1, <2>2
<1>7. my'[t].blk = NoBlock
  BY <1>4, <1>6 DEF Hands, HandOK, InHand
<1>8. /\ \A x \in Slots : v'[x].sc = v[x].sc /\ v'[x].scb = v[x].scb
      /\ \A x \in Slots : x # s => v'[x] = v[x]
      /\ v'[s].rb \subseteq v[s].rb \union {i}
  <2>1. q.sc = v[s].sc /\ q.scb = v[s].scb /\ q.rb \subseteq v[s].rb \union {i}
    BY <1>5 DEF Vslabs
  <2>2. v' = [v EXCEPT ![s] = q]
    BY <1>2, <1>4, <1>5 DEF Vslabs
  <2> HIDE DEF q
  <2>3. QED BY <1>4, <1>5, <2>1, <2>2
<1> HIDE DEF q
<1>9. \A x \in Slots : Returned(x)' \subseteq Blocks
  <2>1. Returned(s)' \subseteq Returned(s) \union {my[t].blk}
    BY <1>5, <1>8 DEF Returned
  <2>2. QED BY <1>5, <1>8, <2>1, InBlocks DEF Returned
<1>10. ~Morphs(t) /\ ~Morphs(t)'
  BY <1>1, <1>6 DEF Morphs
<1>11. QED BY <1>1, <1>3, <1>6, <1>7, <1>8, <1>9, <1>10, StillImages
LEMMA WakeImages ==
  ASSUME Fine, Wake \/ FlushEnd
  PROVE  Images'
<1>1. UNCHANGED <<memVars, cacheVars, pc, my>>
  BY DEF Wake, FlushEnd
<1>2. v' = v /\ pm' = pm /\ cache' = cache /\ held' = held /\ lost' = lost /\ Others(Flusher)
  BY <1>1 DEF memVars, cacheVars, Others
<1>3. \A x \in Slots : Returned(x)' \subseteq Blocks
  BY <1>2, InBlocks DEF Returned
<1>4. Flusher \notin Threads
  BY Names
<1>5. QED BY <1>2, <1>3, <1>4, StillImages

(* What clients and caches have of a slab is out of it.                     *)
LEMMA KeptOf ==
  /\ \A s : HeldOf(s) \subseteq Of(s)
  /\ \A s : \A e \in Kept(s) : e.blk \in Of(s)
<1>1. \A s : HeldOf(s) \subseteq Of(s)
  BY InBlocks DEF HeldOf, Of
<1>2. ASSUME NEW s, NEW e \in Kept(s) PROVE e.blk \in Of(s)
  <2>1. e \in Entered /\ e.blk.slab = s
    BY DEF Kept, Entered
  <2>2. PICK u \in Threads, c \in Classes, k \in Banks : e \in Members(cache[u][c][k])
    BY <2>1, EntryIn
  <2>3. e.blk \in BlksIn(cache[u][c][k])
    BY <2>2 DEF Members, BlksIn
  <2>4. QED BY <2>1, <2>3, InBlocks DEF Of
<1>3. QED BY <1>1, <1>2

(* The image of a slab no block is out of starts afresh.                    *)
Blank(s) ==
  /\ s \in Slots /\ Of(s) = {} /\ Unmorphed(s)
  /\ pm' = [pm EXCEPT ![s] = NewImage] /\ cache' = cache /\ held' = held /\ lost' = lost
  /\ \A x \in Slots : x # s => v'[x] = v[x]
  /\ v'[s].rb = {}

LEMMA BlankImages ==
  ASSUME Fine, NEW t \in Threads, Others(t), ~Morphs(t), ~Morphs(t)', my'[t].blk = NoBlock,
         NEW s, Blank(s)
  PROVE  Images'
<1>1. Blocks' \subseteq Blocks
  <2>1. \A u \in Threads : my'[u].blk \in Blocks \union {NoBlock}
    BY InBlocks DEF Others
  <2>2. \A u \in Threads, c \in Classes, k \in Banks : BlksIn(cache'[u][c][k]) \subseteq Blocks
    BY InBlocks DEF Blank
  <2>3. held' \subseteq Blocks /\ lost' \subseteq Blocks
    BY InBlocks DEF Blank
  <2>4. ASSUME NEW x \in Slots PROVE Returned(x)' \subseteq Blocks
    <3>1. CASE x = s
      BY <3>1 DEF Blank, Returned
    <3>2. CASE x # s
      <4>1. v'[x] = v[x]
        BY <3>2 DEF Blank
      <4>2. QED BY <4>1, InBlocks DEF Returned
    <3>3. QED BY <3>1, <3>2
  <2>5. QED BY <2>1, <2>2, <2>3, <2>4, BlocksFrom
<1>2. \A x : Of(x)' \subseteq Of(x)
  BY <1>1 DEF Of
<1>3. \A x : HeldOf(x)' = HeldOf(x) /\ Kept(x)' = Kept(x)
  BY DEF HeldOf, Kept, Caches, Blank
<1>4. Framed /\ Framed'
  <2>1. Framed
    BY DEF Framed, Fine, Images
  <2>2. DOMAIN NewImage = {"phase", "meta", "table"}
    BY DEF NewImage
  <2>3. QED BY <2>1, <2>2 DEF Framed, Blank
<1>5. ASSUME NEW x \in Slots, x # s PROVE Carries(x)
  <2>1. v'[x] = v[x] /\ pm'[x] = pm[x]
    BY <1>4, <1>5 DEF Blank, Framed
  <2>2. QED BY <1>2, <1>3, <2>1, FewerCarries DEF Fewer
<1>6. Still(s)'
  <2>1. pm'[s] = NewImage
    BY <1>4 DEF Blank, Framed
  <2>2. pm'[s].phase = 0
    BY <2>1 DEF NewImage
  <2>3. Of(s)' = {}
    BY <1>2 DEF Blank
  <2>4. HeldOf(s) = {} /\ Kept(s) = {}
    BY KeptOf DEF Blank
  <2>5. QED
    BY <1>3, <2>2, <2>3, <2>4 DEF Still, Settled, Noted, Tabulated, Known
<1>7. \A x \in Slots : Carries(x) \/ (Unmorphed(x) /\ Still(x)')
  BY <1>5, <1>6 DEF Blank
<1>8. QED BY <1>4, <1>7, ImagesStep
LEMMA CheckImages ==
  ASSUME Fine, NEW t \in Threads, Check(t), failed' = "no"
  PROVE  Images'
<1> PICK s : s = my[t].cur
  OBVIOUS
<1>0. Ctx
  BY DEF Fine
<1>1. pc[t] = "check" /\ UNCHANGED cacheVars
  BY Zenon DEF Check
<1>2. s \in Slots /\ v[s].live
  BY <1>0, <1>1, CtxFacts DEF OnSlab, OnLive
<1>3. CASE v[s].nbits = 0 /\ my[t].next = "drop"
  <2>1. Go(t, "drop") /\ my' = my /\ UNCHANGED memVars
    BY Zenon, <1>3 DEF Check
  <2>2. /\ pc[t] \notin InMorph /\ "drop" \notin InMorph /\ "drop" \notin InHand
        /\ UNCHANGED <<memVars, cacheVars>>
    BY <1>1, <2>1 DEF InMorph, InHand
  <2>3. QED BY <2>1, <2>2, CalmImages
<1>4. CASE v[s].nbits = 0 /\ my[t].next # "drop"
  <2>1. Done(t) /\ Destroy(t, s, lru)
    BY Zenon, <1>4 DEF Check
  <2>2. Unused(t, s)
    BY <1>0, <1>1, <1>2, <2>1, DestroyFacts
  <2>3. Blank(s)
    <3>1. pm' = [pm EXCEPT ![s] = NewImage]
      BY Zenon, <2>1 DEF Destroy
    <3>2. Of(s) = {} /\ Unmorphed(s) /\ \A x \in Slots : x # s => v'[x] = v[x]
      BY <2>2 DEF Unused, Unmorphed, Morphs, InMorph
    <3>3. v'[s].rb = {}
      BY <2>2, NewSlabIs DEF Unused
    <3>4. QED BY <1>1, <1>2, <3>1, <3>2, <3>3 DEF Blank, cacheVars
  <2>4. Others(t) /\ ~Morphs(t) /\ ~Morphs(t)' /\ my'[t].blk = NoBlock
    BY <1>0, <1>1, <2>1, DoneFacts DEF Steps, Others, Morphs
  <2>5. QED BY <2>3, <2>4, BlankImages
<1>5. CASE v[s].nbits # 0
  <2>1. Done(t) /\ UNCHANGED memVars
    BY Zenon, <1>5 DEF Check
  <2>2. QED BY <1>1, <2>1, DoneImages DEF InMorph
<1>6. QED BY <1>3, <1>4, <1>5

LEMMA DropImages ==
  ASSUME Fine, NEW t \in Threads, Drop(t), failed' = "no"
  PROVE  Images'
<1> PICK s : s = my[t].cur
  OBVIOUS
<1>0. Ctx
  BY DEF Fine
<1>1. pc[t] = "drop" /\ Done(t) /\ Destroy(t, s, Without(lru, s)) /\ UNCHANGED cacheVars
  <2>1. /\ pc[t] = "drop" /\ Done(t) /\ UNCHANGED cacheVars
        /\ IF s \in Members(lru) THEN Destroy(t, s, Without(lru, s))
           ELSE failed' = "LRU_dlnode" /\ UNCHANGED memVars
    BY Zenon DEF Drop
  <2>2. QED BY <2>1
<1>2. s \in Slots /\ v[s].live
  BY <1>0, <1>1, CtxFacts DEF OnSlab, OnLive
<1>3. Unused(t, s)
  BY <1>0, <1>1, <1>2, DestroyFacts
<1>4. Blank(s)
  <2>1. pm' = [pm EXCEPT ![s] = NewImage]
    BY Zenon, <1>1 DEF Destroy
  <2>2. Of(s) = {} /\ Unmorphed(s) /\ \A x \in Slots : x # s => v'[x] = v[x]
    BY <1>3 DEF Unused, Unmorphed, Morphs, InMorph
  <2>3. v'[s].rb = {}
    BY <1>3, NewSlabIs DEF Unused
  <2>4. QED BY <1>1, <1>2, <2>1, <2>2, <2>3 DEF Blank, cacheVars
<1>5. Others(t) /\ ~Morphs(t) /\ ~Morphs(t)' /\ my'[t].blk = NoBlock
  BY <1>0, <1>1, DoneFacts DEF Steps, Others, Morphs
<1>6. QED BY <1>4, <1>5, BlankImages

LEMMA CreateImages ==
  ASSUME Fine, NEW t \in Threads, Create(t)
  PROVE  Images'
<1> PICK s : s = Min({x \in Slots : ~v[x].live})
  OBVIOUS
<1> DEFINE q == NewSlab(my[t].cls)
           w == [my[t] EXCEPT !.cur = s]
<1>0. Ctx /\ Locks /\ Locks' /\ Hands' /\ v \in [Slots -> Vslabs]
  BY CtxFacts DEF Fine, Good, Ctx, Types
<1>1. /\ pc[t] = "create" /\ {x \in Slots : ~v[x].live} # {}
      /\ v' = [v EXCEPT ![s] = q] /\ pm' = [pm EXCEPT ![s] = NewImage] /\ Be(t, "insert", w)
      /\ UNCHANGED cacheVars
  BY Zenon DEF Create
<1> HIDE DEF w
<1>2. s \in Slots /\ ~v[s].live
  <2>1. {x \in Slots : ~v[x].live} \in SUBSET Nat
    BY SlabsAssumption DEF Slots
  <2>2. QED BY <1>1, <2>1, MinIn
<1>3. Of(s) = {}
  BY <1>0, <1>2, BlockLive, CtxFacts DEF Of
<1>4. Unmorphed(s)
  BY <1>0, <1>2, CtxFacts DEF OnLive, Unmorphed, Morphs, OnSlab
<1>5. q.rb = {}
  BY <1>0, CtxFacts, NewSlabIs, WorkType
<1> HIDE DEF q
<1>6. Blank(s)
  BY <1>0, <1>1, <1>2, <1>3, <1>4, <1>5 DEF Blank, cacheVars
<1>7. Steps(t) /\ pc'[t] = "insert"
  BY <1>0, <1>1, BeSteps, PcSet DEF Be
<1>8. Others(t) /\ ~Morphs(t) /\ ~Morphs(t)'
  BY <1>1, <1>7 DEF Steps, Others, Morphs
<1>9. my'[t].blk = NoBlock
  BY <1>0, <1>7 DEF Hands, HandOK, InHand
<1>10. QED BY <1>6, <1>8, <1>9, BlankImages

LEMMA ReuseImages ==
  ASSUME Fine, NEW t \in Threads, Reuse(t)
  PROVE  Images'
<1> PICK s : s = my[t].cur
  OBVIOUS
<1> DEFINE q == NewSlab(my[t].cls)
           w == [NoWork EXCEPT !.cls = my[t].cls, !.cur = s]
<1>0. Ctx /\ Locks /\ Locks' /\ Hands' /\ v \in [Slots -> Vslabs]
  BY CtxFacts DEF Fine, Good, Ctx, Types
<1>1. /\ pc[t] = "unbin" /\ my[t].old = {}
      /\ v' = [v EXCEPT ![s] = q] /\ pm' = [pm EXCEPT ![s] = NewImage] /\ Be(t, "visit", w)
      /\ UNCHANGED cacheVars
  BY Zenon DEF Reuse
<1> HIDE DEF w
<1>2. s \in Slots /\ slabLock[s] = t
  BY <1>0, <1>1, AtMorph
<1>3. Unmorphed(s)
  <2>1. ~Morphs(t)
    BY <1>1 DEF Morphs
  <2>2. QED BY <1>0, <1>2, <2>1, MorphsIn DEF Unmorphed
<1>4. Of(s) = {}
  <2>1. Exact(s, v[s], Of(s))
    BY <1>0, <1>2, <1>3 DEF Ctx, Good, Slabwise, Unmorphed
  <2>2. v[s].used = {}
    BY <1>0, <1>1, CtxFacts DEF MorphOK
  <2>3. QED BY <2>1, <2>2, ExactFacts
<1>5. q.rb = {}
  BY <1>0, CtxFacts, NewSlabIs, WorkType
<1> HIDE DEF q
<1>6. Blank(s)
  BY <1>0, <1>1, <1>2, <1>3, <1>4, <1>5 DEF Blank, cacheVars
<1>7. Steps(t) /\ pc'[t] = "visit"
  BY <1>0, <1>1, BeSteps, PcSet DEF Be
<1>8. Others(t) /\ ~Morphs(t) /\ ~Morphs(t)'
  BY <1>1, <1>7 DEF Steps, Others, Morphs
<1>9. my'[t].blk = NoBlock
  BY <1>0, <1>7 DEF Hands, HandOK, InHand
<1>10. QED BY <1>6, <1>8, <1>9, BlankImages
(* A step of the thread that morphs slab s, or begins to; p is the image it *)
(* leaves.                                                                  *)
Molds(t, s, p) ==
  /\ s = my[t].cur /\ s \in Slots /\ slabLock[s] \in {None, t}
  /\ Others(t) /\ my'[t].blk = NoBlock /\ (Morphs(t)' => my'[t].cur = s)
  /\ pm' = [pm EXCEPT ![s] = p] /\ DOMAIN p = {"phase", "meta", "table"}
  /\ cache' = cache /\ held' = held /\ lost' = lost
  /\ \A x \in Slots : x # s => v'[x] = v[x]
  /\ v'[s].rb = {}

LEMMA MoldsFrame ==
  ASSUME Fine, NEW t \in Threads, NEW s, NEW p, Molds(t, s, p)
  PROVE  /\ \A x : Of(x)' \subseteq Of(x) /\ HeldOf(x)' = HeldOf(x) /\ Kept(x)' = Kept(x)
         /\ Framed /\ Framed' /\ pm'[s] = p
<1>1. Blocks' \subseteq Blocks
  <2>1. \A u \in Threads : my'[u].blk \in Blocks \union {NoBlock}
    BY InBlocks DEF Others, Molds
  <2>2. \A u \in Threads, c \in Classes, k \in Banks : BlksIn(cache'[u][c][k]) \subseteq Blocks
    BY InBlocks DEF Molds
  <2>3. held' \subseteq Blocks /\ lost' \subseteq Blocks
    BY InBlocks DEF Molds
  <2>4. ASSUME NEW x \in Slots PROVE Returned(x)' \subseteq Blocks
    <3>1. CASE x = s
      BY <3>1 DEF Molds, Returned
    <3>2. CASE x # s
      <4>1. v'[x] = v[x]
        BY <3>2 DEF Molds
      <4>2. QED BY <4>1, InBlocks DEF Returned
    <3>3. QED BY <3>1, <3>2
  <2>5. QED BY <2>1, <2>2, <2>3, <2>4, BlocksFrom
<1>2. \A x : Of(x)' \subseteq Of(x)
  BY <1>1 DEF Of
<1>3. \A x : HeldOf(x)' = HeldOf(x) /\ Kept(x)' = Kept(x)
  BY DEF HeldOf, Kept, Caches, Molds
<1>4. Framed
  BY DEF Framed, Fine, Images
<1>5. Framed' /\ pm'[s] = p
  BY <1>4 DEF Framed, Molds
<1>6. QED BY <1>2, <1>3, <1>4, <1>5

LEMMA MoldsImages ==
  ASSUME Fine, NEW t \in Threads, NEW s, NEW p, Molds(t, s, p),
         NEW w, w = pc'[t],
         Morphs(t)' => Shifting(v'[s], p, HeldOf(s), Of(s)', Kept(s), w),
         ~Morphs(t)' => Settled(v'[s], p, HeldOf(s), Of(s)', Kept(s))
  PROVE  Images'
<1>1. /\ \A x : Of(x)' \subseteq Of(x) /\ HeldOf(x)' = HeldOf(x) /\ Kept(x)' = Kept(x)
      /\ Framed /\ Framed' /\ pm'[s] = p
  BY MoldsFrame
<1>2. ASSUME NEW x \in Slots, x # s PROVE Carries(x)
  <2>1. v'[x] = v[x] /\ pm'[x] = pm[x]
    BY <1>1, <1>2 DEF Molds, Framed
  <2>2. QED BY <1>1, <2>1, FewerCarries DEF Fewer
<1>3. ASSUME NEW u \in Threads \ {t}
      PROVE  /\ Morphs(u)' <=> Morphs(u)
             /\ Morphs(u) => my'[u].cur = my[u].cur /\ pc'[u] = pc[u] /\ my[u].cur # s
  <2>1. pc'[u] = pc[u] /\ my'[u] = my[u]
    BY DEF Molds, Others
  <2>2. Morphs(u) => my[u].cur # s
    BY MorphsIn, Names DEF Molds, Fine, Ctx
  <2>3. QED BY <2>1, <2>2 DEF Morphs
<1>4. ASSUME NEW x \in Slots, Unmorphed(x)' PROVE Still(x)'
  <2>1. CASE x = s
    <3>1. ~Morphs(t)'
      BY <1>4, <2>1 DEF Unmorphed, Molds
    <3>2. QED BY <1>1, <2>1, <3>1 DEF Still
  <2>2. CASE x # s
    <3>1. Unmorphed(x)
      <4>1. ASSUME NEW u \in Threads, Morphs(u) PROVE my[u].cur # x
        <5>1. CASE u = t
          BY <2>2, <5>1 DEF Molds
        <5>2. CASE u # t
          BY <1>3, <1>4, <4>1, <5>2 DEF Unmorphed
        <5>3. QED BY <5>1, <5>2
      <4>2. QED BY <4>1 DEF Unmorphed
    <3>2. Still(x)
      BY <3>1 DEF Fine, Images, Unmorphed
    <3>3. QED BY <1>2, <2>2, <3>2 DEF Carries
  <2>3. QED BY <2>1, <2>2
<1>5. ASSUME NEW u \in Threads, Morphs(u)' PROVE Moves(my[u].cur, pc[u])'
  <2>1. CASE u = t
    <3>1. my'[u].cur = s /\ pc'[u] = w /\ Moves(s, w)'
      BY <1>1, <1>5, <2>1 DEF Molds, Moves
    <3>2. QED BY <3>1 DEF Moves, Shifting, HeldOf, Of, Kept
  <2>2. CASE u # t
    <3>1. Morphs(u) /\ my'[u].cur = my[u].cur /\ pc'[u] = pc[u] /\ my[u].cur # s
      BY <1>3, <1>5, <2>2
    <3> PICK x, y : x = my[u].cur /\ y = pc[u]
      OBVIOUS
    <3>2. x \in Slots /\ Moves(x, y)
      BY <3>1, MorphsIn DEF Fine, Images, Ctx
    <3>3. Moves(x, y)'
      BY <1>2, <3>1, <3>2 DEF Carries
    <3>4. x = my'[u].cur /\ y = pc'[u]
      BY <3>1
    <3>5. QED BY <3>3, <3>4 DEF Moves, Shifting, HeldOf, Of, Kept
  <2>3. QED BY <2>1, <2>2
<1>6. QED BY <1>1, <1>4, <1>5 DEF Images, Framed, Unmorphed

LEMMA UnbinImages ==
  ASSUME Fine, NEW t \in Threads, Unbin(t)
  PROVE  Images'
<1> PICK s : s = my[t].cur
  OBVIOUS
<1> DEFINE q == [v[s] EXCEPT !.used = {}]
           p == [pm[s] EXCEPT !.phase = 3]
<1>0. Ctx /\ Locks /\ Locks' /\ Hands' /\ v \in [Slots -> Vslabs]
  BY CtxFacts DEF Fine, Good, Ctx, Types
<1>1. /\ pc[t] = "unbin" /\ my[t].old # {}
      /\ Go(t, "table") /\ my' = my /\ v' = [v EXCEPT ![s] = q]
      /\ UNCHANGED cacheVars
  BY Zenon DEF Unbin
<1>2. pm' = [pm EXCEPT ![s].phase = 3]
  BY Zenon DEF Unbin
<1>3. /\ s \in Slots /\ my[t].blk = NoBlock /\ v[s] \in Vslabs /\ slabLock[s] = t
  BY <1>0, <1>1, AtMorph
<1>4. Morphs(t) /\ pc'[t] = "table" /\ Others(t)
  <2>1. Steps(t) /\ pc'[t] = "table"
    BY <1>0, <1>1, PcSet, BeSteps DEF Go
  <2>2. QED BY <1>1, <2>1 DEF Morphs, Steps, Others
<1>5. Moves(s, "unbin")
  BY <1>1, <1>4 DEF Fine, Images
<1>6. Moving(s, v[s], Of(s), my[t].old)
  BY <1>0, <1>4, CtxFacts DEF MorphOK
<1>7. q.sc = v[s].sc /\ q.scb = v[s].scb /\ q.rb = {}
  BY <1>3, <1>6 DEF Moving, Vslabs
<1>8. DOMAIN pm = Slots /\ DOMAIN pm[s] = {"phase", "meta", "table"}
  BY <1>3 DEF Fine, Images
<1>9. /\ DOMAIN p = {"phase", "meta", "table"} /\ p.phase = 3 /\ p.meta = pm[s].meta
      /\ pm' = [pm EXCEPT ![s] = p]
  BY <1>2, <1>8
<1> HIDE DEF q, p
<1>10. v'[s] = q /\ \A x \in Slots : x # s => v'[x] = v[x]
  BY <1>0, <1>1, <1>3
<1>11. Molds(t, s, p)
  BY <1>1, <1>3, <1>4, <1>7, <1>9, <1>10 DEF Molds, cacheVars
<1>12. Morphs(t)' /\ pc'[t] = "table"
  BY <1>4 DEF Morphs
<1>13. Shifting(v'[s], p, HeldOf(s), Of(s)', Kept(s), "table")
  BY <1>5, <1>7, <1>9, <1>10 DEF Moves, Shifting, Noted
<1>14. QED BY <1>11, <1>12, <1>13, MoldsImages

LEMMA TableImages ==
  ASSUME Fine, NEW t \in Threads, Table(t)
  PROVE  Images'
<1> PICK s : s = my[t].cur
  OBVIOUS
<1> PICK o : o = my[t].old
  OBVIOUS
<1> DEFINE q == [v[s] EXCEPT !.dnum = [i \in Indices |-> 0]]
           p == Tabled(pm[s], o)
<1>0. Ctx /\ Locks /\ Locks' /\ Hands' /\ v \in [Slots -> Vslabs]
  BY CtxFacts DEF Fine, Good, Ctx, Types
<1>1. /\ pc[t] = "table"
      /\ Go(t, "metas") /\ my' = my /\ v' = [v EXCEPT ![s] = q]
      /\ pm' = [pm EXCEPT ![s] = p]
      /\ UNCHANGED cacheVars
  BY Zenon DEF Table
<1>2. /\ s \in Slots /\ my[t].blk = NoBlock /\ v[s] \in Vslabs /\ slabLock[s] = t
  BY <1>0, <1>1, AtMorph
<1>3. Morphs(t) /\ pc'[t] = "metas" /\ Others(t)
  <2>1. Steps(t) /\ pc'[t] = "metas"
    BY <1>0, <1>1, PcSet, BeSteps DEF Go
  <2>2. QED BY <1>1, <2>1 DEF Morphs, Steps, Others
<1>4. Moves(s, "table")
  BY <1>1, <1>3 DEF Fine, Images
<1>5. Moving(s, v[s], Of(s), o)
  BY <1>0, <1>3, CtxFacts DEF MorphOK
<1>6. q.sc = v[s].sc /\ q.scb = v[s].scb /\ q.rb = {}
  BY <1>2, <1>5 DEF Moving, Vslabs
<1>7. DOMAIN pm[s] = {"phase", "meta", "table"}
  BY <1>2 DEF Fine, Images
<1>8. /\ DOMAIN p = {"phase", "meta", "table"} /\ p.phase = pm[s].phase
      /\ p.table = [i \in o |-> 0]
  BY <1>7 DEF Tabled
<1> HIDE DEF q, p
<1>9. v'[s] = q /\ \A x \in Slots : x # s => v'[x] = v[x]
  BY <1>0, <1>1, <1>2
<1>10. Molds(t, s, p)
  BY <1>1, <1>2, <1>3, <1>6, <1>8, <1>9 DEF Molds, cacheVars
<1>11. Tabulated(v'[s], p, Of(s)')
  <2>1. SUFFICES ASSUME NEW b \in Of(s)' PROVE Listing(p, Index(v'[s].scb, b.at))
    BY DEF Tabulated
  <2>2. b \in Of(s)
    BY <1>10, MoldsFrame
  <2>3. PICK j \in o : b = Block(s, v[s].scb, j)
    BY <1>5, <2>2 DEF Moving
  <2>4. v[s].scb \in LayoutSet /\ j \in Int
    BY <1>2, <1>5, SlabType DEF Moving
  <2>5. Index(v[s].scb, b.at) = j
    BY <2>3, <2>4, BlockIs
  <2>6. Listing(p, j)
    BY <1>8 DEF Listing
  <2>7. QED BY <1>6, <1>9, <2>5, <2>6
<1>12. Shifting(v'[s], p, HeldOf(s), Of(s)', Kept(s), "metas")
  BY <1>4, <1>6, <1>8, <1>9, <1>11 DEF Moves, Shifting
<1>13. Morphs(t)' /\ pc'[t] = "metas"
  BY <1>3 DEF Morphs
<1>14. QED BY <1>10, <1>12, <1>13, MoldsImages

LEMMA MetasImages ==
  ASSUME Fine, NEW t \in Threads, Metas(t)
  PROVE  Images'
<1> PICK s : s = my[t].cur
  OBVIOUS
<1> DEFINE over == Overs(s, v[s].sc, my[t].sc, my[t].old)
           q    == Ended(v[s], over)
           w    == [NoWork EXCEPT !.cls = my[t].cls, !.cur = s]
           p    == [pm[s] EXCEPT !.meta = InUse(over), !.phase = 0]
<1>0. Ctx /\ Locks /\ Locks' /\ Hands' /\ v \in [Slots -> Vslabs]
  BY CtxFacts DEF Fine, Good, Ctx, Types
<1>1. /\ pc[t] = "metas" /\ v' = [v EXCEPT ![s] = q] /\ Be(t, "visit", w)
      /\ UNCHANGED cacheVars
  BY Zenon DEF Metas, Overs, Ended, InUse
<1>2. pm' = [pm EXCEPT ![s].meta = InUse(over), ![s].phase = 0]
  BY Zenon DEF Metas, Overs, Ended, InUse
<1>3. /\ s \in Slots /\ my[t].blk = NoBlock /\ v[s] \in Vslabs /\ slabLock[s] = t
  BY <1>0, <1>1, AtMorph
<1> HIDE DEF w
<1>4. Morphs(t) /\ pc'[t] = "visit" /\ Others(t) /\ ~Morphs(t)'
  <2>1. Steps(t) /\ pc'[t] = "visit"
    BY <1>0, <1>1, PcSet, BeSteps DEF Be
  <2>2. QED BY <1>1, <2>1 DEF Morphs, Steps, Others
<1>5. my'[t].blk = NoBlock
  BY <1>0, <1>4 DEF Hands, HandOK, InHand
<1>6. Moves(s, "metas")
  BY <1>1, <1>4 DEF Fine, Images
<1>7. Moving(s, v[s], Of(s), my[t].old)
  BY <1>0, <1>4, CtxFacts DEF MorphOK
<1> HIDE DEF over
<1>8. q.sc = v[s].sc /\ q.scb = v[s].scb /\ q.rb = {}
  <2>1. DOMAIN v[s] = SlabFields /\ v[s].rb = {}
    BY <1>3, <1>7, SlabType DEF Moving
  <2>2. QED BY <2>1 DEF Ended, SlabFields
<1>9. DOMAIN pm = Slots /\ DOMAIN pm[s] = {"phase", "meta", "table"}
  BY <1>3 DEF Fine, Images
<1>10. /\ DOMAIN p = {"phase", "meta", "table"} /\ p.phase = 0 /\ p.table = pm[s].table
       /\ pm' = [pm EXCEPT ![s] = p]
  BY <1>2, <1>3, <1>9
<1> HIDE DEF q, p
<1>11. v'[s] = q /\ \A x \in Slots : x # s => v'[x] = v[x]
  BY <1>0, <1>1, <1>3
<1>12. Molds(t, s, p)
  BY <1>1, <1>3, <1>4, <1>5, <1>8, <1>10, <1>11 DEF Molds, cacheVars
<1>13. \A b \in Of(s) : b.len # Size[v[s].sc.cls]
  <2> PICK r, o : r = v[s] /\ o = my[t].old
    OBVIOUS
  <2>1. Moving(s, r, Of(s), o)
    BY <1>7
  <2>2. QED BY <2>1, MovingApart
<1>14. Tabulated(v'[s], p, Of(s)')
  <2>1. Of(s)' \subseteq Of(s)
    BY <1>12, MoldsFrame
  <2>2. QED BY SMTT(30), <1>6, <1>8, <1>10, <1>11, <2>1 DEF Moves, Shifting, Tabulated, Listing
<1>15. Noted(p, HeldOf(s), v'[s].sc) /\ Known(Kept(s), v'[s].sc)
  BY <1>8, <1>11, <1>13, KeptOf DEF Noted, Known
<1>16. QED BY <1>4, <1>10, <1>12, <1>14, <1>15, MoldsImages DEF Settled
LEMMA SeizeImages ==
  ASSUME Fine, NEW t \in Threads, Seize(t), ~Outdated(t)
  PROVE  Images'
<1> PICK s : s = my[t].cur
  OBVIOUS
<1> PICK c : c = my[t].cls
  OBVIOUS
<1> DEFINE refuse == Refusal(v[s], c)
           o == IF Keeps(v[s]) THEN v[s].used ELSE {}
           x == [my[t] EXCEPT !.cur = After(lru, s)]
           w == [my[t] EXCEPT !.sc = v[s].sc, !.old = o]
           q == Remade(v[s], c)
           p == [pm[s] EXCEPT !.phase = 2]
<1>0. Ctx /\ Locks /\ Locks' /\ Hands' /\ v \in [Slots -> Vslabs]
  BY CtxFacts DEF Fine, Good, Ctx, Types
<1>1. /\ pc[t] = "seize" /\ slabLock[s] = None
      /\ IF refuse THEN Be(t, "walk", x) /\ UNCHANGED <<memVars, slabLock>>
         ELSE /\ Be(t, "unbin", w)
              /\ IF Keeps(v[s]) THEN v' = [v EXCEPT ![s] = q] /\ pm' = [pm EXCEPT ![s].phase = 2]
                 ELSE UNCHANGED memVars
      /\ UNCHANGED <<listVars, lruVars, cacheVars, moveVars, binLock, lruLock, remVars>>
  BY Zenon DEF Seize, Remade
<1>2. ~refuse => v[s].rdirty # TRUE
  BY <1>1, Zenon DEF Outdated
<1>3. /\ s \in Slots /\ v[s] \in Vslabs /\ my[t].blk = NoBlock /\ my[t] \in Works
  BY <1>0, <1>1, AtMorph
<1>4. ~Morphs(t) /\ Unmorphed(s) /\ \A u \in Threads : pc[u] \in InMorph => my[u].cur # s
  <2>1. pc[t] \notin InMorph
    BY <1>1 DEF InMorph
  <2>2. \A u \in Threads : pc[u] \in InMorph => my[u].cur # s
    BY <1>0, <1>1, <1>3, <2>1, NotInMorph
  <2>3. QED BY <2>1, <2>2 DEF Unmorphed, Morphs, InMorph
<1>5. cache' = cache /\ held' = held /\ lost' = lost
  BY <1>1 DEF cacheVars
<1>6. CASE refuse
  <2>1. Be(t, "walk", x) /\ UNCHANGED <<memVars, cacheVars>>
    BY <1>1, <1>6
  <2> HIDE DEF x
  <2>2. QED BY <1>1, <2>1, CalmImages DEF InMorph, InHand
<1>7. CASE ~refuse
  <2>1. Be(t, "unbin", w)
    BY <1>1, <1>7
  <2>0. Exact(s, v[s], Of(s))
    BY <1>0, <1>3, <1>4, AtRest DEF Ctx
  <2>a. o = v[s].used
    <3>1. v[s].nbits = 0 => v[s].used = {}
      BY <2>0, ExactFacts
    <3>2. QED BY <3>1 DEF Keeps
  <2>2. w.sc = v[s].sc /\ w.old = v[s].used /\ w.cur = s
    <3> HIDE DEF o
    <3>1. QED BY <1>3, <2>a DEF Works
  <2> HIDE DEF w, o
  <2>3. Others(t) /\ pc'[t] = "unbin" /\ my'[t] = w
    <3>1. Steps(t)
      BY <1>0, <2>1, BeSteps
    <3>2. pc'[t] = "unbin" /\ my'[t] = w
      BY <1>0, <2>1, PcSet DEF Be, Locks
    <3>3. QED BY <3>1, <3>2 DEF Steps, Others
  <2>4. my'[t].blk = NoBlock
    BY <1>0, <2>3 DEF Hands, HandOK, InHand
  <2>5. Exact(s, v[s], Of(s))
    BY <1>0, <1>3, <1>4, AtRest DEF Ctx
  <2>6. CASE v[s].nbits = 0
    <3>1. UNCHANGED memVars
      BY <1>1, <1>7, <2>6 DEF Keeps
    <3>2. v[s].used = {}
      BY <2>5, <2>6, ExactFacts
    <3>3. ~Morphs(t)'
      BY <2>2, <2>3, <3>2 DEF Morphs
    <3>4. v' = v /\ pm' = pm
      BY <3>1 DEF memVars
    <3>5. \A y \in Slots : Returned(y)' \subseteq Blocks
      BY <3>4, InBlocks DEF Returned
    <3>6. QED BY <1>4, <1>5, <2>3, <2>4, <3>3, <3>4, <3>5, StillImages
  <2>7. CASE v[s].nbits # 0
    <3>1. v' = [v EXCEPT ![s] = q] /\ pm' = [pm EXCEPT ![s].phase = 2]
      BY <1>1, <1>7, <2>7 DEF Keeps
    <3>2. v[s].used # {}
      BY <2>5, <2>7, ExactFacts
    <3>3. Morphs(t)'
      BY <2>2, <2>3, <3>2 DEF Morphs
    <3>4. v[s].rb = {}
      <4>1. v[s].rdirty = FALSE
        BY <1>2, <1>3, <1>7, SlabType
      <4>2. QED BY <1>3, <4>1 DEF Fine, Ctx, Good, Remote, Dirty
    <3>5. q.scb = v[s].sc /\ q.rb = {}
      <4>1. DOMAIN v[s] = SlabFields
        BY <1>3, SlabType
      <4>2. QED BY <3>4, <4>1 DEF Remade, SlabFields
    <3>6. DOMAIN pm = Slots /\ DOMAIN pm[s] = {"phase", "meta", "table"}
      BY <1>3 DEF Fine, Images
    <3>7. /\ DOMAIN p = {"phase", "meta", "table"} /\ p.phase = 2 /\ p.meta = pm[s].meta
          /\ pm' = [pm EXCEPT ![s] = p]
      BY <3>1, <3>6
    <3> HIDE DEF q, p
    <3>8. v'[s] = q /\ \A y \in Slots : y # s => v'[y] = v[y]
      BY <1>0, <1>3, <3>1
    <3>9. my'[t].cur = s
      BY <2>2, <2>3
    <3>10. Molds(t, s, p)
      BY <1>1, <1>3, <1>5, <2>3, <2>4, <3>5, <3>7, <3>8, <3>9 DEF Molds
    <3>11. Still(s)
      BY <1>3, <1>4 DEF Fine, Images, Unmorphed
    <3>12. Shifting(v'[s], p, HeldOf(s), Of(s)', Kept(s), "unbin")
      BY <3>5, <3>7, <3>8, <3>11 DEF Still, Settled, Shifting, Noted
    <3>13. QED BY <2>3, <3>3, <3>10, <3>12, MoldsImages
  <2>8. QED BY <2>6, <2>7
<1>8. QED BY <1>6, <1>7
(* Steps that change one slab, which nobody morphs.                         *)
LEMMA OneImages ==
  ASSUME Fine, NEW t, Others(t), t \in Threads => ~Morphs(t) /\ ~Morphs(t)',
         NEW s \in Slots, Unmorphed(s), Framed', \A x \in Slots : x # s => Fewer(x), Still(s)'
  PROVE  Images'
<1>1. \A x \in Slots : Carries(x) \/ (Unmorphed(x) /\ Still(x)')
  BY FewerCarries
<1>2. QED BY <1>1, ImagesStep

(* A block that a client holds is not among the remote frees.               *)
LEMMA HeldNotBack ==
  ASSUME Ctx, NEW s \in Slots, NEW r, r = v[s], Exact(s, r, Of(s)), NEW b \in HeldOf(s),
         b.len = Size[r.sc.cls]
  PROVE  Index(r.sc, b.at) \notin r.rb
<1> PICK i : i = Index(r.sc, b.at)
  OBVIOUS
<1>1. b \in Of(s) /\ b \in held /\ r \in Vslabs
  BY KeptOf, CtxFacts, GoodTypes DEF HeldOf
<1>2. b = Block(s, r.sc, i)
  BY <1>1, OwnBlock DEF Exact
<1>3. SUFFICES ASSUME i \in r.rb PROVE FALSE
  OBVIOUS
<1>4. b \in Returned(s)
  BY <1>2, <1>3 DEF Returned
<1>5. b \in Whereabouts[<<"back">>] /\ b \in Whereabouts[<<"held">>]
  BY <1>1, <1>4, WhereIs
<1>6. <<"back">> \in Spots /\ <<"held">> \in Spots /\ <<"held">> # <<"back">> /\ Apart(Whereabouts)
  BY SpotsAre, SpotsDiffer, CtxFacts DEF Good, Once
<1>7. QED BY <1>5, <1>6 DEF Apart

LEMMA FlushImages ==
  ASSUME Fine, Flush
  PROVE  Images'
<1> PICK s : s = Front(numaList)
  OBVIOUS
<1> PICK r : r = v[s]
  OBVIOUS
<1>0. Ctx /\ Locks /\ v \in [Slots -> Vslabs]
  BY CtxFacts DEF Fine, Good, Ctx, Types
<1>1. /\ numaList # <<>>
      /\ r.rdirty => slabLock[s] = None
      /\ v' = IF r.rdirty THEN [v EXCEPT ![s] = Reclaim(r)] ELSE v
      /\ pm' = IF r.rdirty THEN [pm EXCEPT ![s].meta = @ \ r.rb] ELSE pm
      /\ UNCHANGED <<cacheVars, pc, my>>
  BY Zenon DEF Flush
<1>2. cache' = cache /\ held' = held /\ lost' = lost /\ Others(Flusher) /\ Flusher \notin Threads
  BY <1>1, Names DEF cacheVars, Others
<1>3. s \in Slots /\ r \in Vslabs
  <2>1. s \in Members(numaList) /\ numaList \in Seq(Slots)
    BY <1>0, <1>1, TailIn, CtxFacts
  <2>2. s \in Slots
    BY <2>1 DEF Members
  <2>3. QED BY <1>0, <2>2
<1>4. CASE ~r.rdirty
  <2>1. v' = v /\ pm' = pm
    BY <1>1, <1>4
  <2>2. \A y \in Slots : Returned(y)' \subseteq Blocks
    BY <2>1, InBlocks DEF Returned
  <2>3. QED BY <1>2, <2>1, <2>2, StillImages
<1>5. CASE r.rdirty
  <2>1. \A u \in Threads : pc[u] \in InMorph => my[u].cur # s
    BY <1>0, <1>1, <1>2, <1>3, <1>5, NotInMorph, Names
  <2>2. Unmorphed(s)
    BY <2>1 DEF Unmorphed, Morphs, InMorph
  <2>3. Exact(s, r, Of(s)) /\ Still(s)
    BY <1>0, <1>3, <2>1, <2>2, AtRest DEF Ctx, Fine, Images, Unmorphed
  <2> DEFINE z == Reclaim(r)
             p == [pm[s] EXCEPT !.meta = @ \ r.rb]
  <2>4. z.sc = r.sc /\ z.scb = r.scb /\ z.rb = {}
    <3>1. DOMAIN r = SlabFields
      BY <1>3, SlabType
    <3>2. QED BY <3>1 DEF Reclaim, SlabFields
  <2>5. v' = [v EXCEPT ![s] = z] /\ pm' = [pm EXCEPT ![s] = p]
    BY <1>1, <1>5
  <2>6. DOMAIN pm = Slots /\ \A x \in Slots : DOMAIN pm[x] = {"phase", "meta", "table"}
    BY DEF Fine, Images
  <2>7. /\ DOMAIN p = {"phase", "meta", "table"} /\ p.phase = pm[s].phase
        /\ p.meta = pm[s].meta \ r.rb /\ p.table = pm[s].table
    BY <1>3, <2>6
  <2> HIDE DEF z, p
  <2>8. /\ v'[s] = z /\ pm'[s] = p /\ \A x \in Slots : x # s => v'[x] = v[x] /\ pm'[x] = pm[x]
    BY <1>0, <1>3, <2>5, <2>6
  <2>9. Framed'
    BY <2>5, <2>6, <2>7, <2>8 DEF Framed
  <2>10. Blocks' \subseteq Blocks
    <3>1. \A u \in Threads : my'[u].blk \in Blocks \union {NoBlock}
      BY <1>1, InBlocks
    <3>2. \A u \in Threads, c \in Classes, k \in Banks : BlksIn(cache'[u][c][k]) \subseteq Blocks
      BY <1>2, InBlocks
    <3>3. held' \subseteq Blocks /\ lost' \subseteq Blocks
      BY <1>2, InBlocks
    <3>4. ASSUME NEW x \in Slots PROVE Returned(x)' \subseteq Blocks
      <4>1. CASE x = s
        BY <2>4, <2>8, <4>1 DEF Returned
      <4>2. CASE x # s
        BY <2>8, <4>2, InBlocks DEF Returned
      <4>3. QED BY <4>1, <4>2
    <3>5. QED BY <3>1, <3>2, <3>3, <3>4, BlocksFrom
  <2>11. \A x : Of(x)' \subseteq Of(x) /\ HeldOf(x)' = HeldOf(x) /\ Kept(x)' = Kept(x)
    BY <1>2, <2>10 DEF Of, HeldOf, Kept, Caches
  <2>12. \A x \in Slots : x # s => Fewer(x)
    BY <2>8, <2>11 DEF Fewer
  <2>13. Still(s)'
    <3>1. Settled(r, pm[s], HeldOf(s), Of(s), Kept(s))
      BY <2>3 DEF Still
    <3>2. Noted(p, HeldOf(s), r.sc)
      BY <1>0, <1>3, <2>3, <2>7, <3>1, HeldNotBack DEF Settled, Noted
    <3>3. Tabulated(r, p, Of(s)')
      BY <2>7, <2>11, <3>1 DEF Settled, Tabulated, Listing
    <3>4. Settled(z, p, HeldOf(s), Of(s)', Kept(s))
      BY <2>4, <2>7, <3>1, <3>2, <3>3 DEF Settled, Tabulated
    <3>5. QED BY <2>8, <2>11, <3>4 DEF Still
  <2>14. QED BY <1>2, <1>3, <2>2, <2>9, <2>12, <2>13, OneImages
<1>6. QED BY <1>4, <1>5
(* An entry is put on top of a bank.                                        *)
LEMMA PutEnters ==
  ASSUME NEW t \in Threads, NEW c \in Classes, NEW k \in Banks, NEW e \in Entries, Puts(t, c, k, e),
         Types
  PROVE  /\ \A u \in Threads, d \in Classes, j \in Banks :
              /\ Members(cache'[u][d][j]) \subseteq Members(cache[u][d][j]) \union {e}
              /\ BlksIn(cache'[u][d][j]) \subseteq BlksIn(cache[u][d][j]) \union {e.blk}
         /\ \A s : Kept(s)' \subseteq Kept(s) \union {x \in {e} : x.blk.slab = s}
<1> DEFINE l == cache[t][c][k]
<1>1. l \in Seq(Entries)
  BY GoodTypes
<1>2. /\ cache'[t][c][k] = Append(l, e)
      /\ \A u \in Threads, d \in Classes, j \in Banks :
           u # t \/ d # c \/ j # k => cache'[u][d][j] = cache[u][d][j]
  <2>1. cache \in [Threads -> [Classes -> [Banks -> Seq(Entries)]]]
    BY DEF Types
  <2>2. cache' = [cache EXCEPT ![t][c][k] = Append(l, e)]
    BY DEF Puts
  <2> HIDE DEF l
  <2>3. QED BY <2>1, <2>2
<1> HIDE DEF l
<1>3. Members(Append(l, e)) = Members(l) \union {e}
  BY <1>1, AppendIn
<1>4. ASSUME NEW u \in Threads, NEW d \in Classes, NEW j \in Banks
      PROVE  Members(cache'[u][d][j]) \subseteq Members(cache[u][d][j]) \union {e}
  <2>1. CASE u = t /\ d = c /\ j = k
    BY <1>2, <1>3, <2>1 DEF l
  <2>2. CASE ~(u = t /\ d = c /\ j = k)
    <3>1. cache'[u][d][j] = cache[u][d][j]
      BY <1>2, <2>2
    <3>2. QED BY <3>1
  <2>3. QED BY <2>1, <2>2
<1>5. ASSUME NEW u \in Threads, NEW d \in Classes, NEW j \in Banks
      PROVE  BlksIn(cache'[u][d][j]) \subseteq BlksIn(cache[u][d][j]) \union {e.blk}
  <2>1. \A m : BlksIn(m) = {x.blk : x \in Members(m)}
    BY DEF BlksIn, Members
  <2>2. BlksIn(cache'[u][d][j]) = {x.blk : x \in Members(cache'[u][d][j])}
        /\ BlksIn(cache[u][d][j]) = {x.blk : x \in Members(cache[u][d][j])}
    BY <2>1
  <2>3. QED BY <1>4, <2>2
<1>6. ASSUME NEW s PROVE Kept(s)' \subseteq Kept(s) \union {x \in {e} : x.blk.slab = s}
  <2>1. SUFFICES ASSUME NEW x \in Kept(s)' PROVE x \in Kept(s) \/ (x = e /\ x.blk.slab = s)
    OBVIOUS
  <2>2. x \in Entered' /\ x.blk.slab = s
    BY DEF Kept, Entered, Caches, Members
  <2>3. PICK u \in Threads, d \in Classes, j \in Banks : x \in Members(cache'[u][d][j])
    BY <2>2, EntryIn
  <2>4. x \in Members(cache[u][d][j]) \/ x = e
    BY <1>4, <2>3
  <2>5. x \in Members(cache[u][d][j]) => x \in Entered
    BY EntryIn
  <2>6. QED BY <2>2, <2>4, <2>5 DEF Kept, Entered
<1>7. QED BY <1>4, <1>5, <1>6

LEMMA PopImages ==
  ASSUME Fine, NEW t \in Threads, Pop(t)
  PROVE  Images'
<1> PICK s : s = my[t].cur
  OBVIOUS
<1> PICK c : c = my[t].cls
  OBVIOUS
<1> PICK r : r = PopFrom(s)
  OBVIOUS
<1> PICK i : i = Min(Indices \ r.used)
  OBVIOUS
<1> DEFINE k == i % NBanks
           e == [blk |-> Block(s, r.sc, i), mi |-> i]
           q == [r EXCEPT !.used = @ \union {i}, !.nbits = @ + 1]
           n == IF Len(Append(cache[t][c][k], e)) = Cap THEN "full"
                ELSE IF r.numb = 0 THEN "touch" ELSE "pop"
           w == [my[t] EXCEPT !.val = IF r.nbits < 0 THEN morphLen + 1 ELSE morphLen - 1,
                              !.next = n]
           full == v[s].nbits = v[s].sc.n
<1>0. Ctx /\ Locks /\ Locks' /\ Hands' /\ Types /\ v \in [Slots -> Vslabs]
  BY CtxFacts DEF Fine, Good, Ctx, Types
<1>1. /\ v' = [v EXCEPT ![s] = q]
      /\ pm' = IF full THEN [pm EXCEPT ![s].meta = @ \ v[s].rb] ELSE pm
      /\ cache' = [cache EXCEPT ![t][c][k] = Append(cache[t][c][k], e)]
      /\ Be(t, "len", w) \/ (Go(t, n) /\ my' = my)
      /\ held' = held /\ lost' = lost
  BY Zenon DEF Pop, PopFrom
<1>2. /\ pc[t] \in {"visit", "pop"} /\ s \in Slots /\ c \in Classes
      /\ \A u \in Threads : pc[u] \in InMorph => my[u].cur # s
      /\ Roomy(s, c) /\ r \in Vslabs /\ r.sc = v[s].sc /\ r.sc \in LayoutSet /\ r.sc.cls = c
      /\ i \in 0 .. r.sc.n - 1 /\ i \in Indices /\ Indices = 0 .. SlabSize /\ SlabSize \in Nat
  BY <1>0, PopFacts
<1>3. n \in {"full", "touch", "pop"}
  OBVIOUS
<1> HIDE DEF n, w, e, k, q, full
<1>4. Others(t) /\ pc'[t] \in {"len", "full", "touch", "pop"}
  <2>1. Steps(t)
    BY <1>0, <1>1, BeSteps
  <2>2. QED BY <1>0, <1>1, <1>3, <2>1, PcSet DEF Be, Go, Steps, Others
<1>5. my'[t].blk = NoBlock
  BY <1>0, <1>4 DEF Hands, HandOK, InHand
<1>6. ~Morphs(t) /\ ~Morphs(t)' /\ Unmorphed(s)
  BY <1>2, <1>4 DEF Morphs, Unmorphed, InMorph
<1>7. Exact(s, v[s], Of(s)) /\ Settled(v[s], pm[s], HeldOf(s), Of(s), Kept(s))
  BY <1>0, <1>2, <1>6, AtRest DEF Ctx, Fine, Images, Unmorphed, Still
<1>8. /\ q.sc = r.sc /\ q.scb = v[s].scb /\ (IF full THEN q.rb = {} ELSE q.rb = v[s].rb)
  <2>1. DOMAIN r = SlabFields /\ r.scb = v[s].scb /\ (IF full THEN r.rb = {} ELSE r.rb = v[s].rb)
    BY <1>2, SlabType DEF Roomy, SameBut, full
  <2>2. QED BY <2>1 DEF SlabFields, q
<1>9. v'[s] = q /\ \A x \in Slots : x # s => v'[x] = v[x]
  BY <1>0, <1>1, <1>2
<1>10. Framed
  BY DEF Framed, Fine, Images
<1>11. /\ Framed' /\ \A x \in Slots : x # s => pm'[x] = pm[x]
       /\ pm'[s].phase = pm[s].phase /\ pm'[s].table = pm[s].table
       /\ pm'[s].meta = IF full THEN pm[s].meta \ v[s].rb ELSE pm[s].meta
  <2>1. CASE full
    <3> DEFINE m == pm[s].meta \ v[s].rb
    <3>1. pm' = [pm EXCEPT ![s].meta = m]
      BY <1>1, <2>1
    <3> HIDE DEF m
    <3>2. pm'[s].meta = m /\ pm'[s].phase = pm[s].phase /\ pm'[s].table = pm[s].table /\ Framed'
          /\ \A x \in Slots : x # s => pm'[x] = pm[x]
      BY <1>2, <1>10, <3>1 DEF Framed
    <3>3. QED BY <2>1, <3>2 DEF m
  <2>2. CASE ~full
    <3>1. pm' = pm
      BY <1>1, <2>2
    <3>2. QED BY <1>10, <2>2, <3>1 DEF Framed
  <2>3. QED BY <2>1, <2>2
<1> DEFINE b == Block(s, r.sc, i)
<1>12. /\ b \in Blks /\ b.slab = s /\ b.len = Size[r.sc.cls] /\ Index(r.sc, b.at) = i
       /\ k \in Banks /\ e \in Entries /\ e.blk = b /\ e.mi = i
  <2>1. b.slab = s /\ b.at \in Nat /\ b.len = Size[r.sc.cls] /\ b.len \in Nat \ {0}
        /\ Index(r.sc, b.at) = i
    <3> HIDE DEF b
    <3>1. b = Block(s, r.sc, i)
      BY DEF b
    <3>2. QED BY SMTT(30), <1>2, <3>1, LayoutBlock
  <2>2. b = [slab |-> b.slab, at |-> b.at, len |-> b.len]
    BY DEF Block
  <2>3. b \in Blks
    <3> HIDE DEF b
    <3>1. QED BY <1>2, <2>1, <2>2 DEF Blks
  <2>4. k \in Banks
    <3>1. NBanks \in Nat \ {0} /\ i \in Int
      BY <1>2, SlabsAssumption
    <3>2. QED BY <3>1 DEF Banks, k
  <2> HIDE DEF b
  <2>5. [blk |-> b, mi |-> i] \in Entries
    BY <1>2, <2>3 DEF Entries
  <2>6. e = [blk |-> b, mi |-> i]
    BY DEF b, e
  <2>7. e \in Entries /\ e.blk = b /\ e.mi = i
    <3> HIDE DEF e
    <3>1. QED BY <2>5, <2>6
  <2>8. QED BY <2>1, <2>3, <2>4, <2>7
<1> HIDE DEF b
<1>13. Puts(t, c, k, e)
  BY <1>1 DEF Puts
<1>14. Blocks' \subseteq Blocks \union {b}
  <2> PICK X : X = Blocks \union {b}
    OBVIOUS
  <2>1. \A u \in Threads : my'[u].blk \in X \union {NoBlock}
    BY <1>4, <1>5, InBlocks DEF Others
  <2>2. ASSUME NEW u \in Threads, NEW d \in Classes, NEW j \in Banks
        PROVE  BlksIn(cache'[u][d][j]) \subseteq X
    <3>1. BlksIn(cache'[u][d][j]) \subseteq BlksIn(cache[u][d][j]) \union {e.blk}
      BY <1>0, <1>2, <1>12, <1>13, PutEnters
    <3>2. BlksIn(cache[u][d][j]) \subseteq Blocks
      BY InBlocks
    <3>3. QED BY <1>12, <3>1, <3>2
  <2>3. held' \subseteq X /\ lost' \subseteq X
    BY <1>1, InBlocks
  <2>4. ASSUME NEW x \in Slots PROVE Returned(x)' \subseteq X
    <3>1. CASE x = s
      <4>1. Returned(x)' \subseteq Returned(x)
        BY <1>2, <1>8, <1>9, <3>1 DEF Returned
      <4>2. QED BY <4>1, InBlocks
    <3>2. CASE x # s
      <4>1. v'[x] = v[x]
        BY <1>9, <3>2
      <4>2. Returned(x)' = Returned(x)
        BY <4>1 DEF Returned
      <4>3. QED BY <4>2, InBlocks
    <3>3. QED BY <3>1, <3>2
  <2>5. Blocks' \subseteq X
    BY <2>1, <2>2, <2>3, <2>4, BlocksFrom
  <2>6. QED BY <2>5
<1>15. /\ Of(s)' \subseteq Of(s) \union {b} /\ Kept(s)' \subseteq Kept(s) \union {e}
       /\ \A x : HeldOf(x)' = HeldOf(x)
       /\ \A x : x # s => Of(x)' \subseteq Of(x) /\ Kept(x)' \subseteq Kept(x)
  <2>1. \A x : Kept(x)' \subseteq Kept(x) \union {y \in {e} : y.blk.slab = x}
    BY <1>0, <1>2, <1>12, <1>13, PutEnters
  <2>2. \A x : HeldOf(x)' = HeldOf(x)
    BY <1>1 DEF HeldOf
  <2>3. QED BY <1>12, <1>14, <2>1, <2>2 DEF Of
<1>16. \A x \in Slots : x # s => Fewer(x)
  BY <1>9, <1>11, <1>15 DEF Fewer
<1>17. Still(s)'
  <2>1. Noted(pm'[s], HeldOf(s), r.sc)
    <3>1. \A y \in HeldOf(s) : y.len = Size[v[s].sc.cls] => Index(v[s].sc, y.at) \notin v[s].rb
      BY <1>0, <1>2, <1>7, HeldNotBack
    <3>2. QED BY <1>2, <1>7, <1>11, <3>1 DEF Settled, Noted
  <2>2. ASSUME NEW y \in Of(s)', y.len # Size[r.sc.cls]
        PROVE  Listing(pm'[s], Index(v[s].scb, y.at))
    <3>1. y \in Of(s)
      BY <1>12, <1>15, <2>2
    <3>2. Listing(pm[s], Index(v[s].scb, y.at))
      BY <1>2, <1>7, <2>2, <3>1 DEF Settled, Tabulated
    <3>3. QED BY <1>11, <3>2 DEF Listing
  <2>3. ASSUME NEW y \in Kept(s)', y.blk.len = Size[r.sc.cls]
        PROVE  y.mi = Index(r.sc, y.blk.at)
    <3>1. CASE y = e
      BY <1>12, <3>1
    <3>2. CASE y # e
      BY <1>2, <1>7, <1>15, <2>3, <3>2 DEF Settled, Known
    <3>3. QED BY <3>1, <3>2
  <2>4. pm'[s].phase = 0 /\ v'[s].sc = r.sc /\ v'[s].scb = v[s].scb
    BY <1>7, <1>8, <1>9, <1>11 DEF Settled
  <2>5. Noted(pm'[s], HeldOf(s)', v'[s].sc)
    BY <1>15, <2>1, <2>4
  <2>6. Tabulated(v'[s], pm'[s], Of(s)')
    BY <2>2, <2>4 DEF Tabulated
  <2>7. Known(Kept(s)', v'[s].sc)
    BY <2>3, <2>4 DEF Known
  <2>8. QED BY <2>4, <2>5, <2>6, <2>7 DEF Still, Settled
<1>18. QED BY <1>2, <1>4, <1>6, <1>11, <1>16, <1>17, OneImages
(* malloc takes an entry of the caches, and sets the meta bit it names.     *)
LEMMA TakenFrom ==
  ASSUME Ctx, NEW t \in Threads, NEW c \in Classes, TakeFrom(t, c), Filled(t, c) # {}
  PROVE  /\ Entered' \subseteq Entered
         /\ \E e \in Entered :
              /\ pm' = [pm EXCEPT ![e.blk.slab].meta = @ \union {e.mi}]
              /\ held' = held \union {e.blk}
<1> DEFINE k    == NextBank(t, c)
           full == cache[t][c][k]
           rest == IF Overread(t, c, k) THEN Shorter(full) ELSE full
           e    == rest[Len(rest)]
<1>1. /\ cache' = [cache EXCEPT ![t][c][k] = Shorter(rest)]
      /\ pm' = [pm EXCEPT ![e.blk.slab].meta = @ \union {e.mi}]
      /\ held' = held \union {e.blk}
  <2>1. cache' = [cache EXCEPT ![t][c][k] = Shorter(rest)]
    BY Zenon DEF TakeFrom
  <2>2. pm' = [pm EXCEPT ![e.blk.slab].meta = @ \union {e.mi}]
    BY Zenon DEF TakeFrom
  <2>3. held' = held \union {e.blk}
    BY Zenon DEF TakeFrom
  <2>4. QED BY Zenon, <2>1, <2>2, <2>3
<1>2. k \in Banks /\ full # <<>>
  BY NextFilled
<1>3. /\ cache \in [Threads -> [Classes -> [Banks -> Seq(Entries)]]]
      /\ full \in Seq(Entries) /\ NoTwice(full)
  BY <1>2, CtxFacts DEF Good, Types, Once
<1> HIDE DEF k
<1>4. Overread(t, c, k) => Len(full) > 1
  <2>1. Cap > 1
    BY SlabsAssumption
  <2>2. Overread(t, c, k) => Len(full) = Cap
    BY DEF Overread
  <2>3. QED BY <2>1, <2>2
<1>5. /\ Shorter(full) \in Seq(Entries) /\ NoTwice(Shorter(full)) /\ Len(Shorter(full)) = Len(full) - 1
      /\ Members(Shorter(full)) \subseteq Members(full)
  <2> HIDE DEF full
  <2>1. QED BY <1>2, <1>3, BankPop
<1>6. /\ rest \in Seq(Entries) /\ NoTwice(rest) /\ rest # <<>>
      /\ Members(rest) \subseteq Members(full)
  <2> HIDE DEF full
  <2>1. CASE Overread(t, c, k)
    <3>1. Shorter(full) # <<>>
      <4>1. Len(full) \in Nat
        BY <1>3
      <4>2. Len(Shorter(full)) > 0
        BY <1>4, <1>5, <2>1, <4>1
      <4>3. QED BY <1>5, <4>2
    <3>2. QED BY <1>5, <2>1, <3>1
  <2>2. CASE ~Overread(t, c, k)
    BY <1>2, <1>3, <2>2
  <2>3. QED BY <2>1, <2>2
<1>7. Members(Shorter(rest)) \subseteq Members(rest) /\ e \in Members(rest)
  <2> HIDE DEF rest
  <2>1. QED BY <1>6, BankPop
<1> DEFINE last == Shorter(rest)
<1> HIDE DEF rest, e, last
<1>8. \A u \in Threads, d \in Classes, j \in Banks :
        Members(cache'[u][d][j]) \subseteq Members(cache[u][d][j])
  <2>1. cache' = [cache EXCEPT ![t][c][k] = last]
    BY <1>1 DEF last
  <2>2. /\ cache'[t][c][k] = last
        /\ \A u \in Threads, d \in Classes, j \in Banks :
             u # t \/ d # c \/ j # k => cache'[u][d][j] = cache[u][d][j]
    BY <1>2, <1>3, <2>1
  <2>3. Members(last) \subseteq Members(full)
    BY <1>6, <1>7 DEF last
  <2> HIDE DEF full
  <2>4. Members(last) \subseteq Members(cache[t][c][k])
    BY <2>3 DEF full
  <2>5. QED BY <2>2, <2>4
<1>9. Entered' \subseteq Entered
  BY <1>8, EntryIn
<1>10. e \in Entered
  <2>1. e \in Members(cache[t][c][k])
    BY <1>6, <1>7
  <2>2. QED BY <1>2, <2>1, EntryIn
<1>11. QED BY Zenon, <1>1, <1>9, <1>10

LEMMA TakeFromImages ==
  ASSUME Fine, NEW t \in Threads, NEW c \in Classes, TakeFrom(t, c), Filled(t, c) # {}, v' = v,
         \A u \in Threads : my'[u].blk = my[u].blk, Others(t), ~Morphs(t), ~Morphs(t)'
  PROVE  Images'
<1>1. PICK e \in Entered :
        /\ pm' = [pm EXCEPT ![e.blk.slab].meta = @ \union {e.mi}]
        /\ held' = held \union {e.blk}
  BY TakenFrom DEF Fine
<1>2. Entered' \subseteq Entered
  BY TakenFrom DEF Fine
<1>3. \A s : Of(s)' = Of(s)
  BY TakeFromMoves DEF Fine
<1> PICK z : z = e.blk.slab
  OBVIOUS
<1>4. DOMAIN pm = Slots /\ \A x \in Slots : DOMAIN pm[x] = {"phase", "meta", "table"}
  BY DEF Fine, Images
<1>5. /\ Framed' /\ \A x \in Slots : x # z => pm'[x] = pm[x]
      /\ \A x \in Slots : x = z => /\ pm'[x].phase = pm[x].phase /\ pm'[x].table = pm[x].table
                                   /\ pm'[x].meta = pm[x].meta \union {e.mi}
  <2> DEFINE m == pm[z].meta \union {e.mi}
  <2>1. pm' = [pm EXCEPT ![z].meta = m]
    BY <1>1
  <2> HIDE DEF m
  <2>2. /\ Framed' /\ \A x \in Slots : x # z => pm'[x] = pm[x]
        /\ z \in Slots => /\ pm'[z].phase = pm[z].phase /\ pm'[z].table = pm[z].table
                          /\ pm'[z].meta = m
    BY <1>4, <2>1 DEF Framed
  <2>3. QED BY <2>2 DEF m
<1>6. \A x : Kept(x)' \subseteq Kept(x)
  BY <1>2 DEF Kept, Entered
<1>7. \A x : HeldOf(x)' \subseteq HeldOf(x) \union {b \in {e.blk} : b.slab = x}
  BY <1>1 DEF HeldOf
<1>8. ASSUME NEW x \in Slots PROVE Carries(x)
  <2>1. CASE x # z
    <3>1. Fewer(x)
      BY <1>3, <1>5, <1>6, <1>7, <2>1 DEF Fewer
    <3>2. QED BY <3>1, FewerCarries
  <2>2. CASE x = z
    <3>1. e \in Kept(x)
      BY <2>2 DEF Kept, Entered
    <3>2. /\ pm'[x].phase = pm[x].phase /\ pm'[x].table = pm[x].table
          /\ pm'[x].meta = pm[x].meta \union {e.mi} /\ v'[x] = v[x]
      BY <1>5, <2>2
    <3>3. \A sc : Known(Kept(x), sc) => Known(Kept(x)', sc)
      BY <1>6 DEF Known
    <3>4. \A sc : Known(Kept(x), sc) /\ Noted(pm[x], HeldOf(x), sc) => Noted(pm'[x], HeldOf(x)', sc)
      BY <1>7, <3>1, <3>2 DEF Known, Noted
    <3>5. Tabulated(v[x], pm[x], Of(x)) => Tabulated(v'[x], pm'[x], Of(x)')
      BY <1>3, <3>2 DEF Tabulated, Listing
    <3>6. Still(x) => Still(x)'
      BY <3>2, <3>3, <3>4, <3>5 DEF Still, Settled
    <3>7. \A w : Moves(x, w) => Moves(x, w)'
      BY <3>2, <3>3, <3>4, <3>5 DEF Moves, Shifting
    <3>8. QED BY <3>6, <3>7 DEF Carries
  <2>3. QED BY <2>1, <2>2
<1>9. QED BY <1>5, <1>8, ImagesStep

LEMMA MallocHitImages ==
  ASSUME Fine, NEW t \in Threads, NEW c \in Classes, MallocHit(t, c)
  PROVE  Images'
<1>1. /\ pc[t] = "idle" /\ pc' = pc /\ my' = my /\ v' = v /\ TakeFrom(t, c) /\ Filled(t, c) # {}
  BY DEF MallocHit
<1>2. Others(t) /\ ~Morphs(t) /\ ~Morphs(t)'
  BY <1>1 DEF Others, Morphs
<1>3. QED BY <1>1, <1>2, TakeFromImages

LEMMA TakeImages ==
  ASSUME Fine, NEW t \in Threads, Take(t)
  PROVE  Images'
<1>1. pc[t] = "take" /\ v' = v /\ TakeFrom(t, my[t].cls) /\ Rest(t, "idle")
  BY DEF Take
<1>2. PICK c : c = my[t].cls
  OBVIOUS
<1>3. /\ Steps(t) /\ pc'[t] = "idle" /\ my'[t].blk = NoBlock
  BY <1>1, RestFacts DEF Fine
<1>4. c \in Classes /\ Filled(t, c) # {} /\ my[t].blk = NoBlock
  BY <1>1, <1>2, CtxFacts, WorkType DEF FillOK, Ready, Filled, HandOK, InHand, Fine
<1>5. Others(t) /\ ~Morphs(t) /\ ~Morphs(t)' /\ \A u \in Threads : my'[u].blk = my[u].blk
  BY <1>1, <1>3, <1>4 DEF Steps, Others, Morphs
<1>6. TakeFrom(t, c)
  BY <1>1, <1>2
<1>7. QED BY <1>1, <1>4, <1>5, <1>6, TakeFromImages
LEMMA OwnIndex ==
  ASSUME NEW s, NEW r \in Vslabs, NEW x, Placed(s, r, x), x.len = Size[r.sc.cls],
         NEW y, Placed(s, r, y), y.len = Size[r.sc.cls], Index(r.sc, x.at) = Index(r.sc, y.at)
  PROVE  x = y
<1>1. x = Block(s, r.sc, Index(r.sc, x.at)) /\ y = Block(s, r.sc, Index(r.sc, y.at))
  BY OwnBlock
<1>2. QED BY <1>1

(* A block of the slab's own layout goes back: its meta bit is cleared.     *)
LEMMA ClearsImages ==
  ASSUME Fine, NEW t \in Threads, Others(t), ~Morphs(t), ~Morphs(t)', NEW b \in Blocks, NEW i,
         i = Index(v[b.slab].sc, b.at), b.len = Size[v[b.slab].sc.cls], v' = v,
         pm' = [pm EXCEPT ![b.slab].meta = @ \ {i}], held' \subseteq held \ {b},
         \A s : Of(s)' \subseteq Of(s),
         \A s : \A e \in Kept(s)' : e \in Kept(s) \/ (e.blk = b /\ e.mi = i)
  PROVE  Images'
<1> PICK s : s = b.slab
  OBVIOUS
<1> PICK r : r = v[s]
  OBVIOUS
<1>1. Ctx /\ Good /\ s \in Slots /\ b \in Of(s) /\ r \in Vslabs
  BY CtxFacts, BlockTypes, GoodTypes DEF Of, Fine
<1>2. Unmorphed(s)
  <2>1. SUFFICES ASSUME NEW u \in Threads, Morphs(u), my[u].cur = s PROVE FALSE
    BY DEF Unmorphed
  <2>2. Moving(s, r, Of(s), my[u].old)
    BY <1>1, <2>1 DEF Good, Morphing, MorphOK
  <2>3. QED BY <1>1, <2>2, MovingApart
<1>3. Exact(s, r, Of(s)) /\ Settled(r, pm[s], HeldOf(s), Of(s), Kept(s))
  BY <1>1, <1>2 DEF Good, Slabwise, Unmorphed, Fine, Images, Still
<1>4. Framed
  BY DEF Framed, Fine, Images
<1>5. /\ Framed' /\ \A x \in Slots : x # s => pm'[x] = pm[x]
      /\ pm'[s].phase = pm[s].phase /\ pm'[s].table = pm[s].table
      /\ pm'[s].meta = pm[s].meta \ {i}
  <2> DEFINE m == pm[s].meta \ {i}
  <2>1. pm' = [pm EXCEPT ![s].meta = m]
    OBVIOUS
  <2> HIDE DEF m
  <2>2. pm'[s].meta = m /\ pm'[s].phase = pm[s].phase /\ pm'[s].table = pm[s].table /\ Framed'
        /\ \A x \in Slots : x # s => pm'[x] = pm[x]
    BY <1>1, <1>4, <2>1 DEF Framed
  <2>3. QED BY <2>2 DEF m
<1>6. \A x : HeldOf(x)' \subseteq HeldOf(x) \ {b}
  BY DEF HeldOf
<1>7. \A x \in Slots : x # s => Fewer(x)
  <2>1. SUFFICES ASSUME NEW x \in Slots, x # s PROVE Fewer(x)
    OBVIOUS
  <2>2. ASSUME NEW e \in Kept(x)' PROVE e \in Kept(x)
    <3>1. e.blk.slab = x
      BY DEF Kept
    <3>2. QED BY <2>1, <3>1
  <2>3. Kept(x)' \subseteq Kept(x)
    BY <2>2
  <2>4. QED BY <1>5, <1>6, <2>1, <2>3 DEF Fewer
<1>8. Still(s)'
  <2>1. ASSUME NEW x \in HeldOf(s)', x.len = Size[r.sc.cls] PROVE Index(r.sc, x.at) \in pm'[s].meta
    <3>1. x \in HeldOf(s) /\ x # b /\ x \in Of(s)
      BY <1>6, KeptOf
    <3>2. Placed(s, r, x) /\ Placed(s, r, b)
      BY <1>1, <1>3, <3>1 DEF Exact
    <3>3. Index(r.sc, x.at) # i
      BY <1>1, <2>1, <3>1, <3>2, OwnIndex
    <3>4. QED BY <1>3, <1>5, <2>1, <3>1, <3>3 DEF Settled, Noted
  <2>2. Tabulated(r, pm'[s], Of(s)')
    BY SMTT(30), <1>3, <1>5 DEF Settled, Tabulated, Listing
  <2>3. Known(Kept(s)', r.sc)
    BY <1>3 DEF Settled, Known
  <2>4. Settled(r, pm'[s], HeldOf(s)', Of(s)', Kept(s)')
    BY <1>3, <1>5, <2>1, <2>2, <2>3 DEF Settled, Noted
  <2>5. QED BY <2>4 DEF Still
<1>9. QED BY <1>1, <1>2, <1>5, <1>7, <1>8, OneImages

(* A block of the layout before is on its way back: nothing persistent yet. *)
LEMMA KeepsImages ==
  ASSUME Fine, NEW t \in Threads, Others(t), ~Morphs(t), ~Morphs(t)', v' = v, pm' = pm,
         held' \subseteq held, \A s : Of(s)' \subseteq Of(s), \A s : Kept(s)' \subseteq Kept(s)
  PROVE  Images'
<1>1. \A x : HeldOf(x)' \subseteq HeldOf(x)
  BY DEF HeldOf
<1>2. \A s \in Slots : Fewer(s)
  BY <1>1 DEF Fewer
<1>3. Framed'
  BY DEF Framed, Fine, Images
<1>4. QED BY <1>2, <1>3, FewerCarries, ImagesStep

LEMMA FreeImages ==
  ASSUME Fine, NEW t \in Threads, NEW b \in held, Free(t, b)
  PROVE  Images'
<1>1. /\ pc[t] = "idle" /\ v' = v /\ pm' = pm /\ lost' = lost /\ cache' = cache /\ held' = held \ {b}
      /\ Start(t, b, "idle")
  BY DEF Free, memVars
<1>2. b \in Blocks
  BY DEF Blocks
<1> DEFINE w == FreeWork(b, v[b.slab].scb, "idle")
           p == IF ByTable(b) THEN "old" ELSE "unset"
<1>4. Be(t, p, w) /\ v[b.slab].scb \in LayoutSet
  BY <1>1, <1>2, StartIs DEF Fine
<1>3. w \in Works /\ w.blk = b
  BY <1>2, <1>4, FreeWorkIs DEF Fine
<1>5. p \in InHand
  BY DEF InHand
<1> HIDE DEF w, p
<1>6. Others(t) /\ my'[t].blk = b /\ pc'[t] \in InHand
  <2>1. Steps(t) /\ my'[t] = w /\ pc'[t] = p
    BY <1>3, <1>4, CtxFacts, WorkSet, PcSet, BeSteps DEF Be, Ctx, Fine
  <2>2. QED BY <1>3, <1>5, <2>1 DEF Steps, Others
<1>7. \A s : Of(s)' = Of(s)
  BY <1>1, <1>6, HeldToHand DEF Fine
<1>8. \A s : Kept(s)' = Kept(s)
  BY <1>1 DEF Kept, Caches
<1>9. ~Morphs(t) /\ ~Morphs(t)'
  BY <1>1, <1>6 DEF Morphs, InHand
<1>10. QED BY <1>1, <1>6, <1>7, <1>8, <1>9, KeepsImages
LEMMA PutBackImages ==
  ASSUME Fine, NEW t \in Threads, PutBack(t)
  PROVE  Images'
<1> DEFINE c == Min(AllFilled(t))
           k == Min(Filled(t, c))
           l == cache[t][c][k]
           b == Front(l).blk
<1>1. /\ pc[t] = "putback" /\ v' = v /\ pm' = pm /\ lost' = lost /\ held' = held
      /\ AllFilled(t) # {}
  BY DEF PutBack, memVars
<1>2. Start(t, b, "putback") /\ cache' = [cache EXCEPT ![t][c][k] = Tail(@)]
  BY Zenon DEF PutBack
<1>3. c \in Classes /\ k \in Banks /\ l # <<>>
  <2>1. AllFilled(t) \subseteq Nat /\ AllFilled(t) \subseteq Classes
    BY SlabsAssumption DEF AllFilled
  <2>2. c \in AllFilled(t)
    BY <1>1, <2>1, MinIn
  <2>3. c \in Classes /\ Filled(t, c) # {}
    BY <2>2 DEF AllFilled
  <2> HIDE DEF c
  <2>4. Filled(t, c) \subseteq Nat
    BY SlabsAssumption DEF Filled, Banks
  <2>5. k \in Filled(t, c)
    BY <2>3, <2>4, MinIn
  <2>6. QED BY <2>3, <2>5 DEF Filled
<1> HIDE DEF c, k
<1>4. /\ cache \in [Threads -> [Classes -> [Banks -> Seq(Entries)]]]
      /\ l \in Seq(Entries) /\ NoTwice(l)
  BY <1>3, CtxFacts DEF Good, Types, Once, Fine
<1>5. Members(Tail(l)) \subseteq Members(l) /\ BlksIn(Tail(l)) \subseteq BlksIn(l) /\ b \in BlksIn(l)
  <2> HIDE DEF l
  <2>1. QED BY <1>3, <1>4, BankTail
<1> DEFINE rest == Tail(l)
<1>6. \A u \in Threads, d \in Classes, j \in Banks :
        /\ Members(cache'[u][d][j]) \subseteq Members(cache[u][d][j])
        /\ BlksIn(cache'[u][d][j]) \subseteq BlksIn(cache[u][d][j])
  <2>1. cache' = [cache EXCEPT ![t][c][k] = rest]
    BY <1>2
  <2> HIDE DEF rest
  <2>2. /\ cache'[t][c][k] = rest
        /\ \A u \in Threads, d \in Classes, j \in Banks :
             u # t \/ d # c \/ j # k => cache'[u][d][j] = cache[u][d][j]
    BY <1>3, <1>4, <2>1
  <2>3. Members(rest) \subseteq Members(cache[t][c][k]) /\ BlksIn(rest) \subseteq BlksIn(cache[t][c][k])
    BY <1>5 DEF rest
  <2>4. QED BY <2>2, <2>3
<1> HIDE DEF rest
<1>7. b \in Blocks /\ b \notin held
  <2> DEFINE p == <<"bank", t, c, k>>
             h == <<"held">>
  <2>1. /\ p \in Spots /\ h \in Spots /\ p # h /\ Whereabouts[p] = BlksIn(l) /\ Whereabouts[h] = held
    BY <1>3, SpotsAre, SpotsDiffer, WhereIs
  <2>2. Apart(Whereabouts)
    BY CtxFacts DEF Good, Once, Fine
  <2> HIDE DEF p, h, l
  <2>3. b \notin held
    BY <1>5, <2>1, <2>2 DEF Apart
  <2>4. BlksIn(cache[t][c][k]) \subseteq Blocks
    BY <1>3, InBlocks
  <2>5. QED BY <1>5, <2>3, <2>4 DEF l
<1> HIDE DEF l, b
<1> DEFINE w == FreeWork(b, v[b.slab].scb, "putback")
           n == IF ByTable(b) THEN "old" ELSE "unset"
<1>9. Be(t, n, w) /\ v[b.slab].scb \in LayoutSet
  BY <1>2, <1>7, StartIs DEF Fine
<1>8. w \in Works /\ w.blk = b
  BY <1>7, <1>9, FreeWorkIs DEF Fine
<1>10. n \in InHand
  BY DEF InHand
<1> HIDE DEF w, n
<1>11. Others(t) /\ my'[t].blk = b /\ pc'[t] \in InHand
  <2>1. Steps(t) /\ my'[t] = w /\ pc'[t] = n
    BY <1>8, <1>9, CtxFacts, WorkSet, PcSet, BeSteps DEF Be, Ctx, Fine
  <2>2. QED BY <1>8, <1>10, <2>1 DEF Steps, Others
<1>12. Blocks' \subseteq Blocks
  <2>1. \A u \in Threads : my'[u].blk \in Blocks \union {NoBlock}
    BY <1>7, <1>11, InBlocks DEF Others
  <2>2. \A u \in Threads, d \in Classes, j \in Banks : BlksIn(cache'[u][d][j]) \subseteq Blocks
    BY <1>6, InBlocks
  <2>3. held' \subseteq Blocks /\ lost' \subseteq Blocks
    BY <1>1, InBlocks
  <2>4. \A s \in Slots : Returned(s)' \subseteq Blocks
    BY <1>1, InBlocks DEF Returned
  <2>5. QED BY <2>1, <2>2, <2>3, <2>4, BlocksFrom
<1>13. \A s : Of(s)' \subseteq Of(s)
  BY <1>12 DEF Of
<1>14. \A s : Kept(s)' \subseteq Kept(s)
  <2>1. Entered' \subseteq Entered
    BY <1>6, EntryIn
  <2>2. QED BY <2>1 DEF Kept, Entered
<1>15. ~Morphs(t) /\ ~Morphs(t)'
  BY <1>1, <1>11 DEF Morphs, InHand
<1>16. QED BY <1>1, <1>11, <1>13, <1>14, <1>15, KeepsImages

(* The meta bit goes; the block goes to the cache, or stays in hand.        *)
LEMMA UnsetImages ==
  ASSUME Fine, NEW t \in Threads, Unset(t), ~Outdated(t)
  PROVE  Images'
<1> DEFINE s == my[t].cur
           b == my[t].blk
           c == my[t].sc.cls
           i == my[t].idx
           k == i % NBanks
           e == [blk |-> b, mi |-> i]
<1>1. /\ pc[t] = "unset" /\ v' = v /\ held' = held /\ lost' = lost
      /\ pm' = [pm EXCEPT ![s].meta = @ \ {i}]
      /\ \/ cache' = [cache EXCEPT ![t][c][k] = Append(@, e)] /\ Done(t)
         \/ Go(t, "new") /\ cache' = cache /\ my' = my
  <2>1. /\ pm' = [pm EXCEPT ![s].meta = @ \ {i}]
        /\ \/ cache' = [cache EXCEPT ![t][c][k] = Append(@, e)] /\ Done(t)
           \/ Go(t, "new") /\ cache' = cache /\ my' = my
    BY Zenon DEF Unset
  <2>2. pc[t] = "unset" /\ UNCHANGED <<v, listVars, lruVars, turn, held, lost, remVars>>
    BY Zenon DEF Unset
  <2> HIDE DEF e, k, i, s
  <2>3. QED BY <2>1, <2>2
<1>2. /\ b \in Blocks /\ b \in Blks /\ s \in Slots /\ b.slab = s /\ my[t] \in Works
      /\ Whereabouts[<<"hand", t>>] = {b} /\ Apart(Whereabouts) /\ <<"hand", t>> \in Spots
      /\ i = Index(my[t].sc, b.at)
  BY <1>1, HandBlock, CtxFacts, BlockTypes DEF InHand, HandOK, Fine
<1>3. v[s].sc = my[t].sc /\ b.len = Size[c]
  BY <1>1 DEF Outdated
<1>4. c \in Classes /\ i \in Int /\ k \in Banks
  <2>1. my[t].sc \in LayoutSet /\ i \in Int
    BY <1>2, WorkType
  <2>2. c \in Classes
    BY <2>1, LayoutType
  <2> HIDE DEF i
  <2>3. i % NBanks \in 0 .. NBanks - 1
    BY <2>1, SlabsAssumption
  <2>4. QED BY <2>1, <2>2, <2>3 DEF Banks
<1>5. b \notin held
  <2>1. /\ <<"held">> \in Spots /\ <<"held">> # <<"hand", t>> /\ Whereabouts[<<"held">>] = held
    BY SpotsAre, SpotsDiffer, WhereIs
  <2>2. b \in Whereabouts[<<"hand", t>>]
    BY <1>2
  <2> HIDE DEF b
  <2>3. QED BY <1>2, <2>1, <2>2 DEF Apart
<1>6. i = Index(v[b.slab].sc, b.at) /\ b.len = Size[v[b.slab].sc.cls]
  BY <1>2, <1>3
<1>7. pm' = [pm EXCEPT ![b.slab].meta = @ \ {i}] /\ held' \subseteq held \ {b}
  BY <1>1, <1>2, <1>5
<1> HIDE DEF k, i, c, s, b
<1>8. e \in Entries /\ e.blk = b /\ e.mi = i
  BY <1>2, <1>4 DEF Entries
<1> HIDE DEF e
<1>9. CASE cache' = [cache EXCEPT ![t][c][k] = Append(@, e)] /\ Done(t)
  <2>1. Puts(t, c, k, e) /\ Types
    BY <1>9, CtxFacts DEF Puts, Fine
  <2>2. /\ \A u \in Threads, y \in Classes, j \in Banks :
             BlksIn(cache'[u][y][j]) \subseteq BlksIn(cache[u][y][j]) \union {e.blk}
        /\ \A x : Kept(x)' \subseteq Kept(x) \union {y \in {e} : y.blk.slab = x}
    BY <1>4, <1>8, <2>1, PutEnters
  <2>3. /\ Steps(t) /\ pc'[t] \in {"idle", "putback"} /\ my'[t].blk = NoBlock
    BY <1>1, <1>9, DoneFacts DEF Fine
  <2>4. Others(t) /\ ~Morphs(t) /\ ~Morphs(t)'
    BY <1>1, <2>3 DEF Steps, Others, Morphs
  <2>5. Blocks' \subseteq Blocks
    <3>1. \A u \in Threads : my'[u].blk \in Blocks \union {NoBlock}
      BY <2>3, <2>4, InBlocks DEF Others
    <3>2. \A u \in Threads, y \in Classes, j \in Banks : BlksIn(cache'[u][y][j]) \subseteq Blocks
      BY <1>2, <1>8, <2>2, InBlocks
    <3>3. held' \subseteq Blocks /\ lost' \subseteq Blocks
      BY <1>1, InBlocks
    <3>4. \A x \in Slots : Returned(x)' \subseteq Blocks
      BY <1>1, InBlocks DEF Returned
    <3>5. QED BY <3>1, <3>2, <3>3, <3>4, BlocksFrom
  <2>6. \A x : Of(x)' \subseteq Of(x)
    BY <2>5 DEF Of
  <2>7. \A x : \A y \in Kept(x)' : y \in Kept(x) \/ (y.blk = b /\ y.mi = i)
    BY <1>8, <2>2
  <2>8. QED BY <1>1, <1>2, <1>6, <1>7, <2>4, <2>6, <2>7, ClearsImages
<1>10. CASE Go(t, "new") /\ cache' = cache /\ my' = my
  <2>1. Steps(t) /\ pc'[t] = "new"
    BY <1>10, CtxFacts, PcSet, BeSteps DEF Go, Ctx, Fine
  <2>2. Others(t) /\ ~Morphs(t) /\ ~Morphs(t)'
    BY <1>1, <2>1 DEF Steps, Others, Morphs
  <2>3. Blocks' \subseteq Blocks
    <3>1. \A u \in Threads : my'[u].blk \in Blocks \union {NoBlock}
      BY <1>10, InBlocks
    <3>2. \A u \in Threads, y \in Classes, j \in Banks : BlksIn(cache'[u][y][j]) \subseteq Blocks
      BY <1>10, InBlocks
    <3>3. held' \subseteq Blocks /\ lost' \subseteq Blocks
      BY <1>1, InBlocks
    <3>4. \A x \in Slots : Returned(x)' \subseteq Blocks
      BY <1>1, InBlocks DEF Returned
    <3>5. QED BY <3>1, <3>2, <3>3, <3>4, BlocksFrom
  <2>4. \A x : Of(x)' \subseteq Of(x)
    BY <2>3 DEF Of
  <2>5. \A x : \A y \in Kept(x)' : y \in Kept(x) \/ (y.blk = b /\ y.mi = i)
    BY <1>10 DEF Kept, Caches
  <2>6. QED BY <1>1, <1>2, <1>6, <1>7, <2>2, <2>4, <2>5, ClearsImages
<1>11. QED BY <1>1, <1>9, <1>10
LEMMA OldIndex ==
  ASSUME NEW s, NEW r \in Vslabs, NEW x, Placed(s, r, x), x.len # Size[r.sc.cls],
         NEW y, Placed(s, r, y), y.len # Size[r.sc.cls], Index(r.scb, x.at) = Index(r.scb, y.at)
  PROVE  x = y
<1>1. x = Block(s, r.scb, Index(r.scb, x.at)) /\ y = Block(s, r.scb, Index(r.scb, y.at))
  BY OldBlock
<1>2. QED BY <1>1

(* What FreeOld leaves of the image: the meta bits of what it uncovers are  *)
(* cleared, and the block's entry of the table is marked.                   *)
Marks(s, M, j) == pm' = [pm EXCEPT ![s].meta = @ \ M, ![s].table[j] = (@ + 2) % 4]

LEMMA MarkedImage ==
  ASSUME Framed, NEW s \in Slots, NEW M, NEW j, j \in DOMAIN pm[s].table,
         Marks(s, M, j)
  PROVE  /\ Framed' /\ \A x \in Slots : x # s => pm'[x] = pm[x]
         /\ pm'[s].phase = pm[s].phase /\ pm'[s].meta = pm[s].meta \ M
         /\ \A i : i # j /\ Listing(pm[s], i) => Listing(pm'[s], i)
<1> DEFINE tab == [pm[s].table EXCEPT ![j] = (@ + 2) % 4]
           met == pm[s].meta \ M
<1>1. pm' = [pm EXCEPT ![s].meta = met, ![s].table = tab]
  BY DEF Marks
<1>2. DOMAIN tab = DOMAIN pm[s].table /\ \A i \in DOMAIN tab : i # j => tab[i] = pm[s].table[i]
  OBVIOUS
<1> HIDE DEF tab, met
<1>3. DOMAIN pm = Slots /\ DOMAIN pm[s] = {"phase", "meta", "table"}
  BY DEF Framed
<1>4. /\ DOMAIN pm' = Slots /\ \A x \in Slots : x # s => pm'[x] = pm[x]
      /\ DOMAIN pm'[s] = {"phase", "meta", "table"}
      /\ pm'[s].phase = pm[s].phase /\ pm'[s].meta = met /\ pm'[s].table = tab
  BY <1>1, <1>3
<1>5. Framed'
  BY <1>3, <1>4 DEF Framed
<1>6. \A i : i # j /\ Listing(pm[s], i) => Listing(pm'[s], i)
  BY <1>2, <1>4 DEF Listing
<1>7. QED BY <1>4, <1>5, <1>6 DEF met

(* A block that a thread frees by the table has its entry.                  *)
LEMMA OldInTable ==
  ASSUME Ctx, Images, NEW t \in Threads, pc[t] = "old", slabLock[my[t].cur] = None, ~Outdated(t)
  PROVE  /\ Unmorphed(my[t].cur) /\ Still(my[t].cur)
         /\ Exact(my[t].cur, v[my[t].cur], Of(my[t].cur))
         /\ my[t].cur \in Slots /\ my[t].blk \in Of(my[t].cur)
         /\ my[t].blk.len # Size[v[my[t].cur].sc.cls]
         /\ Listing(pm[my[t].cur], Index(v[my[t].cur].scb, my[t].blk.at))
<1> PICK s : s = my[t].cur
  OBVIOUS
<1>1. pc[t] \in InHand
  BY DEF InHand
<1>2. s \in Slots /\ my[t].blk \in Of(s) /\ my[t].blk.len # Size[v[s].sc.cls]
  <2>1. my[t].sc = v[s].sc /\ my[t].blk.len # Size[my[t].sc.cls]
    BY DEF Outdated
  <2>2. QED BY <1>1, <2>1, HandBlock
<1>3. \A u \in Threads : pc[u] \in InMorph => my[u].cur # s
  BY <1>2, NotInMorph, CtxFacts DEF InMorph
<1>4. Unmorphed(s)
  BY <1>3 DEF Unmorphed, Morphs, InMorph
<1>5. Exact(s, v[s], Of(s)) /\ Still(s)
  BY <1>2, <1>3, <1>4, AtRest, CtxFacts DEF Images, Unmorphed
<1>6. Listing(pm[s], Index(v[s].scb, my[t].blk.at))
  BY <1>2, <1>5 DEF Still, Settled, Tabulated
<1>7. QED BY <1>2, <1>4, <1>5, <1>6

LEMMA FreeOldImages ==
  ASSUME Fine, NEW t \in Threads, FreeOld(t), ~Outdated(t)
  PROVE  Images'
<1> PICK s : s = my[t].cur
  OBVIOUS
<1> PICK r : r = v[s]
  OBVIOUS
<1> PICK b : b = my[t].blk
  OBVIOUS
<1> PICK j : j = Index(r.scb, b.at)
  OBVIOUS
<1> DEFINE q == Uncovered(r, b)
           M == {i \in Indices : r.dnum[i] # 0 /\ q.dnum[i] = 0}
           w1 == [my[t] EXCEPT !.next = "check", !.blk = NoBlock]
           w2 == [my[t] EXCEPT !.blk = NoBlock]
<1>0. Ctx /\ Images /\ Locks /\ Locks' /\ Hands' /\ v \in [Slots -> Vslabs]
  BY CtxFacts DEF Fine, Good, Ctx, Types
<1>a. pc[t] = "old" /\ slabLock[s] = None /\ UNCHANGED cacheVars
  BY Zenon DEF FreeOld
<1>3. /\ Unmorphed(s) /\ Still(s) /\ Exact(s, r, Of(s)) /\ s \in Slots /\ b \in Of(s)
      /\ b.len # Size[r.sc.cls] /\ Listing(pm[s], j)
  BY <1>0, <1>a, OldInTable
<1>b. Reach(my[t].sc, my[t].blk.at, Size[my[t].scb.cls]) = Covered(r.sc, b) /\ my[t].scb = r.scb
  <2>1. my[t].sc = r.sc /\ my[t].scb = r.scb
    BY <1>a DEF Outdated
  <2>2. Placed(s, r, b) /\ r \in Vslabs
    BY <1>3 DEF Exact
  <2>3. b = Block(s, r.scb, Index(r.scb, b.at))
    BY <1>3, <2>2, OldBlock
  <2>4. b.len = Size[r.scb.cls]
    BY <2>3 DEF Block
  <2>5. QED BY <2>1, <2>4 DEF Covered
<1>1. /\ pc[t] = "old" /\ slabLock[s] = None /\ v' = [v EXCEPT ![s] = q]
      /\ Be(t, "unlink", w1) \/ Be(t, "relist", w2) \/ Done(t)
      /\ UNCHANGED cacheVars
      /\ pm' = [pm EXCEPT ![s].meta = @ \ M, ![s].table[j] = (@ + 2) % 4]
  <2> DEFINE left == Uncover(r, Reach(my[t].sc, my[t].blk.at, Size[my[t].scb.cls]))
             N == {i \in Indices : r.dnum[i] # 0 /\ left.dnum[i] = 0}
             k == Index(my[t].scb, my[t].blk.at)
  <2>1. /\ v' = [v EXCEPT ![s] = left]
        /\ Be(t, "unlink", w1) \/ Be(t, "relist", w2) \/ Done(t)
        /\ pm' = [pm EXCEPT ![s].meta = @ \ N, ![s].table[k] = (@ + 2) % 4]
    BY Zenon DEF FreeOld
  <2>2. left = q
    BY <1>b DEF Uncovered
  <2>3. N = M /\ k = j
    BY <1>b, <2>2
  <2> HIDE DEF left, q, w1, w2, N, M, k
  <2>4. QED BY <1>a, <2>1, <2>2, <2>3
<1> HIDE DEF w1, w2
<1>2. cache' = cache /\ held' = held /\ lost' = lost
  BY <1>1 DEF cacheVars
<1>4. Others(t) /\ pc'[t] \in {"unlink", "relist", "idle", "putback"}
  <2>1. CASE Be(t, "unlink", w1) \/ Be(t, "relist", w2)
    <3>1. Steps(t)
      BY <1>0, <2>1, BeSteps
    <3>2. QED BY <1>0, <2>1, <3>1, PcSet DEF Be, Steps, Others
  <2>2. CASE Done(t)
    BY <1>0, <2>2, DoneFacts DEF Steps, Others
  <2>3. QED BY <1>1, <2>1, <2>2
<1>5. my'[t].blk = NoBlock
  BY <1>0, <1>4 DEF Hands, HandOK, InHand
<1>6. r \in Vslabs /\ q \in Vslabs /\ Exact(s, q, Of(s) \ {b}) /\ q.sc = r.sc /\ q.scb = r.scb /\ q.rb = r.rb
  <2>1. b \in OldOf(r, Of(s))
    BY <1>3 DEF OldOf
  <2>2. r \in Vslabs
    BY <1>0, <1>3
  <2>3. QED BY <1>3, <2>1, <2>2, ExactUncover DEF SameRest
<1>c. \A x \in Of(s) : x.len = Size[r.sc.cls] => Index(r.sc, x.at) \notin M
  <2>1. SUFFICES ASSUME NEW x \in Of(s), x.len = Size[r.sc.cls], NEW i \in Indices,
                        i = Index(r.sc, x.at)
                 PROVE  r.dnum[i] = 0
    OBVIOUS
  <2>2. Block(s, r.sc, i) = x
    <3>1. Placed(s, r, x) /\ r \in Vslabs
      BY <1>3 DEF Exact
    <3>2. QED BY <2>1, <3>1, OwnBlock
  <2>3. Over(r, Of(s), i) = {} /\ r.dnum[i] = Cardinality(Over(r, Of(s), i))
    BY <1>3, <2>1, <2>2 DEF Exact
  <2>4. QED BY <2>3, FS_EmptySet
<1> HIDE DEF q, M
<1>7. v'[s] = q /\ \A x \in Slots : x # s => v'[x] = v[x]
  BY <1>0, <1>1, <1>3
<1>8. /\ Framed' /\ \A x \in Slots : x # s => pm'[x] = pm[x]
      /\ pm'[s].phase = pm[s].phase /\ pm'[s].meta = pm[s].meta \ M
      /\ \A i : i # j /\ Listing(pm[s], i) => Listing(pm'[s], i)
  <2>1. Framed /\ j \in DOMAIN pm[s].table
    BY <1>3 DEF Framed, Fine, Images, Listing
  <2>2. Marks(s, M, j)
    BY Zenon, <1>1 DEF Marks
  <2>3. QED BY SMTT(30), <1>3, <2>1, <2>2, MarkedImage
<1>9. /\ Of(s)' = Of(s) \ {b} /\ \A x \in Slots : x # s => Of(x)' = Of(x)
  <2>1. \A x \in Slots : Returned(x)' = Returned(x)
    BY <1>0, <1>6, <1>7, ReturnedStep
  <2>2. pc[t] \in InHand
    BY <1>1 DEF InHand
  <2>3. QED BY <1>0, <1>2, <1>4, <1>5, <2>1, <2>2, HandLeaves
<1>10. \A x : HeldOf(x)' = HeldOf(x) /\ Kept(x)' = Kept(x)
  BY <1>2 DEF HeldOf, Kept, Caches
<1>11. \A x \in Slots : x # s => Fewer(x)
  BY <1>7, <1>8, <1>9, <1>10 DEF Fewer
<1>12. Still(s)'
  <2>1. Settled(r, pm[s], HeldOf(s), Of(s), Kept(s))
    BY <1>3 DEF Still
  <2>2. ASSUME NEW x \in HeldOf(s), x.len = Size[r.sc.cls] PROVE Index(r.sc, x.at) \in pm'[s].meta
    <3>1. x \in Of(s) \ {b}
      BY <1>3, <2>2, KeptOf
    <3>2. Index(r.sc, x.at) \in pm[s].meta
      BY <2>1, <2>2 DEF Settled, Noted
    <3>3. QED BY <1>8, <1>c, <2>2, <3>1, <3>2
  <2>3. ASSUME NEW y \in Of(s) \ {b}, y.len # Size[r.sc.cls]
        PROVE  Listing(pm'[s], Index(r.scb, y.at))
    <3>1. Placed(s, r, y) /\ Placed(s, r, b)
      BY <1>3 DEF Exact
    <3>2. Index(r.scb, y.at) # j
      BY <1>3, <1>6, <2>3, <3>1, OldIndex
    <3>3. Listing(pm[s], Index(r.scb, y.at))
      BY <2>1, <2>3 DEF Settled, Tabulated
    <3>4. QED BY <1>8, <3>2, <3>3
  <2>4. Settled(q, pm'[s], HeldOf(s), Of(s) \ {b}, Kept(s))
    <3>1. Noted(pm'[s], HeldOf(s), q.sc)
      BY <1>6, <2>2 DEF Noted
    <3>2. Tabulated(q, pm'[s], Of(s) \ {b})
      BY <1>6, <2>3 DEF Tabulated
    <3>3. Known(Kept(s), q.sc) /\ pm'[s].phase = 0
      BY <1>6, <1>8, <2>1 DEF Settled
    <3>4. QED BY <3>1, <3>2, <3>3 DEF Settled
  <2>5. QED BY <1>7, <1>9, <1>10, <2>4 DEF Still
<1>13. ~Morphs(t) /\ ~Morphs(t)'
  BY <1>1, <1>4 DEF Morphs
<1>14. QED BY <1>3, <1>4, <1>8, <1>11, <1>12, <1>13, OneImages
LEMMA InitImages ==
  ASSUME Init
  PROVE  Images
<1>1. /\ pm = [s \in Slots |-> NewImage] /\ pc = [t \in Threads |-> "idle"] /\ failed = "no"
      /\ v = [s \in Slots |-> NoSlab]
  BY DEF Init
<1>2. Good
  <2>1. ~stale
    BY DEF Init
  <2>2. QED BY <1>1, <2>1, InitGood DEF IndInv
<1>3. \A t \in Threads : ~Morphs(t)
  BY <1>1 DEF Morphs
<1>4. ASSUME NEW s \in Slots PROVE Still(s)
  <2>1. Exact(s, v[s], Of(s))
    BY <1>2, <1>3 DEF Good, Slabwise
  <2>2. v[s].used = {}
    BY <1>1, NewSlabIs
  <2>3. Of(s) = {}
    BY <2>1, <2>2, ExactFacts
  <2>4. HeldOf(s) = {} /\ Kept(s) = {}
    BY <2>3, KeptOf
  <2>5. pm[s].phase = 0
    BY <1>1 DEF NewImage
  <2>6. QED BY <2>3, <2>4, <2>5 DEF Still, Settled, Noted, Tabulated, Known
<1>5. DOMAIN pm = Slots /\ \A s \in Slots : DOMAIN pm[s] = {"phase", "meta", "table"}
  BY <1>1 DEF NewImage
<1>6. QED BY <1>3, <1>4, <1>5 DEF Images

LEMMA NextImages ==
  ASSUME Fine, Next, failed' = "no", ~stale'
  PROVE  Images'
<1>1. ASSUME NEW t \in Threads, Call(t)
      PROVE  Images'
  BY <1>1, MallocHitImages, FillImages, FreeImages, FarFreeImages, ReturnImages DEF Call
<1>2. ASSUME NEW t \in Threads, Fill(t), ~Outdated(t)
      PROVE  Images'
  BY <1>2, FillImages, PopImages, TakeImages, CreateImages, SeizeImages, ReuseImages,
     UnbinImages, TableImages, MetasImages DEF Fill
<1>3. ASSUME NEW t \in Threads, Return(t), ~Outdated(t)
      PROVE  Images'
  BY <1>3, UnsetImages, FreeNewImages, FreeOldImages, ReturnImages, CheckImages, DropImages, FarMarkImages,
     PutBackImages DEF Return
<1>4. CASE FlusherStep
  BY <1>4, WakeImages, FlushImages DEF FlusherStep
<1>5. QED BY <1>1, <1>2, <1>3, <1>4 DEF Next, Inside

LEMMA SameImages ==
  ASSUME Fine, UNCHANGED vars
  PROVE  Images'
<1>1. v' = v /\ pm' = pm /\ cache' = cache /\ held' = held /\ lost' = lost /\ pc' = pc /\ my' = my
  BY DEF vars
<1>2. Others(Flusher) /\ Flusher \notin Threads
  BY <1>1, Names DEF Others
<1>3. \A s \in Slots : Returned(s)' \subseteq Blocks
  BY <1>1, InBlocks DEF Returned
<1>4. QED BY <1>1, <1>2, <1>3, StillImages

LEMMA NextRunImages ==
  ASSUME IndInv, RunImages, [Next]_vars
  PROVE  RunImages'
<1>1. SUFFICES ASSUME failed' = "no", ~stale' PROVE Images'
  BY DEF RunImages
<1>2. failed = "no" /\ ~stale
  <2>1. CASE Next
    <3>1. ~stale
      BY <1>1, <2>1 DEF Next, Call, Inside, FlusherStep
    <3>2. QED BY <2>1, <3>1 DEF Next
  <2>2. CASE UNCHANGED vars
    BY <1>1, <2>2 DEF vars
  <2>3. QED BY <2>1, <2>2
<1>3. IndInv'
  BY NextIndInv
<1>4. Fine
  BY <1>1, <1>2, <1>3 DEF Fine, Ctx, IndInv, RunImages
<1>5. QED BY <1>1, <1>4, NextImages, SameImages

(* In every Clean state what is persistent tells which blocks are out.      *)
THEOREM Imaged == Spec => [](IndInv /\ RunImages)
<1>1. Init => IndInv /\ RunImages
  BY InitGood, InitImages DEF RunImages
<1>2. IndInv /\ RunImages /\ [Next]_vars => (IndInv /\ RunImages)'
  BY NextIndInv, NextRunImages
<1>3. QED BY <1>1, <1>2, PTL DEF Spec

LEMMA IndRecorded ==
  ASSUME IndInv, RunImages
  PROVE  BlocksRecorded
<1>1. SUFFICES ASSUME failed = "no", ~stale, NEW b \in held
               PROVE  LET s  == b.slab
                          sc == MetaLayout(s)
                      IN  \/ b.len = Size[sc.cls] /\ Index(sc, b.at) \in pm[s].meta
                          \/ /\ b.len = Size[v[s].scb.cls]
                             /\ Index(v[s].scb, b.at) \in DOMAIN pm[s].table
                             /\ pm[s].table[Index(v[s].scb, b.at)] = 0
  BY DEF BlocksRecorded, Clean, Running
<1> PICK s : s = b.slab
  OBVIOUS
<1> PICK r : r = v[s]
  OBVIOUS
<1>2. Good /\ Images /\ Types /\ Locks
  BY <1>1 DEF IndInv, RunImages, Good
<1>3. s \in Slots /\ r \in Vslabs /\ b \in Of(s) /\ b \in HeldOf(s)
  <2>1. b \in Blocks
    BY DEF Blocks
  <2>2. QED BY <1>2, <2>1, BlockTypes, GoodTypes DEF Of, HeldOf
<1>4. SUFFICES \/ b.len = Size[MetaLayout(s).cls] /\ Index(MetaLayout(s), b.at) \in pm[s].meta
               \/ b.len = Size[r.scb.cls] /\ Listing(pm[s], Index(r.scb, b.at))
  BY DEF Listing
<1>5. CASE Unmorphed(s)
  <2>1. Exact(s, r, Of(s)) /\ Settled(r, pm[s], HeldOf(s), Of(s), Kept(s))
    BY <1>2, <1>3, <1>5 DEF Good, Slabwise, Unmorphed, Images, Still
  <2>2. MetaLayout(s) = r.sc
    BY <2>1 DEF MetaLayout, Settled
  <2>3. CASE b.len = Size[r.sc.cls]
    BY <1>3, <2>1, <2>2, <2>3 DEF Settled, Noted
  <2>4. CASE b.len # Size[r.sc.cls]
    <3>1. Listing(pm[s], Index(r.scb, b.at))
      BY <1>3, <2>1, <2>4 DEF Settled, Tabulated
    <3>2. b = Block(s, r.scb, Index(r.scb, b.at))
      BY <1>3, <2>1, <2>4, OldBlock DEF Exact
    <3>3. b.len = Size[r.scb.cls]
      BY <3>2 DEF Block
    <3>4. QED BY <3>1, <3>3
  <2>5. QED BY <2>3, <2>4
<1>6. ASSUME NEW u \in Threads, Morphs(u), my[u].cur = s
      PROVE  \/ b.len = Size[MetaLayout(s).cls] /\ Index(MetaLayout(s), b.at) \in pm[s].meta
             \/ b.len = Size[r.scb.cls] /\ Listing(pm[s], Index(r.scb, b.at))
  <2>1. /\ Moving(s, r, Of(s), my[u].old)
        /\ Shifting(r, pm[s], HeldOf(s), Of(s), Kept(s), pc[u])
    BY <1>2, <1>6 DEF Good, Morphing, MorphOK, Images, Moves
  <2>2. MetaLayout(s) = r.scb
    BY <2>1 DEF MetaLayout, Shifting
  <2>3. b.len = Size[r.scb.cls]
    BY <1>3, <2>1 DEF Moving, Block
  <2>4. CASE pc[u] = "metas"
    <3>1. b.len # Size[r.sc.cls]
      BY <1>3, <2>1, MovingApart
    <3>2. QED BY <1>3, <2>1, <2>3, <2>4, <3>1 DEF Shifting, Tabulated
  <2>5. CASE pc[u] # "metas"
    BY <1>3, <2>1, <2>2, <2>3, <2>5 DEF Shifting, Noted
  <2>6. QED BY <2>4, <2>5
<1>7. QED BY <1>5, <1>6 DEF Unmorphed

(* A crash in any Clean state finds every block a client holds on the       *)
(* slab's own pages: the meta bit of the layout that is_mixed tells, or a   *)
(* live entry of the table, through every step of a morphing.               *)
THEOREM Recorded == Spec => []BlocksRecorded
<1>1. QED BY Imaged, IndRecorded, PTL
-----------------------------------------------------------------------------
(* What never ends the program *)

Grave == {"marked", "bitmap", "sb_table", "index"}

(* A block that is out has an index in whatever layout its slab has.        *)
LEMMA Indexed ==
  ASSUME Ctx, NEW b \in Blocks
  PROVE  Index(v[b.slab].sc, b.at) \in 0 .. v[b.slab].sc.n
<1> PICK s : s = b.slab
  OBVIOUS
<1> PICK r : r = v[s]
  OBVIOUS
<1>1. s \in Slots /\ r \in Vslabs /\ b \in Of(s) /\ b \in Blks /\ b.at \in Nat
  BY CtxFacts, BlockTypes, GoodTypes DEF Of
<1>2. r.sc.off <= b.at /\ b.at + b.len <= SlabSize /\ b.len \in Nat \ {0}
  <2>1. CASE Unmorphed(s)
    <3>1. Exact(s, r, Of(s))
      BY <1>1, <2>1, CtxFacts DEF Good, Slabwise, Unmorphed
    <3>2. Placed(s, r, b)
      BY <1>1, <3>1 DEF Exact
    <3>3. QED BY <1>1, <3>2, PlacedFacts
  <2>2. CASE ~Unmorphed(s)
    <3>1. PICK u \in Threads : Morphs(u) /\ my[u].cur = s
      BY <2>2 DEF Unmorphed
    <3> PICK o : o = my[u].old
      OBVIOUS
    <3>2. Moving(s, r, Of(s), o)
      BY <3>1, CtxFacts DEF MorphOK
    <3>3. PICK j \in o : b = Block(s, r.scb, j)
      BY <1>1, <3>2 DEF Moving
    <3>4. r.scb \in LayoutSet /\ j \in 0 .. r.scb.n - 1 /\ r.sc.off <= b.at
      BY <1>1, <3>2, <3>3, SlabType DEF Moving
    <3>5. QED BY <3>3, <3>4, LayoutBlock
  <2>3. QED BY <2>1, <2>2
<1>3. r.sc \in LayoutSet
  BY <1>1, SlabType
<1>4. Covered(r.sc, b) \subseteq 0 .. r.sc.n /\ Index(r.sc, b.at) \in Covered(r.sc, b)
  BY <1>1, <1>2, <1>3, CoveredIn
<1>5. QED BY <1>4

LEMMA StartMild ==
  ASSUME Ctx, NEW t, NEW b \in Blocks, NEW then, Start(t, b, then)
  PROVE  failed' = "no"
<1>1. FailIf(Index(v[b.slab].sc, b.at) \notin 0 .. v[b.slab].sc.n, "index")
  BY Zenon DEF Start
<1>2. QED BY <1>1, Indexed DEF FailIf

LEMMA MildCall ==
  ASSUME Ctx, NEW t \in Threads, Call(t)
  PROVE  failed' \notin Grave
<1>1. ASSUME NEW c \in Classes, MallocHit(t, c) \/ MallocMiss(t, c) PROVE failed' = "no"
  BY <1>1 DEF MallocHit, MallocMiss, Sound
<1>2. ASSUME NEW b \in held, Free(t, b) PROVE failed' = "no"
  <2>1. Start(t, b, "idle") /\ b \in Blocks
    BY Zenon, <1>2 DEF Free, Blocks
  <2>2. QED BY <2>1, StartMild
<1>3. ASSUME NEW b \in held, FarFree(t, b) PROVE failed' = "no"
  BY Zenon, <1>3 DEF FarFree, Sound
<1>4. ASSUME Migrate(t) PROVE failed' = "no"
  BY <1>4 DEF Migrate, Sound
<1>5. QED BY <1>1, <1>2, <1>3, <1>4 DEF Call, Grave

(* The block a thread puts back is the first of a bank of its cache.        *)
LEMMA PutBackMild ==
  ASSUME Ctx, NEW t \in Threads, PutBack(t)
  PROVE  failed' = "no"
<1> DEFINE c == Min(AllFilled(t))
           k == Min(Filled(t, c))
           l == cache[t][c][k]
<1>1. AllFilled(t) # {} /\ Start(t, Front(l).blk, "putback")
  BY Zenon DEF PutBack
<1>2. c \in Classes /\ k \in Banks /\ l # <<>>
  <2>1. AllFilled(t) \subseteq Nat /\ AllFilled(t) \subseteq Classes
    BY SlabsAssumption DEF AllFilled
  <2>2. c \in AllFilled(t)
    BY <1>1, <2>1, MinIn
  <2>3. c \in Classes /\ Filled(t, c) # {}
    BY <2>2 DEF AllFilled
  <2> HIDE DEF c
  <2>4. Filled(t, c) \subseteq Nat
    BY SlabsAssumption DEF Filled, Banks
  <2>5. k \in Filled(t, c)
    BY <2>3, <2>4, MinIn
  <2>6. QED BY <2>3, <2>5 DEF Filled
<1> HIDE DEF c, k
<1>3. l \in Seq(Entries) /\ NoTwice(l)
  BY <1>2, CtxFacts DEF Good, Types, Once
<1>4. BlksIn(l) \subseteq Blocks
  BY <1>2, InBlocks
<1> HIDE DEF l
<1>5. Front(l).blk \in BlksIn(l)
  BY <1>2, <1>3, BankTail
<1>6. QED BY <1>1, <1>4, <1>5, StartMild

LEMMA MildFill ==
  ASSUME NEW t \in Threads, Fill(t), ~Pop(t), ~Seize(t), ~Table(t), ~Metas(t)
  PROVE  failed' \notin Grave
<1>1. ASSUME PopNone(t) \/ PopFull(t) \/ Take(t) \/ Get(t) \/ Search(t) \/ WalkEnd(t) \/ WalkOn(t)
             \/ Create(t) \/ Insert(t)
      PROVE  Sound
  <2>1. PopNone(t) => Sound
    BY Zenon DEF PopNone
  <2>2. PopFull(t) \/ Take(t) \/ Get(t) \/ Search(t) \/ WalkEnd(t) => Sound
    BY Zenon DEF PopFull, Take, Get, Search, WalkEnd
  <2>3. WalkOn(t) \/ Create(t) \/ Insert(t) => Sound
    BY Zenon DEF WalkOn, Create, Insert
  <2>4. QED BY Zenon, <1>1, <2>1, <2>2, <2>3
<1>2. ASSUME SetLen(t) PROVE failed' \in {"morphing_len", "no"}
  <2>1. FailIf(morphLen' > lruLen, "morphing_len")
    BY Zenon, <1>2 DEF SetLen
  <2>2. QED BY <2>1 DEF FailIf
<1>3. ASSUME Touch(t) PROVE failed' \in {"LRU_dlnode", "no"}
  <2>1. FailIf(my[t].cur \notin Members(lru), "LRU_dlnode")
    BY Zenon, <1>3 DEF Touch
  <2>2. QED BY <2>1 DEF FailIf
<1>4. ASSUME NEW last, Rebin(t, last) PROVE failed' \in {"unlinked", "no"}
  <2>1. \E x : FailIf(x, "unlinked")
    BY Zenon, <1>4 DEF Rebin
  <2>2. QED BY <2>1 DEF FailIf
<1>5. ASSUME Reuse(t) \/ Unbin(t) PROVE failed' \in {"unlinked", "no"}
  <2>1. Rebin(t, TRUE) \/ Rebin(t, FALSE)
    BY Zenon, <1>5 DEF Reuse, Unbin
  <2>2. QED BY <1>4, <2>1
<1>6. QED BY <1>1, <1>2, <1>3, <1>5 DEF Fill, Sound, Grave

LEMMA MildReturn ==
  ASSUME NEW t \in Threads, Return(t), ~FreeOld(t), ~PutBack(t)
  PROVE  failed' \notin Grave
<1>1. ASSUME Freed(t) \/ Relist(t) \/ Settle(t) PROVE Sound
  BY Zenon, <1>1 DEF Freed, Relist, Settle
<1>2. ASSUME Unset(t) \/ FreeNew(t) PROVE Sound
  BY Zenon, <1>2 DEF Unset, FreeNew
<1>3. ASSUME Unlink(t) PROVE failed' \in {"unlinked", "no"}
  <2>1. \E x : FailIf(x, "unlinked")
    BY Zenon, <1>3 DEF Unlink
  <2>2. QED BY <2>1 DEF FailIf
<1>4. ASSUME NEW s, NEW l, Destroy(t, s, l) PROVE failed' \notin Grave
  <2>1. \E x : FailIf(x, "freed slab")
    BY Zenon, <1>4 DEF Destroy
  <2>2. QED BY Zenon, <2>1 DEF FailIf, Grave
<1>5. ASSUME Check(t) PROVE failed' \notin Grave
  <2>1. Sound \/ Destroy(t, my[t].cur, lru)
    BY Zenon, <1>5 DEF Check
  <2>2. QED BY <1>4, <2>1 DEF Sound, Grave
<1>6. ASSUME Drop(t) PROVE failed' \notin Grave
  <2>1. Destroy(t, my[t].cur, Without(lru, my[t].cur)) \/ failed' = "LRU_dlnode"
    BY Zenon, <1>6 DEF Drop
  <2>2. QED BY <1>4, <2>1 DEF Grave
<1>7. ASSUME FarMark(t) PROVE failed' \in {"wild", "no"}
  <2>1. \E x : FailIf(x, "wild")
    BY Zenon, <1>7 DEF FarMark
  <2>2. QED BY <2>1 DEF FailIf
<1>8. ASSUME Enlist(t) PROVE failed' \in {"numa_list", "no"}
  <2>1. \E x : FailIf(x, "numa_list")
    BY Zenon, <1>8 DEF Enlist
  <2>2. QED BY <2>1 DEF FailIf
<1>9. QED BY <1>1, <1>2, <1>3, <1>5, <1>6, <1>7, <1>8 DEF Return, Sound, Grave

(* A slab that is to be morphed has blocks of its own layout only, and its  *)
(* class is not the one that looks for a slab.                              *)
LEMMA SeizeMild ==
  ASSUME Ctx, NEW t \in Threads, Seize(t)
  PROVE  failed' = "no"
<1> PICK s : s = my[t].cur
  OBVIOUS
<1> PICK c : c = my[t].cls
  OBVIOUS
<1>2. pc[t] = "seize" /\ slabLock[s] = None
  BY Zenon DEF Seize
<1>3. s \in Slots /\ my[t] \in Works /\ s \in Members(lru) /\ v[s].sc.cls # c /\ c \in Classes
  <2>1. s \in Slots /\ my[t] \in Works
    BY <1>2, CtxFacts DEF OnSlab
  <2>2. s \in Members(lru) /\ v[s].sc.cls # c
    BY <1>2, CtxFacts DEF Good, Aged, Walks
  <2>3. QED BY <2>1, <2>2, WorkType
<1>4. \A u \in Threads : pc[u] \in InMorph => my[u].cur # s
  BY <1>2, <1>3, NotInMorph, CtxFacts DEF InMorph
<1>5. Exact(s, v[s], Of(s)) /\ v[s] \in Vslabs
  BY <1>3, <1>4, AtRest, CtxFacts, GoodTypes
<1>6. v[s].numb = 0
  <2>1. Listed(s)
    BY <1>3, CtxFacts DEF Good, Aged
  <2>2. QED BY <1>4, <2>1 DEF Listed, InMorph
<1>7. OldOf(v[s], Of(s)) = {}
  BY <1>5, <1>6, ExactFacts
<1>8. ASSUME NEW k \in Banks, NEW e \in Members(cache[t][c][k]), e.blk.slab = s PROVE FALSE
  <2>1. e.blk \in BlksIn(cache[t][c][k])
    BY DEF Members, BlksIn
  <2>2. e.blk \in Blocks
    BY <1>3, <2>1, InBlocks
  <2>3. e.blk.len = Size[c] /\ e.blk \in Of(s)
    BY <1>3, <1>8, <2>2, CtxFacts DEF Good, Once, Of
  <2>4. Size[c] = Size[v[s].sc.cls]
    BY <1>7, <2>3 DEF OldOf
  <2>5. v[s].sc.cls \in Classes
    BY <1>5, SlabType, LayoutType
  <2>6. QED BY <1>3, <2>4, <2>5, SlabsAssumption
<1>9. ASSUME NEW i \in v[s].used PROVE ~(i >= v[s].sc.n)
  <2>1. i \in Indices /\ Over(v[s], Of(s), i) = {}
    BY <1>5, <1>7, SlabType DEF Over
  <2>2. Block(s, v[s].sc, i) \in Of(s)
    BY <1>5, <2>1 DEF Exact
  <2>3. i \in 0 .. v[s].sc.n - 1 /\ v[s].sc.n \in Nat
    BY <1>5, <2>1, <2>2, ExactFacts, SlabType, LayoutType
  <2>4. QED BY <2>3
<1>10. Keeps(v[s]) => v[s].used # {}
  BY <1>5, ExactFacts DEF Keeps
<1> DEFINE marks == \E k \in Banks : \E e \in Members(cache[t][c][k]) : e.blk.slab = s
           unfit == (\E i \in v[s].used : i >= v[s].sc.n) \/ (Keeps(v[s]) /\ v[s].used = {})
<1>11. failed' = IF marks THEN "marked" ELSE IF unfit THEN "bitmap" ELSE "no"
  BY Zenon DEF Seize
<1>12. ~marks /\ ~unfit
  BY <1>8, <1>9, <1>10
<1>13. QED BY <1>11, <1>12

LEMMA PopMild ==
  ASSUME Ctx, NEW t \in Threads, Pop(t)
  PROVE  failed' = "no"
<1> PICK s : s = my[t].cur
  OBVIOUS
<1> PICK c : c = my[t].cls
  OBVIOUS
<1> PICK r : r = PopFrom(s)
  OBVIOUS
<1> PICK i : i = Min(Indices \ r.used)
  OBVIOUS
<1>1. FailIf(v[s].nbits \notin 0 .. v[s].sc.n \/ i >= r.sc.n, "bitmap") /\ ~Refuses(v[s], c)
  BY Zenon DEF Pop, PopFrom
<1>2. /\ Roomy(s, c) /\ s \in Slots /\ v[s].sc.cls = c /\ r.sc.n \in Nat /\ i \in 0 .. r.sc.n - 1
      /\ r \in Vslabs /\ r.sc = v[s].sc
  BY PopFacts
<1>3. v[s].nbits \in Nat /\ r.nbits \in Nat
  BY <1>2, CtxFacts, GoodTypes, SlabType
<1>4. v[s].nbits <= v[s].sc.n
  BY <1>2, <1>3 DEF Roomy
<1>5. ~(v[s].nbits \notin 0 .. v[s].sc.n \/ i >= r.sc.n)
  BY <1>2, <1>3, <1>4
<1>6. QED BY <1>1, <1>5 DEF FailIf

LEMMA MaxIn ==
  ASSUME NEW S \in SUBSET Nat, S # {}, NEW n \in Nat, \A x \in S : x <= n
  PROVE  Max(S) \in S
<1> DEFINE T == {n - x : x \in S}
<1>1. T \in SUBSET Nat /\ T # {}
  <2>1. \A x \in S : x \in Nat /\ x <= n
    OBVIOUS
  <2>2. \A x \in S : n - x \in Nat
    BY <2>1
  <2>3. QED BY <2>2
<1> HIDE DEF T
<1>2. Min(T) \in T /\ \A y \in T : Min(T) <= y
  BY <1>1, MinIn
<1>3. PICK x \in S : Min(T) = n - x
  BY <1>2 DEF T
<1>4. \A y \in S : y <= x
  <2>1. TAKE y \in S
  <2>2. n - y \in T
    BY DEF T
  <2>3. n - x <= n - y
    BY <1>2, <1>3, <2>2
  <2>4. QED BY <2>3
<1>5. \E z \in S : \A y \in S : z >= y
  BY <1>4
<1>6. QED BY <1>5 DEF Max

LEMMA TableMild ==
  ASSUME Ctx, NEW t \in Threads, Table(t)
  PROVE  failed' = "no"
<1> PICK s : s = my[t].cur
  OBVIOUS
<1>1. pc[t] = "table" /\ FailIf(Cardinality(my[t].old) # v[s].numb, "sb_table")
  BY Zenon DEF Table
<1>2. Moving(s, v[s], Of(s), my[t].old)
  BY <1>1, CtxFacts DEF MorphOK, Morphs
<1>3. QED BY <1>1, <1>2 DEF Moving, FailIf

LEMMA MetasMild ==
  ASSUME Ctx, NEW t \in Threads, Metas(t)
  PROVE  failed' = "no"
<1> PICK s : s = my[t].cur
  OBVIOUS
<1> PICK n : n = v[s].sc.n
  OBVIOUS
<1> PICK U : U = InUse(Overs(s, v[s].sc, my[t].sc, my[t].old))
  OBVIOUS
<1>1. pc[t] = "metas" /\ FailIf(Max(U) > n \/ Cardinality(U) > n + 1, "bitmap")
  BY Zenon DEF Metas, Overs, InUse
<1>2. s \in Slots /\ v[s] \in Vslabs
  BY <1>1, AtMorph
<1>3. Moving(s, v[s], Of(s), my[t].old) /\ my[t].sc = v[s].scb
  BY <1>1, CtxFacts DEF MorphOK, Morphs
<1>4. U # {} /\ U \subseteq 0 .. n
  BY <1>3, MovingEnds
<1>5. n \in Nat /\ U \in SUBSET Nat /\ \A x \in U : x <= n
  <2>1. n \in Nat
    BY <1>2, SlabType, LayoutType
  <2>2. QED BY <1>4, <2>1
<1>6. Max(U) <= n
  <2>1. Max(U) \in U
    BY <1>4, <1>5, MaxIn
  <2>2. QED BY <1>4, <1>5, <2>1
<1>7. Cardinality(U) <= n + 1 /\ Cardinality(U) \in Nat
  <2>1. IsFiniteSet(U) /\ Cardinality(U) <= n + 1
    BY <1>5, FS_BoundedSetOfNaturals
  <2>2. QED BY <2>1, FS_CardinalityType
<1>8. Max(U) \in Int
  <2>1. Max(U) \in U
    BY <1>4, <1>5, MaxIn
  <2>2. QED BY <1>4, <2>1
<1>9. ~(Max(U) > n \/ Cardinality(U) > n + 1)
  BY <1>5, <1>6, <1>7, <1>8
<1>10. QED BY <1>1, <1>9 DEF FailIf

LEMMA FreeOldMild ==
  ASSUME Ctx, Images, NEW t \in Threads, FreeOld(t), ~Outdated(t)
  PROVE  failed' = "no"
<1> PICK s : s = my[t].cur
  OBVIOUS
<1> PICK j : j = Index(my[t].scb, my[t].blk.at)
  OBVIOUS
<1>1. /\ pc[t] = "old" /\ slabLock[s] = None
      /\ j \in DOMAIN pm[s].table /\ my[t].sc = v[s].sc => Sound
  BY Zenon DEF FreeOld
<1>2. my[t].sc = v[s].sc /\ my[t].scb = v[s].scb
  BY <1>1 DEF Outdated
<1>3. Listing(pm[s], j)
  BY <1>1, <1>2, OldInTable
<1>4. QED BY <1>1, <1>2, <1>3 DEF Sound, Listing

LEMMA NextMild ==
  ASSUME Ctx, Images, Next, ~stale'
  PROVE  failed' \notin Grave
<1>1. ASSUME NEW t \in Threads, Fill(t)
      PROVE  failed' \notin Grave
  BY <1>1, MildFill, SeizeMild, PopMild, TableMild, MetasMild DEF Grave
<1>2. ASSUME NEW t \in Threads, Return(t), ~Outdated(t)
      PROVE  failed' \notin Grave
  BY <1>2, MildReturn, FreeOldMild, PutBackMild DEF Grave
<1>3. CASE FlusherStep
  <2>1. Sound
    BY Zenon, <1>3 DEF FlusherStep, Wake, Flush, FlushEnd
  <2>2. QED BY <2>1 DEF Sound, Grave
<1>4. QED BY <1>1, <1>2, <1>3, MildCall DEF Next, Inside

Mild == ~stale => failed \notin Grave

LEMMA StepMild ==
  ASSUME IndInv, RunImages, Mild, [Next]_vars
  PROVE  Mild'
<1>1. CASE Next
  <2>1. SUFFICES ASSUME ~stale' PROVE failed' \notin Grave
    BY DEF Mild
  <2>2. ~stale
    BY <1>1, <2>1 DEF Next, Call, Inside, FlusherStep
  <2>3. failed = "no" /\ IndInv'
    BY <1>1, NextIndInv DEF Next
  <2>4. Ctx /\ Images
    BY <2>1, <2>2, <2>3 DEF Ctx, IndInv, RunImages
  <2>5. QED BY <1>1, <2>1, <2>4, NextMild
<1>2. CASE UNCHANGED vars
  BY <1>2 DEF vars, Mild
<1>3. QED BY <1>1, <1>2

LEMMA AlwaysMild == Spec => []Mild
<1>1. Init => Mild
  BY DEF Init, Grave, Mild
<1>2. IndInv /\ RunImages /\ Mild /\ [Next]_vars => Mild'
  BY StepMild
<1>3. QED BY <1>1, <1>2, Imaged, PTL DEF Spec

(* slab_morphing finds no entry of the slab in the cache of the class it    *)
(* morphs to: is_sb is not set before a step works with an outdated layout. *)
THEOREM Unmarked == Spec => []NeverMarks
<1>1. Mild => NeverMarks
  BY DEF Grave, NeverMarks, Mild
<1>2. QED BY <1>1, AlwaysMild, PTL

(* The asserts on the bitmaps of slab_pop_one_cache and slab_morphing, on   *)
(* the entries of sb_table and on the index of a block that is freed do not *)
(* fail before a step works with an outdated layout.                        *)
THEOREM SoundBitmaps == Spec => []BitmapsSound
<1>1. Mild => BitmapsSound
  BY DEF Grave, BitmapsSound, Mild
<1>2. QED BY <1>1, AlwaysMild, PTL
-----------------------------------------------------------------------------
(* Held blocks are runs of a heap *)

Spaces == 0 .. NSlabs * SlabSize - 1

(* No two blocks of a set lie over one another, wherever their slabs are.   *)
Spread(H) ==
  /\ \A b \in H : /\ Place(b) \in Spaces /\ b.len \in Nat \ {0}
                  /\ Place(b) + b.len <= NSlabs * SlabSize
  /\ \A a, b \in H : a # b => Place(a) + a.len <= Place(b) \/ Place(b) + b.len <= Place(a)

LEMMA Multiples ==
  ASSUME NEW m \in Nat, NEW n \in Nat, m < n, NEW S \in Nat
  PROVE  m * S + S <= n * S /\ m * S \in Nat /\ n * S \in Nat
<1>1. PICK d \in Nat : n = m + 1 + d
  <2>1. n - m - 1 \in Nat /\ n = m + 1 + (n - m - 1)
    OBVIOUS
  <2>2. QED BY <2>1
<1>2. n * S = m * S + S + d * S
  BY <1>1
<1>3. m * S \in Nat /\ d * S \in Nat /\ n * S \in Nat
  BY <1>1
<1>4. QED BY <1>2, <1>3

LEMMA IndSpread ==
  ASSUME IndInv, failed = "no", ~stale
  PROVE  Spread(Blocks)
<1>1. NSlabs \in Nat /\ SlabSize \in Nat
  BY SlabsAssumption
<1>2. Types /\ Good
  BY DEF IndInv, Good
<1>3. ASSUME NEW b \in Blocks
      PROVE  /\ b.slab \in Nat /\ b.slab < NSlabs /\ b.at \in Nat /\ b.len \in Nat \ {0}
             /\ b.at + b.len <= SlabSize
  <2>1. b.slab \in Slots /\ b \in Blks /\ b.at \in Nat
    BY <1>2, BlockTypes
  <2>2. b.at + b.len <= SlabSize
    BY IndApart DEF BlocksApart, Clean, Running
  <2>3. b.len \in Nat \ {0}
    <3> PICK s : s = b.slab
      OBVIOUS
    <3>1. b \in Of(s)
      BY DEF Of
    <3>2. CASE \A u \in Threads : Morphs(u) => my[u].cur # s
      <4>1. Exact(s, v[s], Of(s)) /\ v[s] \in Vslabs
        BY <1>2, <2>1, <3>2, GoodTypes DEF Good, Slabwise
      <4>2. QED BY <3>1, <4>1, PlacedFacts DEF Exact
    <3>3. ASSUME NEW u \in Threads, Morphs(u), my[u].cur = s PROVE b.len \in Nat \ {0}
      <4>1. Moving(s, v[s], Of(s), my[u].old)
        BY <1>2, <3>3 DEF Good, Morphing, MorphOK
      <4>2. b.len = Size[v[s].scb.cls] /\ v[s].scb \in LayoutSet
        BY <3>1, <4>1, SlabType DEF Moving, Block
      <4>3. QED BY <4>2, LayoutType, SlabsAssumption
    <3>4. QED BY <3>2, <3>3
  <2>4. QED BY <1>1, <2>1, <2>2, <2>3 DEF Slots
<1>4. ASSUME NEW b \in Blocks
      PROVE  Place(b) \in Spaces /\ Place(b) + b.len <= NSlabs * SlabSize
  <2> PICK x, y, z : x = b.slab * SlabSize /\ y = b.slab * SlabSize + SlabSize /\ z = NSlabs * SlabSize
    OBVIOUS
  <2>1. y <= z /\ x \in Nat /\ z \in Nat /\ y = x + SlabSize
    <3>1. b.slab \in Nat /\ b.slab < NSlabs
      BY <1>3
    <3>2. /\ b.slab * SlabSize + SlabSize <= NSlabs * SlabSize
          /\ b.slab * SlabSize \in Nat /\ NSlabs * SlabSize \in Nat
      BY <1>1, <3>1, Multiples
    <3>3. y = x + SlabSize
      BY Zenon
    <3>4. QED BY <3>2, <3>3, Zenon
  <2>2. Place(b) = x + b.at /\ Spaces = 0 .. z - 1
    BY DEF Place, Spaces
  <2>3. x + b.at \in 0 .. z - 1 /\ x + b.at + b.len <= z
    <3>1. ASSUME NEW m \in Nat, NEW n \in Nat \ {0}, m + n <= SlabSize
          PROVE  x + m \in 0 .. z - 1 /\ x + m + n <= z
      <4>1. x + m + n <= z
        BY <1>1, <2>1, <3>1
      <4>2. QED BY <2>1, <3>1, <4>1
    <3>2. b.at \in Nat /\ b.len \in Nat \ {0} /\ b.at + b.len <= SlabSize
      BY <1>3
    <3>3. QED BY <3>1, <3>2
  <2>4. QED BY <2>2, <2>3
<1>5. ASSUME NEW a \in Blocks, NEW b \in Blocks, a.slab < b.slab
      PROVE  Place(a) + a.len <= Place(b)
  <2> PICK x, y : x = a.slab * SlabSize /\ y = b.slab * SlabSize
    OBVIOUS
  <2>1. x + SlabSize <= y /\ x \in Nat /\ y \in Nat
    BY <1>1, <1>3, <1>5, Multiples
  <2>2. Place(a) = x + a.at /\ Place(b) = y + b.at
    BY DEF Place
  <2>3. x + a.at + a.len <= y + b.at
    BY <1>1, <1>3, <2>1
  <2>4. QED BY <2>2, <2>3
<1>6. ASSUME NEW a \in Blocks, NEW b \in Blocks, a # b, a.slab = b.slab
      PROVE  Place(a) + a.len <= Place(b) \/ Place(b) + b.len <= Place(a)
  <2> PICK x : x = a.slab * SlabSize
    OBVIOUS
  <2>1. x \in Nat
    BY <1>1, <1>3
  <2>2. Place(a) = x + a.at /\ Place(b) = x + b.at
    BY <1>6 DEF Place
  <2>3. a.at + a.len <= b.at \/ b.at + b.len <= a.at
    BY <1>6, IndApart DEF BlocksApart, Clean, Running
  <2>4. \/ x + a.at + a.len <= x + b.at
        \/ x + b.at + b.len <= x + a.at
    BY <1>3, <2>1, <2>3
  <2>5. QED BY <2>2, <2>4
<1>7. \A a, b \in Blocks : a # b => Place(a) + a.len <= Place(b) \/ Place(b) + b.len <= Place(a)
  <2> TAKE a \in Blocks, b \in Blocks
  <2>1. a.slab < b.slab \/ b.slab < a.slab \/ a.slab = b.slab
    BY <1>3
  <2>2. QED BY <1>5, <1>6, <2>1
<1>8. QED BY <1>3, <1>4, <1>7 DEF Spread

(* What Runs reads in a set of blocks that are spread.                      *)
LEMMA RunAt ==
  ASSUME NEW H, Spread(H)
  PROVE  /\ DOMAIN Runs(H) = Spaces
         /\ \A b \in H : Runs(H)[Place(b)] = b.len
         /\ \A p \in Spaces : (\A b \in H : Place(b) # p) => Runs(H)[p] = 0
<1>1. Runs(H) = [p \in Spaces |-> IF {b \in H : Place(b) = p} = {} THEN 0
                                  ELSE (CHOOSE b \in {b \in H : Place(b) = p} : TRUE).len]
  BY DEF Runs, Spaces
<1>2. ASSUME NEW b \in H PROVE Runs(H)[Place(b)] = b.len
  <2> PICK p : p = Place(b)
    OBVIOUS
  <2>1. p \in Spaces
    BY DEF Spread
  <2>2. \A a \in H : Place(a) = p => a = b
    <3> TAKE a \in H
    <3>1. SUFFICES ASSUME Place(a) = p, a # b PROVE FALSE
      OBVIOUS
    <3>2. p + a.len <= p \/ p + b.len <= p
      BY <3>1 DEF Spread
    <3>3. p \in Int /\ a.len \in Nat \ {0} /\ b.len \in Nat \ {0}
      <4>1. Spaces \subseteq Int
        BY DEF Spaces
      <4>2. QED BY <2>1, <4>1 DEF Spread
    <3>4. QED BY <3>2, <3>3
  <2> DEFINE here == {a \in H : Place(a) = p}
  <2>3. here = {b}
    BY <2>2
  <2>4. Runs(H)[p] = IF here = {} THEN 0 ELSE (CHOOSE a \in here : TRUE).len
    BY <1>1, <2>1
  <2> HIDE DEF here
  <2>5. (CHOOSE a \in here : TRUE) = b
    BY <2>3
  <2>6. QED BY <2>3, <2>4, <2>5
<1>3. ASSUME NEW p \in Spaces, \A b \in H : Place(b) # p PROVE Runs(H)[p] = 0
  <2>1. {b \in H : Place(b) = p} = {}
    BY <1>3
  <2>2. QED BY <1>1, <2>1
<1>4. DOMAIN Runs(H) = Spaces
  BY <1>1
<1>5. QED BY <1>2, <1>3, <1>4

(* A heap step in terms of the blocks a client holds.                       *)
TakesRun(H, e) ==
  /\ Runs(H)[Place(e)] = 0 /\ Place(e) + e.len <= NSlabs * SlabSize
  /\ \A q \in Spaces : Runs(H)[q] > 0 => Place(e) + e.len <= q \/ q + Runs(H)[q] <= Place(e)
  /\ Runs(H \union {e}) = [Runs(H) EXCEPT ![Place(e)] = e.len]
GivesRun(H, e) ==
  /\ Runs(H)[Place(e)] > 0
  /\ Runs(H \ {e}) = [Runs(H) EXCEPT ![Place(e)] = 0]

LEMMA RunsApart ==
  ASSUME NEW H, Spread(H), NEW a \in H, NEW b \in H, a # b
  PROVE  Place(a) # Place(b)
<1>1. Place(a) \in Spaces /\ Place(b) \in Spaces /\ Spaces \subseteq Int
  BY DEF Spread, Spaces
<1>2. Place(a) + a.len <= Place(b) \/ Place(b) + b.len <= Place(a)
  BY DEF Spread
<1>3. a.len \in Nat \ {0} /\ b.len \in Nat \ {0}
  BY DEF Spread
<1>4. ASSUME NEW p \in Int, NEW q \in Int, NEW m \in Nat \ {0}, NEW n \in Nat \ {0},
             p + m <= q \/ q + n <= p
      PROVE  p # q
  BY <1>4
<1>5. QED BY <1>1, <1>2, <1>3, <1>4

LEMMA RunsForm ==
  ASSUME NEW H
  PROVE  Runs(H) = [p \in Spaces |-> Runs(H)[p]]
BY DEF Runs, Spaces

LEMMA RunTaken ==
  ASSUME NEW H, NEW e, e \notin H, Spread(H \union {e})
  PROVE  TakesRun(H, e)
<1> PICK G : G = H \union {e}
  OBVIOUS
<1>1. Spread(G) /\ Spread(H) /\ e \in G /\ H \subseteq G
  BY DEF Spread
<1>2. \A b \in H : Place(b) # Place(e)
  BY <1>1, RunsApart
<1>3. Place(e) \in Spaces /\ Place(e) + e.len <= NSlabs * SlabSize
  BY <1>1 DEF Spread
<1>4. Runs(H)[Place(e)] = 0
  BY <1>1, <1>2, <1>3, RunAt
<1>5. ASSUME NEW q \in Spaces, Runs(H)[q] > 0
      PROVE  Place(e) + e.len <= q \/ q + Runs(H)[q] <= Place(e)
  <2>1. PICK b \in H : Place(b) = q
    <3>1. Runs(H)[q] # 0
      BY <1>5
    <3>2. QED BY <1>1, <3>1, RunAt
  <2>2. Runs(H)[q] = b.len
    BY <1>1, <2>1, RunAt
  <2>3. Place(e) + e.len <= Place(b) \/ Place(b) + b.len <= Place(e)
    BY <1>1 DEF Spread
  <2>4. QED BY <2>1, <2>2, <2>3
<1>6. ASSUME NEW p \in Spaces
      PROVE  Runs(G)[p] = IF p = Place(e) THEN e.len ELSE Runs(H)[p]
  <2>1. CASE p = Place(e)
    BY <1>1, <2>1, RunAt
  <2>2. CASE p # Place(e) /\ \E b \in H : Place(b) = p
    BY <1>1, <2>2, RunAt
  <2>3. CASE p # Place(e) /\ \A b \in H : Place(b) # p
    BY <1>1, <2>3, RunAt
  <2>4. QED BY <2>1, <2>2, <2>3
<1>7. Runs(G) = [Runs(H) EXCEPT ![Place(e)] = e.len]
  <2>1. Runs(G) = [p \in Spaces |-> Runs(G)[p]] /\ DOMAIN Runs(H) = Spaces
    BY <1>1, RunsForm, RunAt
  <2> PICK g, h : g = Runs(G) /\ h = Runs(H)
    OBVIOUS
  <2>2. g = [h EXCEPT ![Place(e)] = e.len]
    BY <1>6, <2>1
  <2>3. QED BY <2>2
<1>8. QED BY <1>3, <1>4, <1>5, <1>7 DEF TakesRun

LEMMA RunGiven ==
  ASSUME NEW H, NEW e \in H, Spread(H)
  PROVE  GivesRun(H, e)
<1> PICK G : G = H \ {e}
  OBVIOUS
<1>1. Spread(G) /\ G \subseteq H
  BY DEF Spread
<1>2. \A b \in G : Place(b) # Place(e)
  BY RunsApart
<1>3. Place(e) \in Spaces /\ e.len \in Nat \ {0}
  BY DEF Spread
<1>4. Runs(H)[Place(e)] > 0
  BY <1>3, RunAt
<1>5. ASSUME NEW p \in Spaces
      PROVE  Runs(G)[p] = IF p = Place(e) THEN 0 ELSE Runs(H)[p]
  <2>1. CASE p = Place(e)
    BY <1>1, <1>2, <2>1, RunAt
  <2>2. CASE p # Place(e) /\ \E b \in G : Place(b) = p
    BY <1>1, <2>2, RunAt
  <2>3. CASE p # Place(e) /\ \A b \in G : Place(b) # p
    BY <1>1, <2>3, RunAt
  <2>4. QED BY <2>1, <2>2, <2>3
<1>6. Runs(G) = [Runs(H) EXCEPT ![Place(e)] = 0]
  <2>1. Runs(G) = [p \in Spaces |-> Runs(G)[p]] /\ DOMAIN Runs(H) = Spaces
    BY <1>1, RunsForm, RunAt
  <2> PICK g, h : g = Runs(G) /\ h = Runs(H)
    OBVIOUS
  <2>2. g = [h EXCEPT ![Place(e)] = 0]
    BY <1>5, <2>1
  <2>3. QED BY <2>2
<1>7. QED BY <1>4, <1>6 DEF GivesRun
(* The steps that change what clients hold.                                 *)
HeldStep ==
  \/ held' = held
  \/ \E t \in Threads, c \in Classes : TakeFrom(t, c) /\ Filled(t, c) # {}
  \/ \E b \in held : held' = held \ {b}

LEMMA TakeHolds ==
  ASSUME Ctx, NEW t \in Threads, Take(t)
  PROVE  HeldStep
<1>1. TakeFrom(t, my[t].cls) /\ pc[t] = "take"
  BY Zenon DEF Take
<1>2. my[t].cls \in Classes /\ Filled(t, my[t].cls) # {}
  BY <1>1, CtxFacts, WorkType DEF FillOK, Ready, Filled
<1>3. QED BY <1>1, <1>2 DEF HeldStep

LEMMA FillHolds ==
  ASSUME NEW t \in Threads, Fill(t), ~Take(t)
  PROVE  held' = held
<1>1. CASE PopNone(t) \/ Pop(t) \/ SetLen(t) \/ Touch(t) \/ PopFull(t) \/ Get(t) \/ Search(t)
  <2>1. held' = held
    <3>1. PopNone(t) => held' = held
      BY Zenon DEF PopNone, cacheVars
    <3>2. Pop(t) => held' = held
      BY Zenon DEF Pop, cacheVars
    <3>3. SetLen(t) => held' = held
      BY Zenon DEF SetLen, cacheVars
    <3>4. Touch(t) => held' = held
      BY Zenon DEF Touch, cacheVars
    <3>5. PopFull(t) => held' = held
      BY Zenon DEF PopFull, cacheVars
    <3>6. Get(t) => held' = held
      BY Zenon DEF Get, cacheVars
    <3>7. Search(t) => held' = held
      BY Zenon DEF Search, cacheVars
    <3>8. QED BY <1>1, <3>1, <3>2, <3>3, <3>4, <3>5, <3>6, <3>7
  <2>2. QED BY <2>1
<1>2. CASE WalkEnd(t) \/ WalkOn(t) \/ Create(t) \/ Insert(t) \/ Seize(t) \/ Reuse(t) \/ Unbin(t)
           \/ Table(t) \/ Metas(t)
  <2>1. held' = held
    <3>1. WalkEnd(t) => held' = held
      BY Zenon DEF WalkEnd, cacheVars
    <3>2. WalkOn(t) => held' = held
      BY Zenon DEF WalkOn, cacheVars
    <3>3. Create(t) => held' = held
      BY Zenon DEF Create, cacheVars
    <3>4. Insert(t) => held' = held
      BY Zenon DEF Insert, cacheVars
    <3>5. Seize(t) => held' = held
      BY Zenon DEF Seize, cacheVars
    <3>6. Reuse(t) => held' = held
      BY Zenon DEF Reuse, cacheVars
    <3>7. Unbin(t) => held' = held
      BY Zenon DEF Unbin, cacheVars
    <3>8. Table(t) => held' = held
      BY Zenon DEF Table, cacheVars
    <3>9. Metas(t) => held' = held
      BY Zenon DEF Metas, cacheVars
    <3>10. QED BY <1>2, <3>1, <3>2, <3>3, <3>4, <3>5, <3>6, <3>7, <3>8, <3>9
  <2>2. QED BY <2>1
<1>3. QED BY <1>1, <1>2 DEF Fill

LEMMA ReturnHolds ==
  ASSUME NEW t \in Threads, Return(t)
  PROVE  held' = held
<1>1. CASE FreeNew(t) \/ Freed(t) \/ FreeOld(t) \/ Relist(t) \/ Unlink(t) \/ Check(t) \/ Drop(t)
  <2>1. held' = held
    <3>1. FreeNew(t) => held' = held
      BY Zenon DEF FreeNew, cacheVars
    <3>2. Freed(t) => held' = held
      BY Zenon DEF Freed, cacheVars
    <3>3. FreeOld(t) => held' = held
      BY Zenon DEF FreeOld, cacheVars
    <3>4. Relist(t) => held' = held
      BY Zenon DEF Relist, cacheVars
    <3>5. Unlink(t) => held' = held
      BY Zenon DEF Unlink, cacheVars
    <3>6. Check(t) => held' = held
      BY Zenon DEF Check, cacheVars
    <3>7. Drop(t) => held' = held
      BY Zenon DEF Drop, cacheVars
    <3>8. QED BY <1>1, <3>1, <3>2, <3>3, <3>4, <3>5, <3>6, <3>7
  <2>2. QED BY <2>1
<1>2. CASE Unset(t) \/ FarMark(t) \/ Enlist(t) \/ PutBack(t) \/ Settle(t)
  <2>1. Unset(t) => held' = held
    BY Zenon DEF Unset
  <2>2. FarMark(t) => held' = held
    BY Zenon DEF FarMark, cacheVars
  <2>3. Enlist(t) => held' = held
    BY Zenon DEF Enlist, cacheVars
  <2>4. PutBack(t) => held' = held
    BY Zenon DEF PutBack
  <2>5. Settle(t) => held' = held
    BY Zenon DEF Settle, cacheVars
  <2>6. QED BY <1>2, <2>1, <2>2, <2>3, <2>4, <2>5
<1>3. QED BY <1>1, <1>2 DEF Return

LEMMA CallHolds ==
  ASSUME NEW t \in Threads, Call(t)
  PROVE  HeldStep
<1>1. ASSUME NEW c \in Classes, MallocHit(t, c)
      PROVE  HeldStep
  BY Zenon, <1>1 DEF MallocHit, HeldStep
<1>2. ASSUME NEW c \in Classes, MallocMiss(t, c)
      PROVE  HeldStep
  BY <1>2 DEF MallocMiss, HeldStep, cacheVars
<1>3. ASSUME NEW b \in held, Free(t, b) \/ FarFree(t, b)
      PROVE  HeldStep
  <2>1. held' = held \ {b}
    BY Zenon, <1>3 DEF Free, FarFree
  <2>2. QED BY <2>1 DEF HeldStep
<1>4. CASE Migrate(t)
  BY <1>4 DEF Migrate, HeldStep, cacheVars
<1>5. QED BY <1>1, <1>2, <1>3, <1>4 DEF Call

LEMMA NextHolds ==
  ASSUME Ctx, Next
  PROVE  HeldStep
<1>1. CASE FlusherStep
  BY <1>1 DEF FlusherStep, Wake, Flush, FlushEnd, cacheVars, HeldStep
<1>2. ASSUME NEW t \in Threads, Fill(t) \/ Return(t)
      PROVE  HeldStep
  BY <1>2, TakeHolds, FillHolds, ReturnHolds DEF HeldStep
<1>3. QED BY <1>1, <1>2, CallHolds DEF Next, Inside

(* A step with a layout that is no longer the slab's gives nothing out and  *)
(* takes nothing back.                                                      *)
LEMMA ChangeIsTimely ==
  ASSUME ~stale, Next, held' # held
  PROVE  ~stale'
<1>1. SUFFICES ASSUME NEW t \in Threads, Inside(t), Outdated(t) PROVE held' = held
  BY DEF Next, Call, Inside, FlusherStep
<1>2. CASE Take(t)
  <2>1. pc[t] = "take"
    BY <1>2 DEF Take
  <2>2. QED BY <1>1, <2>1 DEF Outdated
<1>3. CASE ~Take(t)
  BY <1>1, <1>3, FillHolds, ReturnHolds DEF Inside
<1>4. QED BY <1>2, <1>3

HeapStep ==
  \/ heldRuns' = heldRuns
  \/ \E e : /\ e.len \in {Size[c] : c \in Classes} /\ Place(e) \in Spaces
            /\ TakesRun(held, e) /\ held' = held \union {e}
  \/ \E b \in held : Place(b) \in Spaces /\ GivesRun(held, b) /\ held' = held \ {b}

LEMMA NextIsHeapStep ==
  ASSUME IndInv, [Next]_vars, ~stale
  PROVE  HeapStep
<1>1. CASE held' = held
  BY <1>1 DEF HeapStep, heldRuns, Runs
<1>2. CASE Next /\ held' # held
  <2>1. failed = "no" /\ Ctx /\ Once /\ HeldStep
    <3>1. failed = "no" /\ IndInv' /\ ~stale'
      BY <1>2, NextIndInv, ChangeIsTimely DEF Next
    <3>2. Ctx /\ Once
      BY <3>1 DEF IndInv, Ctx, Good
    <3>3. QED BY <1>2, <3>1, <3>2, NextHolds
  <2>2. Spread(Blocks) /\ held \subseteq Blocks
    BY <2>1, IndSpread, InBlocks
  <2>3. ASSUME NEW t \in Threads, NEW c \in Classes, TakeFrom(t, c), Filled(t, c) # {}
        PROVE  HeapStep
    <3>1. Ctx /\ Once
      BY <2>1
    <3>2. PICK n \in Entered : held' = held \union {n.blk}
      BY <2>3, <3>1, TakenFrom
    <3>3. PICK u \in Threads, k \in Classes, j \in Banks : n \in Members(cache[u][k][j])
      BY EntryIn
    <3>4. n.blk \in Blocks /\ n.blk.len = Size[k]
      <4>1. n.blk \in BlksIn(cache[u][k][j])
        BY <3>3 DEF BlksIn, Members
      <4>2. QED BY <3>1, <3>3, <4>1, InBlocks DEF Once
    <3> PICK e : e = n.blk
      OBVIOUS
    <3>5. e \notin held
      BY <1>2, <3>2
    <3>6. Spread(held \union {e})
      BY <2>2, <3>4 DEF Spread
    <3>7. TakesRun(held, e)
      BY <3>5, <3>6, RunTaken
    <3>8. Place(e) \in Spaces
      BY <3>6 DEF Spread
    <3>9. QED BY <3>2, <3>4, <3>7, <3>8 DEF HeapStep
  <2>4. ASSUME NEW b \in held, held' = held \ {b}
        PROVE  HeapStep
    <3>1. Spread(held)
      BY <2>2 DEF Spread
    <3>2. GivesRun(held, b)
      BY <3>1, RunGiven
    <3>3. QED BY <2>4, <3>1, <3>2 DEF HeapStep, Spread
  <2>5. QED BY <1>2, <2>1, <2>3, <2>4 DEF HeldStep
<1>3. QED BY <1>1, <1>2 DEF vars

(* The slab layer keeps to its clients the promise that the extent layer    *)
(* keeps to it: the blocks that are held are runs of a heap, which never    *)
(* overlap and stay as they are until they are freed, though the slabs they *)
(* lie in change their layout; up to the first step that works with a       *)
(* layout the slab no longer has.                                           *)
THEOREM BlockRefinement == Spec => BlockSpec
<1>1. Init => BlockHeap!Init
  BY DEF Init, BlockHeap!Init, BlockHeap!Pages, heldRuns, Runs
<1>2. IndInv /\ [Next]_vars => stale \/ HeapStep
  BY NextIsHeapStep
<1>3. HeapStep => [BlockHeap!Next]_heldRuns
  <2>1. CASE heldRuns' = heldRuns
    BY <2>1
  <2>2. ASSUME NEW e, e.len \in {Size[c] : c \in Classes}, Place(e) \in Spaces,
               TakesRun(held, e), held' = held \union {e}
        PROVE  BlockHeap!Next
    <3>1. heldRuns' = Runs(held \union {e})
      BY <2>2 DEF heldRuns, Runs
    <3>2. BlockHeap!Alloc(Place(e), e.len)
      BY <2>2, <3>1 DEF TakesRun, BlockHeap!Alloc, BlockHeap!Apart, BlockHeap!Pages, Spaces, heldRuns
    <3>3. Place(e) \in BlockHeap!Pages
      BY <2>2 DEF BlockHeap!Pages, Spaces
    <3>4. QED BY <2>2, <3>2, <3>3 DEF BlockHeap!Next
  <2>3. ASSUME NEW b \in held, Place(b) \in Spaces, GivesRun(held, b), held' = held \ {b}
        PROVE  BlockHeap!Next
    <3>1. heldRuns' = Runs(held \ {b})
      BY <2>3 DEF heldRuns, Runs
    <3>2. BlockHeap!Free(Place(b))
      BY <2>3, <3>1 DEF GivesRun, BlockHeap!Free, heldRuns
    <3>3. Place(b) \in BlockHeap!Pages
      BY <2>3 DEF BlockHeap!Pages, Spaces
    <3>4. QED BY <3>2, <3>3 DEF BlockHeap!Next
  <2>4. QED BY <2>1, <2>2, <2>3 DEF HeapStep
<1>4. IndInv /\ [Next]_vars => [stale \/ BlockHeap!Next]_heldRuns
  BY <1>2, <1>3
<1>5. QED BY <1>1, <1>4, Inductive, PTL DEF BlockSpec, Spec
=============================================================================
