----------------------------- MODULE Slabs_proofs -----------------------------
(***************************************************************************)
(* Proofs about the locks and lists of Slabs, for any number of threads,   *)
(* slabs and size classes: who holds which lock where, what the lists      *)
(* hold, and that only a search for a slab to morph can close a circle of  *)
(* waiting threads.                                                        *)
(***************************************************************************)
EXTENDS Slabs, WellFoundedInduction, NaturalsInduction, TLAPS

-----------------------------------------------------------------------------
(* The inductive invariant *)

(* Where the code holds a bin's lock, a slab's lock, LRU_lock.              *)
FillPcs  == {"visit", "pop", "touch", "full", "get", "search", "walk", "seize", "unbin", "table",
             "metas", "create", "insert"}
InFill(t) == pc[t] \in FillPcs \/ (pc[t] = "len" /\ my[t].next # "freed")
WithSlab == {"pop", "len", "touch", "full", "freed", "unbin", "table", "metas"}
WithLru  == {"walk", "seize", "unbin", "table", "metas"}

(* Where a thread has a slab in hand.                                       *)
OnSlab == {"visit", "pop", "len", "touch", "full", "seize", "unbin", "table", "metas", "insert",
           "old", "unset", "new", "freed", "unlink", "check", "drop", "relist", "far", "enlist"}

WorkFields == {"cls", "cur", "idx", "blk", "sc", "scb", "val", "next", "old", "then"}
WorkOK(w) ==
  /\ DOMAIN w = WorkFields
  /\ w.cls \in Classes /\ w.sc.cls \in Classes
  /\ w.then \in {"idle", "putback"}

AfterLen == {"full", "touch", "pop", "freed"}

ThreadOK(t) ==
  /\ WorkOK(my[t])
  /\ pc[t] \in OnSlab => my[t].cur \in Slots
  /\ pc[t] = "len" => my[t].next \in AfterLen
  /\ \A c \in Classes : binLock[c] = t <=> InFill(t) /\ my[t].cls = c
  /\ \A s \in Slots : slabLock[s] = t <=> pc[t] \in WithSlab /\ my[t].cur = s
  /\ lruLock = t <=> pc[t] \in WithLru

Locks ==
  /\ pc \in [Threads -> Pcs] /\ DOMAIN my = Threads
  /\ binLock \in [Classes -> Threads \union {None}]
  /\ slabLock \in [Slots -> Threads \union {None}]
  /\ lruLock \in Threads \union {None} /\ numaLock \in {None, Flusher}
  /\ \A t \in Threads : ThreadOK(t)

SlabFields == {"live", "sc", "scb", "numb", "used", "nbits", "dnum", "rb", "rdirty"}
Layouts ==
  /\ DOMAIN v = Slots
  /\ \A s \in Slots : DOMAIN v[s] = SlabFields /\ v[s].sc.cls \in Classes

(* The lists hold slabs, and the caches blocks of slabs.                    *)
Stack(l) == l \in Seq(Members(l)) /\ \A e \in Members(l) : e.blk.slab \in Slots
Stacked ==
  /\ DOMAIN cache = Threads
  /\ \A t \in Threads : /\ DOMAIN cache[t] = Classes
                        /\ \A c \in Classes : /\ DOMAIN cache[t][c] = Banks
                                              /\ \A b \in Banks : Stack(cache[t][c][b])
Lists ==
  /\ lru \in Seq(Slots) /\ numaList \in Seq(Slots)
  /\ \A t \in Threads : pc[t] = "walk" => my[t].cur \in Members(lru) \union {Root}
  /\ \A t \in Threads : pc[t] = "seize" => my[t].cur \in Members(lru)
  /\ \A b \in held : b.slab \in Slots

(* A slab is in at most one bin, once, and in none before it is inserted    *)
(* and after it is freed.  Under its lock, a bin keeps the slab the fill is *)
(* at.                                                                      *)
AtBin(t) ==
  \/ pc[t] \in {"visit", "pop", "touch", "full", "table", "metas"}
  \/ pc[t] = "len" /\ my[t].next # "freed"
Distinct(l) == \A i, j \in DOMAIN l : l[i] = l[j] => i = j
BinOK(t) ==
  /\ AtBin(t) => my[t].cur \in Members(bin[my[t].cls])
  /\ pc[t] = "insert" =>
       /\ v[my[t].cur].live
       /\ \A c \in Classes : my[t].cur \notin Members(bin[c])
       /\ \A u \in Threads \ {t} : pc[u] = "insert" => my[u].cur # my[t].cur
Bins ==
  /\ bin \in [Classes -> Seq(Slots)] /\ DOMAIN now = Classes
  /\ \A c \in Classes : Distinct(bin[c]) /\ now[c] \in Members(bin[c]) \union {Root}
  /\ \A c, d \in Classes : c # d => Members(bin[c]) \cap Members(bin[d]) = {}
  /\ \A c \in Classes : \A s \in Members(bin[c]) : v[s].live
  /\ \A t \in Threads : BinOK(t)

(* What the lock discipline relies on while the program runs.               *)
Base == Locks /\ Layouts /\ Stacked /\ Lists /\ Bins

-----------------------------------------------------------------------------
(* The lists of dl.c *)

LEMMA FrontIn ==
  ASSUME NEW S, NEW l \in Seq(S)
  PROVE  Front(l) = Root \/ Front(l) \in Members(l)
<1>1. CASE l = <<>>
  BY <1>1 DEF Front
<1>2. CASE l # <<>>
  <2>1. 1 \in DOMAIN l
    BY <1>2
  <2>2. QED BY <1>2, <2>1 DEF Front, Members
<1>3. QED BY <1>1, <1>2

LEMMA AfterIn ==
  ASSUME NEW S, NEW l \in Seq(S), NEW s \in Members(l)
  PROVE  /\ After(l, s) = Root \/ After(l, s) \in Members(l)
         /\ Distinct(l) /\ s # Root => After(l, s) # s
<1> DEFINE i == CHOOSE j \in DOMAIN l : l[j] = s
<1>1. i \in DOMAIN l /\ l[i] = s
  BY DEF Members
<1>2. After(l, s) = IF i = Len(l) THEN Root ELSE l[i + 1]
  BY DEF After
<1> HIDE DEF i
<1>3. i # Len(l) => i + 1 \in DOMAIN l /\ i + 1 # i
  BY <1>1
<1>4. QED BY <1>1, <1>2, <1>3 DEF Members, Distinct

LEMMA AppendIn ==
  ASSUME NEW S, NEW l \in Seq(S), NEW x
  PROVE  /\ Members(Append(l, x)) = Members(l) \union {x}
         /\ x \in S => Append(l, x) \in Seq(S)
         /\ Append(l, x) # <<>>
<1> DEFINE a == Append(l, x)
<1>1. Len(l) \in Nat /\ DOMAIN l = 1 .. Len(l)
  OBVIOUS
<1>2. a \in Seq(S \union {x}) /\ l \in Seq(S \union {x}) /\ x \in S \union {x}
  OBVIOUS
<1>3. Len(a) = Len(l) + 1 /\ DOMAIN a = 1 .. Len(l) + 1
  BY <1>2
<1>4. /\ \A j \in 1 .. Len(l) : a[j] = l[j]
      /\ a[Len(l) + 1] = x
  BY <1>2
<1>5. x \in S => a \in Seq(S)
  OBVIOUS
<1>6. a # <<>>
  BY <1>1, <1>3
<1> HIDE DEF a
<1>7. Members(a) = Members(l) \union {x}
  BY <1>1, <1>3, <1>4 DEF Members
<1>8. QED BY <1>5, <1>6, <1>7 DEF a

LEMMA PrependIn ==
  ASSUME NEW S, NEW l \in Seq(S), NEW x \in S
  PROVE  /\ Members(<<x>> \o l) = Members(l) \union {x}
         /\ <<x>> \o l \in Seq(S)
         /\ Distinct(l) /\ x \notin Members(l) => Distinct(<<x>> \o l)
<1> DEFINE a == <<x>> \o l
<1>1. Len(l) \in Nat /\ DOMAIN l = 1 .. Len(l)
  OBVIOUS
<1>2. a \in Seq(S) /\ Len(a) = Len(l) + 1 /\ DOMAIN a = 1 .. Len(l) + 1
  OBVIOUS
<1>3. a[1] = x /\ \A j \in 1 .. Len(l) + 1 : j > 1 => a[j] = l[j - 1]
  OBVIOUS
<1> HIDE DEF a
<1>4. Members(a) = Members(l) \union {x}
  <2>1. \A j \in 1 .. Len(l) : j + 1 \in DOMAIN a /\ a[j + 1] = l[j]
    BY <1>1, <1>2, <1>3
  <2>2. \A j \in DOMAIN a : j = 1 \/ j - 1 \in DOMAIN l
    BY <1>1, <1>2
  <2>3. 1 \in DOMAIN a
    BY <1>1, <1>2
  <2>4. Members(a) \subseteq Members(l) \union {x}
    <3>1. \A j \in DOMAIN a : j # 1 => a[j] = l[j - 1]
      BY <1>2, <1>3
    <3>2. QED BY <1>3, <2>2, <3>1 DEF Members
  <2>5. Members(l) \union {x} \subseteq Members(a)
    BY <1>1, <1>3, <2>1, <2>3 DEF Members
  <2>6. QED BY <2>4, <2>5
<1>5. ASSUME Distinct(l), x \notin Members(l)
      PROVE  Distinct(a)
  <2>1. SUFFICES ASSUME NEW i \in DOMAIN a, NEW j \in DOMAIN a, a[i] = a[j]
                 PROVE  i = j
    BY DEF Distinct
  <2>2. \A k \in DOMAIN a : k # 1 => k > 1 /\ k - 1 \in DOMAIN l /\ a[k] = l[k - 1] /\ a[k] # x
    BY <1>1, <1>2, <1>3, <1>5 DEF Members
  <2>3. i \in Int /\ j \in Int
    BY <1>2
  <2>4. CASE i = 1 \/ j = 1
    BY <1>3, <2>1, <2>2, <2>4
  <2>5. CASE i # 1 /\ j # 1
    <3>1. i - 1 = j - 1
      BY <1>5, <2>1, <2>2, <2>5 DEF Distinct
    <3>2. QED BY <2>3, <3>1
  <2>6. QED BY <2>4, <2>5
<1>6. QED BY <1>2, <1>4, <1>5 DEF a

LEMMA WithoutIn ==
  ASSUME NEW S, NEW l \in Seq(S), NEW s
  PROVE  /\ Without(l, s) \in Seq(S)
         /\ Members(Without(l, s)) \subseteq Members(l)
         /\ Members(l) \ {s} \subseteq Members(Without(l, s))
         /\ Distinct(l) => Distinct(Without(l, s)) /\ s \notin Members(Without(l, s))
<1>1. CASE s \notin Members(l)
  BY <1>1 DEF Without
<1>2. CASE s \in Members(l)
  <2> DEFINE k == CHOOSE j \in DOMAIN l : l[j] = s
             n == Len(l)
             u == [j \in 1 .. n - 1 |-> IF j < k THEN l[j] ELSE l[j + 1]]
  <2>0. DOMAIN l = 1 .. n /\ n \in Nat
    OBVIOUS
  <2>1. k \in 1 .. n /\ l[k] = s
    BY <1>2, <2>0 DEF Members
  <2>2. Without(l, s) = u
    BY <1>2 DEF Without
  <2> HIDE DEF k
  <2>3. u \in Seq(S) /\ DOMAIN u = 1 .. n - 1
    BY <2>0, <2>1
  <2>4. \A j \in 1 .. n - 1 : u[j] = IF j < k THEN l[j] ELSE l[j + 1]
    OBVIOUS
  <2> HIDE DEF u, n
  <2>5. Members(u) \subseteq Members(l)
    <3>1. \A j \in 1 .. n - 1 : j \in 1 .. n /\ j + 1 \in 1 .. n
      BY <2>0
    <3>2. QED BY <2>0, <2>3, <2>4, <3>1 DEF Members
  <2>6. Members(l) \ {s} \subseteq Members(u)
    <3>1. SUFFICES ASSUME NEW j \in 1 .. n, l[j] # s
                   PROVE  l[j] \in Members(u)
      BY <2>0 DEF Members
    <3>2. CASE j < k
      <4>1. j \in 1 .. n - 1 /\ u[j] = l[j]
        BY <2>0, <2>1, <2>4, <3>2
      <4>2. QED BY <2>3, <4>1 DEF Members
    <3>3. CASE k < j
      <4>1. j - 1 \in 1 .. n - 1 /\ ~(j - 1 < k) /\ (j - 1) + 1 = j
        BY <2>0, <2>1, <3>3
      <4>2. u[j - 1] = l[j]
        BY <2>4, <4>1
      <4>3. QED BY <2>3, <4>1, <4>2 DEF Members
    <3>4. j # k
      BY <2>1, <3>1
    <3>5. QED BY <2>0, <2>1, <3>2, <3>3, <3>4
  <2>7. ASSUME Distinct(l)
        PROVE  Distinct(u) /\ s \notin Members(u)
    <3> DEFINE m(a) == IF a < k THEN a ELSE a + 1
    <3>1. \A a \in 1 .. n - 1 : m(a) \in 1 .. n /\ m(a) # k /\ u[a] = l[m(a)]
      BY <2>0, <2>1, <2>4
    <3>2. \A a, b \in 1 .. n - 1 : m(a) = m(b) => a = b
      BY <2>0, <2>1
    <3> HIDE DEF m
    <3>3. Distinct(u)
      BY <2>0, <2>3, <2>7, <3>1, <3>2 DEF Distinct
    <3>4. s \notin Members(u)
      BY SMTT(30), <2>0, <2>1, <2>3, <2>7, <3>1 DEF Distinct, Members
    <3>5. QED BY <3>3, <3>4
  <2>8. QED BY <2>2, <2>3, <2>5, <2>6, <2>7
<1>3. QED BY <1>1, <1>2

LEMMA TailIn ==
  ASSUME NEW S, NEW l \in Seq(S), l # <<>>
  PROVE  /\ Tail(l) \in Seq(S)
         /\ Members(Tail(l)) \subseteq Members(l)
         /\ Front(l) \in Members(l)
<1>1. Len(l) \in Nat \ {0} /\ DOMAIN l = 1 .. Len(l)
  OBVIOUS
<1> DEFINE u == Tail(l)
<1>2. u \in Seq(S) /\ DOMAIN u = 1 .. Len(l) - 1 /\ \A j \in 1 .. Len(l) - 1 : u[j] = l[j + 1]
  BY <1>1
<1>3. \A j \in 1 .. Len(l) - 1 : j + 1 \in DOMAIN l
  BY <1>1
<1> HIDE DEF u
<1>4. Members(u) \subseteq Members(l)
  BY <1>2, <1>3 DEF Members
<1>5. 1 \in DOMAIN l
  BY <1>1
<1>6. Front(l) \in Members(l)
  BY <1>5 DEF Front, Members
<1>7. QED BY <1>2, <1>4, <1>6 DEF u

LEMMA ShorterIn ==
  ASSUME NEW S, NEW l \in Seq(S), l # <<>>
  PROVE  /\ Shorter(l) \in Seq(S) /\ Len(Shorter(l)) = Len(l) - 1
         /\ Members(Shorter(l)) \subseteq Members(l)
         /\ l[Len(l)] \in Members(l)
<1>1. Len(l) \in Nat \ {0} /\ DOMAIN l = 1 .. Len(l)
  OBVIOUS
<1> DEFINE u == SubSeq(l, 1, Len(l) - 1)
<1>2. u \in Seq(S) /\ Len(u) = Len(l) - 1 /\ DOMAIN u = 1 .. Len(l) - 1
      /\ \A j \in 1 .. Len(l) - 1 : u[j] = l[j]
  BY <1>1
<1>3. \A j \in 1 .. Len(l) - 1 : j \in DOMAIN l
  BY <1>1
<1> HIDE DEF u
<1>4. Members(u) \subseteq Members(l)
  BY <1>2, <1>3 DEF Members
<1>5. l[Len(l)] \in Members(l)
  BY <1>1 DEF Members
<1>6. QED BY <1>2, <1>4, <1>5 DEF u, Shorter

LEMMA MinIn ==
  ASSUME NEW S \in SUBSET Nat, S # {}
  PROVE  Min(S) \in S /\ \A y \in S : Min(S) <= y
<1> DEFINE R == {ss \in Nat \X Nat : ss[1] < ss[2]}
<1>1. IsWellFoundedOn(R, Nat)
  BY NatLessThanWellFounded DEF OpToRel
<1>2. PICK x \in S : \A y \in S : ~(<<y, x>> \in R)
  <2> HIDE DEF R
  <2>1. QED BY <1>1, WFMin
<1>3. \A y \in S : x <= y
  <2>1. SUFFICES ASSUME NEW y \in S, y < x PROVE FALSE
    OBVIOUS
  <2>2. <<y, x>> \in Nat \X Nat /\ <<y, x>>[1] = y /\ <<y, x>>[2] = x
    OBVIOUS
  <2>3. <<y, x>> \in R
    BY <2>1, <2>2
  <2>4. QED BY <1>2, <2>3
<1>4. QED BY <1>3 DEF Min

-----------------------------------------------------------------------------
(* Locks *)

LEMMA Names ==
  /\ None \notin Threads /\ Flusher \notin Threads /\ None # Flusher
  /\ Root \notin Slots
  /\ AnyClass \in Classes
  /\ WorkOK(NoWork) /\ NoWork.cls \in Classes
  /\ \A c \in Classes : \A off : Fit(c, off).cls = c
<1>1. AnyClass \in Classes
  BY SlabsAssumption DEF AnyClass
<1>2. None \notin Threads /\ Flusher \notin Threads /\ None # Flusher
  BY SlabsAssumption DEF None, Flusher
<1>3. Root \notin Slots
  BY SlabsAssumption DEF Root, Slots
<1>4. \A c \in Classes : \A off : Fit(c, off).cls = c
  BY DEF Fit
<1>5. WorkOK(NoWork) /\ NoWork.cls \in Classes
  BY <1>1, <1>4 DEF WorkOK, WorkFields, NoWork, Plain
<1>6. QED BY <1>1, <1>2, <1>3, <1>4, <1>5

Steps(t) ==
  /\ pc' \in [Threads -> Pcs] /\ DOMAIN my' = Threads
  /\ \A u \in Threads \ {t} : pc'[u] = pc[u] /\ my'[u] = my[u]

(* A step of t that takes and releases locks of its own only.               *)
LEMMA LocksKept ==
  ASSUME Locks, NEW t \in Threads, Steps(t),
         binLock' \in [Classes -> Threads \union {None}],
         slabLock' \in [Slots -> Threads \union {None}],
         lruLock' \in Threads \union {None}, numaLock' = numaLock,
         \A c \in Classes : binLock'[c] = binLock[c] \/ {binLock'[c], binLock[c]} \subseteq {t, None},
         \A s \in Slots : slabLock'[s] = slabLock[s] \/ {slabLock'[s], slabLock[s]} \subseteq {t, None},
         lruLock' = lruLock \/ {lruLock', lruLock} \subseteq {t, None},
         ThreadOK(t)'
  PROVE  Locks'
<1>1. \A u \in Threads \ {t} : ThreadOK(u)'
  <2>1. SUFFICES ASSUME NEW u \in Threads \ {t} PROVE ThreadOK(u)'
    OBVIOUS
  <2>2. ThreadOK(u) /\ pc'[u] = pc[u] /\ my'[u] = my[u] /\ u # t /\ u # None
    BY Names DEF Locks, Steps
  <2>3. /\ \A c \in Classes : binLock'[c] = u <=> binLock[c] = u
        /\ \A s \in Slots : slabLock'[s] = u <=> slabLock[s] = u
        /\ lruLock' = u <=> lruLock = u
    BY <2>2
  <2>4. InFill(u)' <=> InFill(u)
    BY <2>2 DEF InFill
  <2>5. QED BY <2>2, <2>3, <2>4 DEF ThreadOK
<1>2. QED BY <1>1 DEF Locks, Steps

LEMMA MallocHitLocks ==
  ASSUME Base, NEW t \in Threads, NEW c \in Classes, MallocHit(t, c)
  PROVE  Locks'
BY DEF Base, MallocHit, Locks, ThreadOK, InFill, remVars

LEMMA TakeLocks ==
  ASSUME Base, NEW t \in Threads, Take(t)
  PROVE  Locks'
<1>1. /\ pc[t] = "take" /\ pc' = [pc EXCEPT ![t] = "idle"] /\ my' = [my EXCEPT ![t] = NoWork]
      /\ UNCHANGED <<binLock, slabLock, lruLock, numaLock>>
  BY DEF Take, Rest, Be, remVars
<1>2. Locks /\ ThreadOK(t)
  BY DEF Base, Locks
<1>3. Steps(t) /\ ThreadOK(t)'
  BY <1>1, <1>2, Names DEF Steps, Locks, ThreadOK, InFill, FillPcs, WithSlab, WithLru, OnSlab, Pcs
<1>4. QED BY <1>1, <1>2, <1>3, LocksKept DEF Locks

LEMMA MallocMissLocks ==
  ASSUME Base, NEW t \in Threads, NEW c \in Classes, MallocMiss(t, c)
  PROVE  Locks'
<1> DEFINE first == IF now[c] = Root THEN Front(bin[c]) ELSE now[c]
           w == [NoWork EXCEPT !.cls = c, !.cur = first]
<1>1. /\ pc[t] = "idle" /\ pc' = [pc EXCEPT ![t] = IF first = Root THEN "get" ELSE "visit"]
      /\ my' = [my EXCEPT ![t] = w]
      /\ binLock[c] = None /\ binLock' = [binLock EXCEPT ![c] = t]
      /\ UNCHANGED <<slabLock, lruLock, numaLock>>
  BY DEF MallocMiss, Be, remVars
<1>2. Locks /\ ThreadOK(t)
  BY DEF Base, Locks
<1>3. first \in Slots \union {Root}
  <2>1. bin[c] \in Seq(Slots) /\ now[c] \in Members(bin[c]) \union {Root}
    BY DEF Base, Bins
  <2>2. Members(bin[c]) \subseteq Slots
    BY <2>1 DEF Members
  <2>3. QED BY <2>1, <2>2, FrontIn
<1>4. WorkOK(w) /\ w.cls = c /\ w.cur = first
  BY Names DEF WorkOK, WorkFields
<1> HIDE DEF first, w
<1>5. Steps(t) /\ ThreadOK(t)'
  BY <1>1, <1>2, <1>3, <1>4, Names DEF Steps, Locks, ThreadOK, InFill, FillPcs, WithSlab, WithLru, OnSlab, Pcs
<1>6. QED BY <1>1, <1>2, <1>5, LocksKept DEF Locks

LEMMA PopNoneLocks ==
  ASSUME Base, NEW t \in Threads, PopNone(t)
  PROVE  Locks'
<1> DEFINE c == my[t].cls
           s == my[t].cur
           n == IF After(bin[c], s) = Root THEN Front(bin[c]) ELSE After(bin[c], s)
           w == [my[t] EXCEPT !.cur = IF n = now[c] THEN Root ELSE n]
<1>1. /\ pc[t] \in {"visit", "pop"} /\ pc' = [pc EXCEPT ![t] = IF n = now[c] THEN "get" ELSE "visit"]
      /\ my' = [my EXCEPT ![t] = w]
      /\ pc[t] = "visit" => slabLock[s] = None
      /\ slabLock' = [slabLock EXCEPT ![s] = None]
      /\ UNCHANGED <<binLock, lruLock, numaLock>>
  BY DEF PopNone, AtSlab, UnlockSlab, Be, remVars
<1>2. Locks /\ ThreadOK(t) /\ c \in Classes /\ s \in Slots
  BY <1>1 DEF Base, Locks, ThreadOK, WorkOK, OnSlab
<1>3. n \in Slots
  <2>1. bin[c] \in Seq(Slots) /\ s \in Members(bin[c])
    BY <1>1, <1>2 DEF Base, Bins, BinOK, AtBin
  <2>2. Members(bin[c]) \subseteq Slots /\ bin[c] # <<>>
    BY <2>1 DEF Members
  <2>3. QED BY <2>1, <2>2, TailIn, AfterIn
<1>4. WorkOK(w) /\ w.cls = c /\ w.cur = (IF n = now[c] THEN Root ELSE n)
  BY <1>2 DEF ThreadOK, WorkOK, WorkFields
<1> HIDE DEF n, w
<1>5. Steps(t) /\ ThreadOK(t)'
  BY <1>1, <1>2, <1>3, <1>4, Names DEF Steps, Locks, ThreadOK, InFill, FillPcs, WithSlab, WithLru, OnSlab, Pcs
<1>6. QED BY <1>1, <1>2, <1>5, LocksKept DEF Locks, ThreadOK, WithSlab

LEMMA PopLocks ==
  ASSUME Base, NEW t \in Threads, Pop(t)
  PROVE  Locks'
<1> DEFINE c == my[t].cls
           s == my[t].cur
           r == IF v[s].nbits = v[s].sc.n THEN Reclaim(v[s]) ELSE v[s]
           i == Min(Indices \ r.used)
           bank == Append(cache[t][c][i % NBanks], [blk |-> Block(s, r.sc, i), mi |-> i])
           p == IF Len(bank) = Cap THEN "full" ELSE IF r.numb = 0 THEN "touch" ELSE "pop"
           w == [my[t] EXCEPT !.val = IF r.nbits < 0 THEN morphLen + 1 ELSE morphLen - 1,
                              !.next = p]
<1>1. /\ AtSlab(t) /\ slabLock' = [slabLock EXCEPT ![s] = t]
      /\ UNCHANGED <<binLock, lruLock, numaLock>>
      /\ \/ pc' = [pc EXCEPT ![t] = "len"] /\ my' = [my EXCEPT ![t] = w]
         \/ pc' = [pc EXCEPT ![t] = p] /\ my' = my
  BY DEF Pop, Be, Go
<1>2. /\ p \in {"full", "touch", "pop"}
      /\ pc[t] \in {"visit", "pop"}
      /\ pc[t] = "visit" => slabLock[s] = None
  BY <1>1 DEF AtSlab
<1>3. Locks /\ ThreadOK(t) /\ s \in Slots
  BY <1>2 DEF Base, Locks, ThreadOK, OnSlab
<1>4. WorkOK(w) /\ w.cls = c /\ w.cur = s /\ w.next = p
  BY <1>3 DEF ThreadOK, WorkOK, WorkFields
<1> HIDE DEF p, w
<1>5. /\ Steps(t) /\ my'[t].cls = c /\ my'[t].cur = s /\ WorkOK(my'[t])
      /\ pc'[t] = p \/ (pc'[t] = "len" /\ my'[t].next = p)
  BY <1>1, <1>2, <1>3, <1>4 DEF Steps, Locks, ThreadOK, Pcs
<1>6. ThreadOK(t)'
  <2>1. InFill(t) /\ InFill(t)'
    BY <1>2, <1>5 DEF InFill, FillPcs
  <2>2. /\ pc'[t] \in OnSlab /\ pc'[t] \in WithSlab /\ pc'[t] \notin WithLru
        /\ pc[t] \notin WithLru
        /\ pc'[t] = "len" => my'[t].next \in AfterLen
    BY <1>2, <1>5 DEF OnSlab, WithSlab, WithLru, AfterLen
  <2>3. \A x \in Slots : slabLock'[x] = t <=> x = s
    BY <1>1, <1>2, <1>3, Names DEF Locks, ThreadOK, WithSlab
  <2>4. QED BY <1>1, <1>2, <1>3, <1>5, <2>1, <2>2, <2>3 DEF ThreadOK
<1>7. \A x \in Slots : slabLock'[x] = slabLock[x] \/ {slabLock'[x], slabLock[x]} \subseteq {t, None}
  BY <1>1, <1>2, <1>3 DEF Locks, ThreadOK, WithSlab
<1>8. QED BY <1>1, <1>3, <1>5, <1>6, <1>7, LocksKept DEF Locks

LEMMA SetLenLocks ==
  ASSUME Base, NEW t \in Threads, SetLen(t)
  PROVE  Locks'
<1>1. /\ pc[t] = "len" /\ pc' = [pc EXCEPT ![t] = my[t].next]
      /\ my' = [my EXCEPT ![t] = [@ EXCEPT !.val = 0]]
      /\ UNCHANGED <<binLock, slabLock, lruLock, numaLock>>
  BY DEF SetLen, Be, remVars
<1>2. Locks /\ ThreadOK(t) 
  BY <1>1 DEF Base, Locks, ThreadOK, WorkOK, OnSlab
<1>3. /\ WorkOK(my'[t]) /\ my'[t].cls = my[t].cls /\ my'[t].cur = my[t].cur
      /\ my[t].next \in {"full", "touch", "pop", "freed"}
  BY <1>1, <1>2, Names DEF Locks, ThreadOK, WorkOK, WorkFields, AfterLen
<1>4. Steps(t) /\ ThreadOK(t)'
  BY <1>1, <1>2, <1>3, Names DEF Steps, Locks, ThreadOK, InFill, FillPcs, WithSlab, WithLru, OnSlab, AfterLen, Pcs
<1>5. QED BY <1>1, <1>2, <1>3, <1>4, LocksKept DEF Locks, ThreadOK, WithSlab, WithLru, InFill, FillPcs

LEMMA TouchLocks ==
  ASSUME Base, NEW t \in Threads, Touch(t)
  PROVE  Locks'
<1>1. /\ pc[t] = "touch" /\ pc' = [pc EXCEPT ![t] = "pop"]
      /\ UNCHANGED <<binLock, slabLock, lruLock, numaLock>> /\ my' = my
  BY DEF Touch, Go, remVars
<1>2. Locks /\ ThreadOK(t) 
  BY <1>1 DEF Base, Locks, ThreadOK, WorkOK, OnSlab
<1>3. Steps(t) /\ ThreadOK(t)'
  BY <1>1, <1>2, Names DEF Steps, Locks, ThreadOK, InFill, FillPcs, WithSlab, WithLru, OnSlab, AfterLen, Pcs
<1>4. QED BY <1>1, <1>2, <1>3, LocksKept DEF Locks, ThreadOK, WithSlab, WithLru, InFill, FillPcs

LEMMA PopFullLocks ==
  ASSUME Base, NEW t \in Threads, PopFull(t)
  PROVE  Locks'
<1>1. /\ pc[t] = "full" /\ pc' = [pc EXCEPT ![t] = "take"]
      /\ my' = [my EXCEPT ![t] = [NoWork EXCEPT !.cls = my[t].cls]]
      /\ slabLock' = [slabLock EXCEPT ![my[t].cur] = None]
      /\ binLock' = [binLock EXCEPT ![my[t].cls] = None]
      /\ UNCHANGED <<lruLock, numaLock>>
  BY DEF PopFull, UnlockSlab, UnlockBin, Be, remVars
<1>2. Locks /\ ThreadOK(t) /\ my[t].cls \in Classes /\ my[t].cur \in Slots
  BY <1>1 DEF Base, Locks, ThreadOK, WorkOK, OnSlab
<1>3. WorkOK(my'[t]) /\ my'[t].cls = my[t].cls
  BY <1>1, <1>2, Names DEF Locks, ThreadOK, WorkOK, WorkFields, AfterLen
<1>4. Steps(t) /\ ThreadOK(t)'
  BY <1>1, <1>2, <1>3, Names DEF Steps, Locks, ThreadOK, InFill, FillPcs, WithSlab, WithLru, OnSlab, AfterLen, Pcs
<1>5. QED BY <1>1, <1>2, <1>3, <1>4, LocksKept DEF Locks, ThreadOK, WithSlab, WithLru, InFill, FillPcs

LEMMA GetLocks ==
  ASSUME Base, NEW t \in Threads, Get(t)
  PROVE  Locks'
<1>1. /\ pc[t] = "get" /\ \E p \in {"search", "create"} : pc' = [pc EXCEPT ![t] = p]
      /\ UNCHANGED <<binLock, slabLock, lruLock, numaLock>> /\ my' = my
  BY DEF Get, Go, remVars
<1>2. Locks /\ ThreadOK(t) 
  BY <1>1 DEF Base, Locks, ThreadOK, WorkOK, OnSlab
<1>3. Steps(t) /\ ThreadOK(t)'
  BY <1>1, <1>2, Names DEF Steps, Locks, ThreadOK, InFill, FillPcs, WithSlab, WithLru, OnSlab, AfterLen, Pcs
<1>4. QED BY <1>1, <1>2, <1>3, LocksKept DEF Locks, ThreadOK, WithSlab, WithLru, InFill, FillPcs

LEMMA WalkEndLocks ==
  ASSUME Base, NEW t \in Threads, WalkEnd(t)
  PROVE  Locks'
<1>1. /\ pc[t] = "walk" /\ pc' = [pc EXCEPT ![t] = "create"]
      /\ my' = [my EXCEPT ![t] = [@ EXCEPT !.cur = Root]]
      /\ lruLock' = None /\ UNCHANGED <<binLock, slabLock, numaLock>>
  BY DEF WalkEnd, Be, remVars
<1>2. Locks /\ ThreadOK(t) 
  BY <1>1 DEF Base, Locks, ThreadOK, WorkOK, OnSlab
<1>3. WorkOK(my'[t]) /\ my'[t].cls = my[t].cls
  BY <1>1, <1>2, Names DEF Locks, ThreadOK, WorkOK, WorkFields, AfterLen
<1>4. Steps(t) /\ ThreadOK(t)'
  BY <1>1, <1>2, <1>3, Names DEF Steps, Locks, ThreadOK, InFill, FillPcs, WithSlab, WithLru, OnSlab, AfterLen, Pcs
<1>5. QED BY <1>1, <1>2, <1>3, <1>4, LocksKept DEF Locks, ThreadOK, WithSlab, WithLru, InFill, FillPcs

LEMMA SearchLocks ==
  ASSUME Base, NEW t \in Threads, Search(t)
  PROVE  Locks'
<1>1. /\ pc[t] = "search" /\ pc' = [pc EXCEPT ![t] = "walk"]
      /\ my' = [my EXCEPT ![t] = [@ EXCEPT !.cur = Front(lru)]]
      /\ lruLock = None /\ lruLock' = t /\ UNCHANGED <<binLock, slabLock, numaLock>>
  BY DEF Search, Be, remVars
<1>2. Locks /\ ThreadOK(t) 
  BY <1>1 DEF Base, Locks, ThreadOK, WorkOK, OnSlab
<1>3. WorkOK(my'[t]) /\ my'[t].cls = my[t].cls
  BY <1>1, <1>2, Names DEF Locks, ThreadOK, WorkOK, WorkFields, AfterLen
<1>4. Steps(t) /\ ThreadOK(t)'
  BY <1>1, <1>2, <1>3, Names DEF Steps, Locks, ThreadOK, InFill, FillPcs, WithSlab, WithLru, OnSlab, AfterLen, Pcs
<1>5. QED BY <1>1, <1>2, <1>3, <1>4, LocksKept DEF Locks, ThreadOK, WithSlab, WithLru, InFill, FillPcs

LEMMA WalkOnLocks ==
  ASSUME Base, NEW t \in Threads, WalkOn(t)
  PROVE  Locks'
<1>1. /\ pc[t] = "walk" /\ my[t].cur # Root
      /\ \/ pc' = [pc EXCEPT ![t] = "seize"] /\ my' = my
         \/ /\ pc' = [pc EXCEPT ![t] = "walk"]
            /\ my' = [my EXCEPT ![t] = [@ EXCEPT !.cur = After(lru, my[t].cur)]]
      /\ UNCHANGED <<binLock, slabLock, lruLock, numaLock>>
  BY DEF WalkOn, Go, Be, remVars
<1>2. Locks /\ ThreadOK(t) /\ my[t].cur \in Slots
  BY <1>1 DEF Base, Locks, ThreadOK, WorkOK, OnSlab, Lists, Members
<1>3. /\ WorkOK(my'[t]) /\ my'[t].cls = my[t].cls
      /\ pc'[t] = "seize" => my'[t] = my[t]
  BY <1>1, <1>2, Names DEF Locks, ThreadOK, WorkOK, WorkFields, AfterLen, Pcs
<1>4. Steps(t) /\ ThreadOK(t)'
  BY <1>1, <1>2, <1>3, Names DEF Steps, Locks, ThreadOK, InFill, FillPcs, WithSlab, WithLru, OnSlab, AfterLen, Pcs
<1>5. QED BY <1>1, <1>2, <1>3, <1>4, LocksKept DEF Locks, ThreadOK, WithSlab, WithLru, InFill, FillPcs

LEMMA InsertLocks ==
  ASSUME Base, NEW t \in Threads, Insert(t)
  PROVE  Locks'
<1>1. /\ pc[t] = "insert" /\ pc' = [pc EXCEPT ![t] = "visit"]
      /\ UNCHANGED <<binLock, slabLock, lruLock, numaLock>> /\ my' = my
  BY DEF Insert, Go, remVars
<1>2. Locks /\ ThreadOK(t) 
  BY <1>1 DEF Base, Locks, ThreadOK, WorkOK, OnSlab
<1>3. Steps(t) /\ ThreadOK(t)'
  BY <1>1, <1>2, Names DEF Steps, Locks, ThreadOK, InFill, FillPcs, WithSlab, WithLru, OnSlab, AfterLen, Pcs
<1>4. QED BY <1>1, <1>2, <1>3, LocksKept DEF Locks, ThreadOK, WithSlab, WithLru, InFill, FillPcs

LEMMA SeizeLocks ==
  ASSUME Base, NEW t \in Threads, Seize(t)
  PROVE  Locks'
<1> DEFINE r == v[my[t].cur]
           o == IF Keeps(r) THEN r.used ELSE {}
<1>1. /\ pc[t] = "seize" /\ slabLock[my[t].cur] = None
      /\ \/ /\ pc' = [pc EXCEPT ![t] = "walk"] /\ slabLock' = slabLock
            /\ my' = [my EXCEPT ![t] = [my[t] EXCEPT !.cur = After(lru, my[t].cur)]]
         \/ /\ pc' = [pc EXCEPT ![t] = "unbin"]
            /\ my' = [my EXCEPT ![t] = [my[t] EXCEPT !.sc = r.sc, !.old = o]]
            /\ slabLock' = [slabLock EXCEPT ![my[t].cur] = t]
      /\ UNCHANGED <<binLock, lruLock, numaLock>>
  BY DEF Seize, Be, remVars
<1> HIDE DEF o
<1>2. Locks /\ ThreadOK(t) /\ my[t].cur \in Slots /\ v[my[t].cur].sc.cls \in Classes
  BY <1>1 DEF Base, Locks, ThreadOK, WorkOK, OnSlab, Layouts
<1>3. /\ WorkOK(my'[t]) /\ my'[t].cls = my[t].cls
      /\ pc'[t] = "unbin" => my'[t].cur = my[t].cur
      /\ \/ pc' = [pc EXCEPT ![t] = "walk"] /\ slabLock' = slabLock
         \/ /\ pc' = [pc EXCEPT ![t] = "unbin"]
            /\ slabLock' = [slabLock EXCEPT ![my[t].cur] = t]
  <2>1. LET z == [my[t] EXCEPT !.cur = After(lru, my[t].cur)]
        IN  WorkOK(z) /\ z.cls = my[t].cls
    BY <1>1, <1>2, Names DEF ThreadOK, WorkOK, WorkFields
  <2>2. LET z == [my[t] EXCEPT !.sc = r.sc, !.old = o]
        IN  WorkOK(z) /\ z.cls = my[t].cls /\ z.cur = my[t].cur
    BY <1>1, <1>2, Names DEF ThreadOK, WorkOK, WorkFields
  <2>3. WorkOK(NoWork) /\ DOMAIN my = Threads /\ pc \in [Threads -> Pcs]
    BY <1>2, Names DEF Locks
  <2>4. QED BY <1>1, <1>2, <2>1, <2>2, <2>3 DEF ThreadOK, WorkOK
<1>4. Steps(t) /\ ThreadOK(t)'
  BY <1>1, <1>2, <1>3, Names DEF Steps, Locks, ThreadOK, InFill, FillPcs, WithSlab, WithLru, OnSlab, AfterLen, Pcs
<1>5. QED BY <1>1, <1>2, <1>3, <1>4, LocksKept DEF Locks, ThreadOK, WithSlab, WithLru, InFill, FillPcs

LEMMA ReuseLocks ==
  ASSUME Base, NEW t \in Threads, Reuse(t)
  PROVE  Locks'
<1>1. /\ pc[t] = "unbin" /\ pc' = [pc EXCEPT ![t] = "visit"]
      /\ my' = [my EXCEPT ![t] = [NoWork EXCEPT !.cls = my[t].cls, !.cur = my[t].cur]]
      /\ slabLock' = [slabLock EXCEPT ![my[t].cur] = None] /\ lruLock' = None
      /\ UNCHANGED <<binLock, numaLock>>
  BY DEF Reuse, UnlockSlab, Be, remVars
<1>2. Locks /\ ThreadOK(t) /\ my[t].cur \in Slots /\ my[t].cls \in Classes
  BY <1>1 DEF Base, Locks, ThreadOK, WorkOK, OnSlab
<1>3. WorkOK(my'[t]) /\ my'[t].cls = my[t].cls /\ my'[t].cur = my[t].cur
  BY <1>1, <1>2, Names DEF Locks, ThreadOK, WorkOK, WorkFields, AfterLen
<1>4. Steps(t) /\ ThreadOK(t)'
  BY <1>1, <1>2, <1>3, Names DEF Steps, Locks, ThreadOK, InFill, FillPcs, WithSlab, WithLru, OnSlab, AfterLen, Pcs
<1>5. QED BY <1>1, <1>2, <1>3, <1>4, LocksKept DEF Locks, ThreadOK, WithSlab, WithLru, InFill, FillPcs

LEMMA UnbinLocks ==
  ASSUME Base, NEW t \in Threads, Unbin(t)
  PROVE  Locks'
<1>1. /\ pc[t] = "unbin" /\ pc' = [pc EXCEPT ![t] = "table"]
      /\ UNCHANGED <<binLock, slabLock, lruLock, numaLock>> /\ my' = my
  BY DEF Unbin, Go, remVars
<1>2. Locks /\ ThreadOK(t)
  BY <1>1 DEF Base, Locks, ThreadOK, WorkOK, OnSlab
<1>3. Steps(t) /\ ThreadOK(t)'
  BY <1>1, <1>2, Names DEF Steps, Locks, ThreadOK, InFill, FillPcs, WithSlab, WithLru, OnSlab, AfterLen, Pcs
<1>4. QED BY <1>1, <1>2, <1>3, LocksKept DEF Locks, ThreadOK, WithSlab, WithLru, InFill, FillPcs

LEMMA TableLocks ==
  ASSUME Base, NEW t \in Threads, Table(t)
  PROVE  Locks'
<1>1. /\ pc[t] = "table" /\ pc' = [pc EXCEPT ![t] = "metas"]
      /\ UNCHANGED <<binLock, slabLock, lruLock, numaLock>> /\ my' = my
  BY DEF Table, Go, remVars
<1>2. Locks /\ ThreadOK(t)
  BY <1>1 DEF Base, Locks, ThreadOK, WorkOK, OnSlab
<1>3. Steps(t) /\ ThreadOK(t)'
  BY <1>1, <1>2, Names DEF Steps, Locks, ThreadOK, InFill, FillPcs, WithSlab, WithLru, OnSlab, AfterLen, Pcs
<1>4. QED BY <1>1, <1>2, <1>3, LocksKept DEF Locks, ThreadOK, WithSlab, WithLru, InFill, FillPcs

LEMMA MetasLocks ==
  ASSUME Base, NEW t \in Threads, Metas(t)
  PROVE  Locks'
<1>1. /\ pc[t] = "metas" /\ pc' = [pc EXCEPT ![t] = "visit"]
      /\ my' = [my EXCEPT ![t] = [NoWork EXCEPT !.cls = my[t].cls, !.cur = my[t].cur]]
      /\ slabLock' = [slabLock EXCEPT ![my[t].cur] = None] /\ lruLock' = None
      /\ UNCHANGED <<binLock, numaLock>>
  BY DEF Metas, UnlockSlab, Be, remVars
<1>2. Locks /\ ThreadOK(t) /\ my[t].cur \in Slots /\ my[t].cls \in Classes
  BY <1>1 DEF Base, Locks, ThreadOK, WorkOK, OnSlab
<1>3. WorkOK(my'[t]) /\ my'[t].cls = my[t].cls /\ my'[t].cur = my[t].cur
  BY <1>1, <1>2, Names DEF Locks, ThreadOK, WorkOK, WorkFields, AfterLen
<1>4. Steps(t) /\ ThreadOK(t)'
  BY <1>1, <1>2, <1>3, Names DEF Steps, Locks, ThreadOK, InFill, FillPcs, WithSlab, WithLru, OnSlab, AfterLen, Pcs
<1>5. QED BY <1>1, <1>2, <1>3, <1>4, LocksKept DEF Locks, ThreadOK, WithSlab, WithLru, InFill, FillPcs

LEMMA CreateLocks ==
  ASSUME Base, NEW t \in Threads, Create(t)
  PROVE  Locks'
<1>1. /\ pc[t] = "create" /\ pc' = [pc EXCEPT ![t] = "insert"]
      /\ {s \in Slots : ~v[s].live} # {}
      /\ my' = [my EXCEPT ![t] = [my[t] EXCEPT !.cur = Min({s \in Slots : ~v[s].live})]]
      /\ UNCHANGED <<binLock, slabLock, lruLock, numaLock>>
  BY DEF Create, Be, remVars
<1>2. Locks /\ ThreadOK(t)
  BY <1>1 DEF Base, Locks, ThreadOK, WorkOK, OnSlab
<1>3. Min({s \in Slots : ~v[s].live}) \in Slots
  <2>1. {s \in Slots : ~v[s].live} \in SUBSET Nat
    BY SlabsAssumption DEF Slots
  <2>2. QED BY <1>1, <2>1, MinIn
<1>4. WorkOK(my'[t]) /\ my'[t].cls = my[t].cls /\ my'[t].cur \in Slots
  BY <1>1, <1>2, <1>3, Names DEF Locks, ThreadOK, WorkOK, WorkFields, AfterLen
<1>5. Steps(t) /\ ThreadOK(t)'
  BY <1>1, <1>2, <1>3, <1>4, Names DEF Steps, Locks, ThreadOK, InFill, FillPcs, WithSlab, WithLru, OnSlab, AfterLen, Pcs
<1>6. QED BY <1>1, <1>2, <1>3, <1>4, <1>5, LocksKept DEF Locks, ThreadOK, WithSlab, WithLru, InFill, FillPcs

LEMMA UnsetLocks ==
  ASSUME Base, NEW t \in Threads, Unset(t)
  PROVE  Locks'
<1>1. /\ pc[t] = "unset"
      /\ \/ pc' = [pc EXCEPT ![t] = "new"] /\ my' = my
         \/ pc' = [pc EXCEPT ![t] = my[t].then] /\ my' = [my EXCEPT ![t] = NoWork]
      /\ UNCHANGED <<binLock, slabLock, lruLock, numaLock>>
  BY DEF Unset, Go, Done, Rest, Be, remVars
<1>2. Locks /\ ThreadOK(t)
  BY <1>1 DEF Base, Locks, ThreadOK, WorkOK, OnSlab
<1>3. /\ WorkOK(my'[t])
      /\ pc'[t] = "new" => my'[t].cur = my[t].cur
      /\ \/ pc' = [pc EXCEPT ![t] = "new"]
         \/ pc' = [pc EXCEPT ![t] = my[t].then] /\ my[t].then \in {"idle", "putback"}
  BY <1>1, <1>2, Names DEF Locks, ThreadOK, WorkOK, WorkFields, AfterLen, Pcs
<1>4. Steps(t) /\ ThreadOK(t)'
  BY <1>1, <1>2, <1>3, Names DEF Steps, Locks, ThreadOK, InFill, FillPcs, WithSlab, WithLru, OnSlab, AfterLen, Pcs
<1>5. QED BY <1>1, <1>2, <1>3, <1>4, LocksKept DEF Locks, ThreadOK, WithSlab, WithLru, InFill, FillPcs

LEMMA FreeNewLocks ==
  ASSUME Base, NEW t \in Threads, FreeNew(t)
  PROVE  Locks'
<1>1. /\ pc[t] = "new" /\ slabLock[my[t].cur] = None
      /\ slabLock' = [slabLock EXCEPT ![my[t].cur] = t]
      /\ \/ /\ pc' = [pc EXCEPT ![t] = "len"]
            /\ my' = [my EXCEPT ![t] = [my[t] EXCEPT !.val = morphLen + 1, !.next = "freed", !.blk = NoBlock]]
         \/ /\ pc' = [pc EXCEPT ![t] = "freed"]
            /\ my' = [my EXCEPT ![t] = [my[t] EXCEPT !.blk = NoBlock]]
      /\ UNCHANGED <<binLock, lruLock, numaLock>>
  BY DEF FreeNew, Be, remVars
<1>2. Locks /\ ThreadOK(t) /\ my[t].cur \in Slots
  BY <1>1 DEF Base, Locks, ThreadOK, WorkOK, OnSlab
<1>3. /\ WorkOK(my'[t]) /\ my'[t].cur = my[t].cur
      /\ \/ pc' = [pc EXCEPT ![t] = "len"] /\ my'[t].next = "freed"
         \/ pc' = [pc EXCEPT ![t] = "freed"]
  <2>1. LET z == [my[t] EXCEPT !.val = morphLen + 1, !.next = "freed", !.blk = NoBlock]
        IN  WorkOK(z) /\ z.cur = my[t].cur /\ z.next = "freed"
    BY <1>1, <1>2, Names DEF ThreadOK, WorkOK, WorkFields
  <2>2. LET z == [my[t] EXCEPT !.blk = NoBlock]
        IN  WorkOK(z) /\ z.cur = my[t].cur
    BY <1>1, <1>2, Names DEF ThreadOK, WorkOK, WorkFields
  <2>3. WorkOK(NoWork) /\ DOMAIN my = Threads /\ pc \in [Threads -> Pcs]
    BY <1>2, Names DEF Locks
  <2>4. QED BY <1>1, <1>2, <2>1, <2>2, <2>3 DEF ThreadOK, WorkOK
<1>4. Steps(t) /\ ThreadOK(t)'
  BY <1>1, <1>2, <1>3, Names DEF Steps, Locks, ThreadOK, InFill, FillPcs, WithSlab, WithLru, OnSlab, AfterLen, Pcs
<1>5. QED BY <1>1, <1>2, <1>3, <1>4, LocksKept DEF Locks, ThreadOK, WithSlab, WithLru, InFill, FillPcs

LEMMA FreedLocks ==
  ASSUME Base, NEW t \in Threads, Freed(t)
  PROVE  Locks'
<1>1. /\ pc[t] = "freed"
      /\ slabLock' = [slabLock EXCEPT ![my[t].cur] = None]
      /\ \/ /\ pc' = [pc EXCEPT ![t] = "unlink"]
            /\ my' = [my EXCEPT ![t] = [my[t] EXCEPT !.next = "drop"]]
         \/ /\ pc' = [pc EXCEPT ![t] = my[t].then]
            /\ my' = [my EXCEPT ![t] = NoWork]
      /\ UNCHANGED <<binLock, lruLock, numaLock>>
  BY DEF Freed, Be, Done, Rest, UnlockSlab, remVars
<1>2. Locks /\ ThreadOK(t) /\ my[t].cur \in Slots
  BY <1>1 DEF Base, Locks, ThreadOK, WorkOK, OnSlab
<1>3. /\ WorkOK(my'[t]) 
      /\ pc'[t] = "unlink" => my'[t].cur = my[t].cur
      /\ \/ pc' = [pc EXCEPT ![t] = "unlink"]
         \/ pc' = [pc EXCEPT ![t] = my[t].then] /\ my[t].then \in {"idle", "putback"}
  BY <1>1, <1>2, Names DEF Locks, ThreadOK, WorkOK, WorkFields, AfterLen
<1>4. Steps(t) /\ ThreadOK(t)'
  BY <1>1, <1>2, <1>3, Names DEF Steps, Locks, ThreadOK, InFill, FillPcs, WithSlab, WithLru, OnSlab, AfterLen, Pcs
<1>5. QED BY <1>1, <1>2, <1>3, <1>4, LocksKept DEF Locks, ThreadOK, WithSlab, WithLru, InFill, FillPcs

LEMMA FreeOldLocks ==
  ASSUME Base, NEW t \in Threads, FreeOld(t)
  PROVE  Locks'
<1>1. /\ pc[t] = "old"
      /\ \/ /\ pc' = [pc EXCEPT ![t] = "unlink"]
            /\ my' = [my EXCEPT ![t] = [my[t] EXCEPT !.next = "check", !.blk = NoBlock]]
         \/ /\ pc' = [pc EXCEPT ![t] = "relist"]
            /\ my' = [my EXCEPT ![t] = [my[t] EXCEPT !.blk = NoBlock]]
         \/ /\ pc' = [pc EXCEPT ![t] = my[t].then]
            /\ my' = [my EXCEPT ![t] = NoWork]
      /\ UNCHANGED <<binLock, slabLock, lruLock, numaLock>>
  BY DEF FreeOld, Be, Done, Rest, remVars
<1>2. Locks /\ ThreadOK(t)
  BY <1>1 DEF Base, Locks, ThreadOK, WorkOK, OnSlab
<1>3. /\ WorkOK(my'[t])
      /\ pc'[t] \in {"unlink", "relist"} => my'[t].cur = my[t].cur
      /\ \/ pc' = [pc EXCEPT ![t] = "unlink"]
         \/ pc' = [pc EXCEPT ![t] = "relist"]
         \/ pc' = [pc EXCEPT ![t] = my[t].then] /\ my[t].then \in {"idle", "putback"}
  <2>1. LET z == [my[t] EXCEPT !.next = "check", !.blk = NoBlock]
        IN  WorkOK(z) /\ z.cur = my[t].cur
    BY <1>1, <1>2, Names DEF ThreadOK, WorkOK, WorkFields
  <2>2. LET z == [my[t] EXCEPT !.blk = NoBlock]
        IN  WorkOK(z) /\ z.cur = my[t].cur
    BY <1>1, <1>2, Names DEF ThreadOK, WorkOK, WorkFields
  <2>3. WorkOK(NoWork) /\ DOMAIN my = Threads /\ pc \in [Threads -> Pcs]
    BY <1>2, Names DEF Locks
  <2>4. QED BY <1>1, <1>2, <2>1, <2>2, <2>3 DEF ThreadOK, WorkOK
<1>4. Steps(t) /\ ThreadOK(t)'
  BY <1>1, <1>2, <1>3, Names DEF Steps, Locks, ThreadOK, InFill, FillPcs, WithSlab, WithLru, OnSlab, AfterLen, Pcs
<1>5. QED BY <1>1, <1>2, <1>3, <1>4, LocksKept DEF Locks, ThreadOK, WithSlab, WithLru, InFill, FillPcs

LEMMA RelistLocks ==
  ASSUME Base, NEW t \in Threads, Relist(t)
  PROVE  Locks'
<1>1. /\ pc[t] = "relist" /\ pc' = [pc EXCEPT ![t] = my[t].then]
      /\ my' = [my EXCEPT ![t] = NoWork]
      /\ UNCHANGED <<binLock, slabLock, lruLock, numaLock>>
  BY DEF Relist, Done, Rest, Be, remVars
<1>2. Locks /\ ThreadOK(t)
  BY <1>1 DEF Base, Locks, ThreadOK, WorkOK, OnSlab
<1>3. WorkOK(my'[t]) /\ my[t].then \in {"idle", "putback"}
  BY <1>1, <1>2, Names DEF Locks, ThreadOK, WorkOK, WorkFields, AfterLen
<1>4. Steps(t) /\ ThreadOK(t)'
  BY <1>1, <1>2, <1>3, Names DEF Steps, Locks, ThreadOK, InFill, FillPcs, WithSlab, WithLru, OnSlab, AfterLen, Pcs
<1>5. QED BY <1>1, <1>2, <1>3, <1>4, LocksKept DEF Locks, ThreadOK, WithSlab, WithLru, InFill, FillPcs

LEMMA UnlinkLocks ==
  ASSUME Base, NEW t \in Threads, Unlink(t)
  PROVE  Locks'
<1>1. /\ pc[t] = "unlink" /\ pc' = [pc EXCEPT ![t] = "check"]
      /\ UNCHANGED <<binLock, slabLock, lruLock, numaLock>> /\ my' = my
  BY DEF Unlink, Go, remVars
<1>2. Locks /\ ThreadOK(t)
  BY <1>1 DEF Base, Locks, ThreadOK, WorkOK, OnSlab
<1>3. Steps(t) /\ ThreadOK(t)'
  BY <1>1, <1>2, Names DEF Steps, Locks, ThreadOK, InFill, FillPcs, WithSlab, WithLru, OnSlab, AfterLen, Pcs
<1>4. QED BY <1>1, <1>2, <1>3, LocksKept DEF Locks, ThreadOK, WithSlab, WithLru, InFill, FillPcs

LEMMA CheckLocks ==
  ASSUME Base, NEW t \in Threads, Check(t)
  PROVE  Locks'
<1>1. /\ pc[t] = "check"
      /\ \/ pc' = [pc EXCEPT ![t] = "drop"] /\ my' = my
         \/ pc' = [pc EXCEPT ![t] = my[t].then] /\ my' = [my EXCEPT ![t] = NoWork]
      /\ UNCHANGED <<binLock, slabLock, lruLock, numaLock>>
  BY DEF Check, Go, Done, Rest, Be, remVars
<1>2. Locks /\ ThreadOK(t)
  BY <1>1 DEF Base, Locks, ThreadOK, WorkOK, OnSlab
<1>3. /\ WorkOK(my'[t])
      /\ pc'[t] = "drop" => my'[t].cur = my[t].cur
      /\ \/ pc' = [pc EXCEPT ![t] = "drop"]
         \/ pc' = [pc EXCEPT ![t] = my[t].then] /\ my[t].then \in {"idle", "putback"}
  BY <1>1, <1>2, Names DEF Locks, ThreadOK, WorkOK, WorkFields, AfterLen, Pcs
<1>4. Steps(t) /\ ThreadOK(t)'
  BY <1>1, <1>2, <1>3, Names DEF Steps, Locks, ThreadOK, InFill, FillPcs, WithSlab, WithLru, OnSlab, AfterLen, Pcs
<1>5. QED BY <1>1, <1>2, <1>3, <1>4, LocksKept DEF Locks, ThreadOK, WithSlab, WithLru, InFill, FillPcs

LEMMA DropLocks ==
  ASSUME Base, NEW t \in Threads, Drop(t)
  PROVE  Locks'
<1>1. /\ pc[t] = "drop" /\ pc' = [pc EXCEPT ![t] = my[t].then]
      /\ my' = [my EXCEPT ![t] = NoWork]
      /\ UNCHANGED <<binLock, slabLock, lruLock, numaLock>>
  BY DEF Drop, Done, Rest, Be, remVars
<1>2. Locks /\ ThreadOK(t)
  BY <1>1 DEF Base, Locks, ThreadOK, WorkOK, OnSlab
<1>3. WorkOK(my'[t]) /\ my[t].then \in {"idle", "putback"}
  BY <1>1, <1>2, Names DEF Locks, ThreadOK, WorkOK, WorkFields, AfterLen
<1>4. Steps(t) /\ ThreadOK(t)'
  BY <1>1, <1>2, <1>3, Names DEF Steps, Locks, ThreadOK, InFill, FillPcs, WithSlab, WithLru, OnSlab, AfterLen, Pcs
<1>5. QED BY <1>1, <1>2, <1>3, <1>4, LocksKept DEF Locks, ThreadOK, WithSlab, WithLru, InFill, FillPcs

LEMMA FarMarkLocks ==
  ASSUME Base, NEW t \in Threads, FarMark(t)
  PROVE  Locks'
<1>1. /\ pc[t] = "far"
      /\ \/ /\ pc' = [pc EXCEPT ![t] = "enlist"]
            /\ my' = [my EXCEPT ![t] = [my[t] EXCEPT !.blk = NoBlock]]
         \/ /\ pc' = [pc EXCEPT ![t] = my[t].then]
            /\ my' = [my EXCEPT ![t] = NoWork]
      /\ UNCHANGED <<binLock, slabLock, lruLock, numaLock>>
  BY DEF FarMark, Be, Done, Rest, remVars
<1>2. Locks /\ ThreadOK(t)
  BY <1>1 DEF Base, Locks, ThreadOK, WorkOK, OnSlab
<1>3. /\ WorkOK(my'[t])
      /\ pc'[t] = "enlist" => my'[t].cur = my[t].cur
      /\ \/ pc' = [pc EXCEPT ![t] = "enlist"]
         \/ pc' = [pc EXCEPT ![t] = my[t].then] /\ my[t].then \in {"idle", "putback"}
  BY <1>1, <1>2, Names DEF Locks, ThreadOK, WorkOK, WorkFields, AfterLen
<1>4. Steps(t) /\ ThreadOK(t)'
  BY <1>1, <1>2, <1>3, Names DEF Steps, Locks, ThreadOK, InFill, FillPcs, WithSlab, WithLru, OnSlab, AfterLen, Pcs
<1>5. QED BY <1>1, <1>2, <1>3, <1>4, LocksKept DEF Locks, ThreadOK, WithSlab, WithLru, InFill, FillPcs

LEMMA EnlistLocks ==
  ASSUME Base, NEW t \in Threads, Enlist(t)
  PROVE  Locks'
<1>1. /\ pc[t] = "enlist" /\ pc' = [pc EXCEPT ![t] = my[t].then]
      /\ my' = [my EXCEPT ![t] = NoWork]
      /\ UNCHANGED <<binLock, slabLock, lruLock, numaLock>>
  BY DEF Enlist, Done, Rest, Be, remVars
<1>2. Locks /\ ThreadOK(t)
  BY <1>1 DEF Base, Locks, ThreadOK, WorkOK, OnSlab
<1>3. WorkOK(my'[t]) /\ my[t].then \in {"idle", "putback"}
  BY <1>1, <1>2, Names DEF Locks, ThreadOK, WorkOK, WorkFields, AfterLen
<1>4. Steps(t) /\ ThreadOK(t)'
  BY <1>1, <1>2, <1>3, Names DEF Steps, Locks, ThreadOK, InFill, FillPcs, WithSlab, WithLru, OnSlab, AfterLen, Pcs
<1>5. QED BY <1>1, <1>2, <1>3, <1>4, LocksKept DEF Locks, ThreadOK, WithSlab, WithLru, InFill, FillPcs

LEMMA SettleLocks ==
  ASSUME Base, NEW t \in Threads, Settle(t)
  PROVE  Locks'
<1>1. /\ pc[t] = "putback" /\ pc' = [pc EXCEPT ![t] = "idle"]
      /\ my' = [my EXCEPT ![t] = NoWork]
      /\ UNCHANGED <<binLock, slabLock, lruLock, numaLock>>
  BY DEF Settle, Rest, Be, remVars
<1>2. Locks /\ ThreadOK(t)
  BY <1>1 DEF Base, Locks, ThreadOK, WorkOK, OnSlab
<1>3. WorkOK(my'[t])
  BY <1>1, <1>2, Names DEF Locks, ThreadOK, WorkOK, WorkFields, AfterLen
<1>4. Steps(t) /\ ThreadOK(t)'
  BY <1>1, <1>2, <1>3, Names DEF Steps, Locks, ThreadOK, InFill, FillPcs, WithSlab, WithLru, OnSlab, AfterLen, Pcs
<1>5. QED BY <1>1, <1>2, <1>3, <1>4, LocksKept DEF Locks, ThreadOK, WithSlab, WithLru, InFill, FillPcs

LEMMA MigrateLocks ==
  ASSUME Base, NEW t \in Threads, Migrate(t)
  PROVE  Locks'
<1>1. /\ pc[t] = "idle" /\ pc' = [pc EXCEPT ![t] = "putback"]
      /\ my' = [my EXCEPT ![t] = NoWork]
      /\ UNCHANGED <<binLock, slabLock, lruLock, numaLock>>
  BY DEF Migrate, Rest, Be, remVars
<1>2. Locks /\ ThreadOK(t)
  BY <1>1 DEF Base, Locks, ThreadOK, WorkOK, OnSlab
<1>3. WorkOK(my'[t])
  BY <1>1, <1>2, Names DEF Locks, ThreadOK, WorkOK, WorkFields, AfterLen
<1>4. Steps(t) /\ ThreadOK(t)'
  BY <1>1, <1>2, <1>3, Names DEF Steps, Locks, ThreadOK, InFill, FillPcs, WithSlab, WithLru, OnSlab, AfterLen, Pcs
<1>5. QED BY <1>1, <1>2, <1>3, <1>4, LocksKept DEF Locks, ThreadOK, WithSlab, WithLru, InFill, FillPcs

(* A free begins with the slab of the block.                                *)
LEMMA StartLocks ==
  ASSUME Base, NEW t \in Threads, pc[t] \in {"idle", "putback"}, NEW b, b.slab \in Slots,
         NEW then \in {"idle", "putback"}, Start(t, b, then),
         UNCHANGED <<binLock, slabLock, lruLock, numaLock>>
  PROVE  Locks'
<1> DEFINE w == [NoWork EXCEPT !.cur = b.slab, !.blk = b, !.idx = Index(v[b.slab].sc, b.at),
                               !.sc = v[b.slab].sc, !.scb = v[b.slab].scb, !.then = then]
<1>1. /\ my' = [my EXCEPT ![t] = w]
      /\ pc' = [pc EXCEPT ![t] = "old"] \/ pc' = [pc EXCEPT ![t] = "unset"]
  BY DEF Start, Be
<1>2. Locks /\ ThreadOK(t) /\ v[b.slab].sc.cls \in Classes
  BY DEF Base, Locks, Layouts
<1>3. WorkOK(w) /\ w.cur = b.slab
  BY <1>2, Names DEF WorkOK, WorkFields
<1> HIDE DEF w
<1>4. Steps(t) /\ ThreadOK(t)'
  BY <1>1, <1>2, <1>3, Names DEF Steps, Locks, ThreadOK, InFill, FillPcs, WithSlab, WithLru, OnSlab, AfterLen, Pcs
<1>5. QED BY <1>1, <1>2, <1>4, LocksKept DEF Locks


(* Who puts entries back finds some: a block of a slab.                     *)
LEMMA PutBackBlock ==
  ASSUME Base, NEW t \in Threads, AllFilled(t) # {}
  PROVE  LET c == Min(AllFilled(t))
             b == Min(Filled(t, c))
         IN  /\ c \in Classes /\ b \in Banks /\ cache[t][c][b] # <<>>
             /\ Front(cache[t][c][b]).blk.slab \in Slots
<1> DEFINE c == Min(AllFilled(t))
           b == Min(Filled(t, c))
<1>1. c \in Classes /\ Filled(t, c) # {}
  <2>1. AllFilled(t) \in SUBSET Nat
    BY SlabsAssumption DEF AllFilled
  <2>2. c \in AllFilled(t)
    BY <2>1, MinIn
  <2>3. QED BY <2>2 DEF AllFilled
<1> HIDE DEF c
<1>2. b \in Banks /\ cache[t][c][b] # <<>>
  <2>1. Filled(t, c) \in SUBSET Nat
    BY SlabsAssumption DEF Filled, Banks
  <2>2. b \in Filled(t, c)
    BY <1>1, <2>1, MinIn
  <2>3. QED BY <2>2 DEF Filled
<1> HIDE DEF b
<1>3. Stack(cache[t][c][b])
  BY <1>1, <1>2 DEF Base, Stacked
<1>4. Front(cache[t][c][b]) \in Members(cache[t][c][b])
  BY <1>2, <1>3, TailIn DEF Stack
<1>5. Front(cache[t][c][b]).blk.slab \in Slots
  BY <1>3, <1>4 DEF Stack
<1>6. QED BY <1>1, <1>2, <1>5 DEF b, c

LEMMA PutBackLocks ==
  ASSUME Base, NEW t \in Threads, PutBack(t)
  PROVE  Locks'
<1> DEFINE c == Min(AllFilled(t))
           b == Min(Filled(t, c))
           e == Front(cache[t][c][b])
<1>1. /\ pc[t] = "putback" /\ AllFilled(t) # {} /\ Start(t, e.blk, "putback")
      /\ UNCHANGED <<binLock, slabLock, lruLock, numaLock>>
  BY DEF PutBack, remVars
<1>2. e.blk.slab \in Slots
  BY <1>1, PutBackBlock
<1> HIDE DEF e
<1>3. QED BY <1>1, <1>2, StartLocks

LEMMA FreeLocks ==
  ASSUME Base, NEW t \in Threads, NEW b \in held, Free(t, b)
  PROVE  Locks'
<1>1. b.slab \in Slots
  BY DEF Base, Lists
<1>2. QED BY <1>1, StartLocks DEF Free, remVars

LEMMA FarFreeLocks ==
  ASSUME Base, NEW t \in Threads, NEW b \in held, FarFree(t, b)
  PROVE  Locks'
<1> DEFINE w == [NoWork EXCEPT !.cur = b.slab, !.blk = b, !.sc = v[b.slab].sc,
                               !.idx = Index(v[b.slab].sc, b.at)]
<1>1. /\ pc[t] = "idle" /\ my' = [my EXCEPT ![t] = w]
      /\ pc' = [pc EXCEPT ![t] = "far"]
      /\ UNCHANGED <<binLock, slabLock, lruLock, numaLock>>
  BY DEF FarFree, Be
<1>2. Locks /\ ThreadOK(t) /\ b.slab \in Slots /\ v[b.slab].sc.cls \in Classes
  BY DEF Base, Locks, Layouts, Lists
<1>3. WorkOK(w) /\ w.cur = b.slab
  BY <1>2, Names DEF WorkOK, WorkFields
<1> HIDE DEF w
<1>4. Steps(t) /\ ThreadOK(t)'
  BY <1>1, <1>2, <1>3, Names DEF Steps, Locks, ThreadOK, InFill, FillPcs, WithSlab, WithLru, OnSlab, AfterLen, Pcs
<1>5. QED BY <1>1, <1>2, <1>4, LocksKept DEF Locks

LEMMA FlusherLocks ==
  ASSUME Base, FlusherStep
  PROVE  Locks'
<1>1. /\ UNCHANGED <<binLock, slabLock, lruLock, pc, my>> /\ numaLock' \in {None, Flusher}
  BY DEF FlusherStep, Wake, Flush, FlushEnd, Base, Locks
<1>2. QED BY <1>1 DEF Base, Locks, ThreadOK, InFill

(* Every step keeps the lock discipline.                                    *)
LEMMA NextLocks ==
  ASSUME Base, Next
  PROVE  Locks'
<1>1. ASSUME NEW t \in Threads, Call(t)
      PROVE  Locks'
  BY <1>1, MallocHitLocks, MallocMissLocks, FreeLocks, FarFreeLocks, MigrateLocks
     DEF Call
<1>2. ASSUME NEW t \in Threads, Fill(t)
      PROVE  Locks'
  BY <1>2, PopNoneLocks, PopLocks, SetLenLocks, TouchLocks, PopFullLocks, TakeLocks, GetLocks,
     SearchLocks, WalkEndLocks, WalkOnLocks, CreateLocks, InsertLocks, SeizeLocks, ReuseLocks,
     UnbinLocks, TableLocks, MetasLocks DEF Fill
<1>3. ASSUME NEW t \in Threads, Return(t)
      PROVE  Locks'
  BY <1>3, UnsetLocks, FreeNewLocks, FreedLocks, FreeOldLocks, RelistLocks, UnlinkLocks, CheckLocks, DropLocks,
     FarMarkLocks, EnlistLocks, PutBackLocks, SettleLocks DEF Return
<1>4. QED BY <1>1, <1>2, <1>3, FlusherLocks DEF Next, Inside

-----------------------------------------------------------------------------
(* Who waits for whom *)

(* The locks are asked for in the order bin, slab, LRU_lock, and numa_lock   *)
(* before slab, except by a search for a slab to morph.                     *)
LEMMA LockOrder ==
  ASSUME Locks, numaList \in Seq(Slots)
  PROVE  OnlyMorphDeadlocks
<1>1. SUFFICES ASSUME NEW D \in SUBSET (Threads \union {Flusher}), Deadlocked(D),
                      \A t \in D \ {Flusher} : pc[t] \notin {"seize", "unbin"}
               PROVE  FALSE
  BY DEF OnlyMorphDeadlocks
<1>2. /\ None \notin D
      /\ \A u \in D : WaitsFor(u) \in D
      /\ \A u \in D : u # Flusher => u \in Threads /\ ThreadOK(u) /\ pc[u] \in Pcs
  BY <1>1, Names DEF Deadlocked, Locks
<1>3. \A u \in D : u # Flusher =>
        /\ pc[u] \in {"visit", "old", "new", "far"} => slabLock[my[u].cur] \in D
        /\ pc[u] \in {"touch", "search", "create", "drop", "relist"} => lruLock \in D
        /\ pc[u] = "unlink" => binLock[my[u].sc.cls] \in D
        /\ pc[u] = "enlist" => numaLock \in D
        /\ pc[u] \in {"visit", "old", "new", "far", "touch", "search", "create", "drop", "relist",
                      "unlink", "enlist"}
  <2>1. SUFFICES ASSUME NEW u \in D, u # Flusher
                 PROVE  /\ pc[u] \in {"visit", "old", "new", "far"} => slabLock[my[u].cur] \in D
                        /\ pc[u] \in {"touch", "search", "create", "drop", "relist"} => lruLock \in D
                        /\ pc[u] = "unlink" => binLock[my[u].sc.cls] \in D
                        /\ pc[u] = "enlist" => numaLock \in D
                        /\ pc[u] \in {"visit", "old", "new", "far", "touch", "search", "create",
                                      "drop", "relist", "unlink", "enlist"}
    OBVIOUS
  <2>2. pc[u] \notin {"seize", "unbin"} /\ WaitsFor(u) \in D /\ WaitsFor(u) # None
    BY <1>1, <1>2, <2>1
  <2>3. QED BY <2>1, <2>2 DEF WaitsFor
<1>4. \A u \in D : u # Flusher =>
        pc[u] \notin {"touch", "search", "create", "drop", "relist"}
  <2>1. SUFFICES ASSUME lruLock \in D PROVE FALSE
    BY <1>3
  <2>2. lruLock \in Threads /\ lruLock # Flusher
    BY <1>2, <2>1, Names DEF Locks
  <2>3. pc[lruLock] \in WithLru
    BY <1>2, <2>1, <2>2 DEF ThreadOK
  <2>4. QED BY <1>1, <1>3, <2>1, <2>2, <2>3 DEF WithLru
<1>5. \A s \in Slots : slabLock[s] \notin D
  <2>1. SUFFICES ASSUME NEW s \in Slots, slabLock[s] \in D PROVE FALSE
    OBVIOUS
  <2>2. slabLock[s] \in Threads /\ slabLock[s] # Flusher
    BY <1>2, <2>1, Names DEF Locks
  <2>3. pc[slabLock[s]] \in WithSlab
    BY <1>2, <2>1, <2>2 DEF ThreadOK
  <2>4. QED BY <1>1, <1>3, <1>4, <2>1, <2>2, <2>3 DEF WithSlab
<1>6. Flusher \notin D
  <2>1. SUFFICES ASSUME Flusher \in D PROVE FALSE
    OBVIOUS
  <2>2. /\ numaList # <<>> /\ WaitsFor(Flusher) = slabLock[Front(numaList)]
    BY <1>2, <2>1 DEF WaitsFor
  <2>3. Front(numaList) \in Slots
    BY <2>2, TailIn DEF Members
  <2>4. QED BY <1>2, <1>5, <2>1, <2>2, <2>3
<1>7. \A u \in D : u \in Threads /\ pc[u] = "unlink"
  <2>1. SUFFICES ASSUME NEW u \in D, pc[u] # "unlink" PROVE FALSE
    BY <1>2, <1>6
  <2>2. CASE pc[u] = "enlist"
    BY <1>2, <1>3, <1>6, <2>2 DEF Locks
  <2>3. CASE pc[u] \in {"visit", "old", "new", "far"}
    BY <1>2, <1>3, <1>5, <1>6, <2>3 DEF ThreadOK, OnSlab
  <2>4. QED BY <1>3, <1>4, <1>6, <2>1, <2>2, <2>3
<1>8. PICK u \in D : TRUE
  BY <1>1 DEF Deadlocked
<1>9. /\ my[u].sc.cls \in Classes /\ binLock[my[u].sc.cls] \in D
  BY <1>2, <1>3, <1>6, <1>7 DEF ThreadOK, WorkOK
<1>10. InFill(binLock[my[u].sc.cls])
  BY <1>2, <1>6, <1>9 DEF ThreadOK
<1>11. QED BY <1>7, <1>9, <1>10 DEF InFill, FillPcs

=============================================================================
