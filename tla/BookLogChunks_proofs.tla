------------------------ MODULE BookLogChunks_proofs ------------------------
(***************************************************************************)
(* Proofs about BookLog, for chunks of any number of items, banks and      *)
(* items per cache line: the interleaved order in which a chunk is filled  *)
(* uses no slot twice, and so the log is only appended to; types; and      *)
(* where the chunks of the log file are: no chunk is lost, and none is in  *)
(* two places at once, whatever the clients, the flusher, fast_GC and      *)
(* slow_GC do.                                                             *)
(***************************************************************************)
EXTENDS BookLog, FiniteSetTheorems, FunctionTheorems, TLAPS

-----------------------------------------------------------------------------
(* Division *)

LEMMA Grows == \A d, m \in Nat : m >= 1 => d * m >= d
<1> TAKE d, m \in Nat
<1> HAVE m >= 1
<1>1. d * m = d * (m - 1) + d
  OBVIOUS
<1>2. d * (m - 1) >= 0
  OBVIOUS
<1>3. QED BY <1>1, <1>2

LEMMA Divided ==
  ASSUME NEW n \in Nat, NEW d \in Nat \ {0}
  PROVE  /\ n \div d \in Nat /\ n % d \in 0 .. d - 1
         /\ n = d * (n \div d) + (n % d)
OBVIOUS

(* Quotient and rest determine each other.                                  *)
LEMMA OneDivision ==
  ASSUME NEW d \in Nat \ {0}, NEW p \in Nat, NEW q \in Nat,
         NEW r \in 0 .. d - 1, NEW s \in 0 .. d - 1, d * p + r = d * q + s
  PROVE  p = q /\ r = s
<1>1. ASSUME NEW x \in Nat, NEW y \in Nat, NEW v \in 0 .. d - 1, NEW w \in 0 .. d - 1,
             d * x + v = d * y + w, x > y
      PROVE  FALSE
  <2>1. x - y \in Nat /\ x - y >= 1
    BY <1>1
  <2>2. d * (x - y) >= d
    BY <2>1, Grows
  <2>3. d * x = d * y + d * (x - y)
    OBVIOUS
  <2>4. d * x \in Int /\ d * y \in Int /\ d * (x - y) \in Int
    OBVIOUS
  <2>5. QED BY <1>1, <2>2, <2>3, <2>4
<1>2. p = q
  <2>1. ~(p > q)
    BY <1>1
  <2>2. ~(q > p)
    BY <1>1
  <2>3. QED BY <2>1, <2>2
<1>3. QED BY <1>2

-----------------------------------------------------------------------------
(* count_to_index *)

(* The place of k in its block, and the block.                              *)
Within(r) == (r % Banks) * PerLine + (r \div Banks)

LEMMA IndexSplit ==
  ASSUME NEW k \in Nat
  PROVE  LET nn == PerLine * Banks IN
         /\ nn \in Nat \ {0}
         /\ k \div nn \in Nat /\ k % nn \in 0 .. nn - 1
         /\ k = nn * (k \div nn) + (k % nn)
         /\ Index(k) = nn * (k \div nn) + Within(k % nn)
<1> DEFINE nn == PerLine * Banks
           q == k \div nn
           r == k % nn
<1>0. PerLine \in Nat \ {0} /\ Banks \in Nat \ {0}
  BY BookLogAssumption
<1>1. nn \in Nat /\ nn >= PerLine
  BY <1>0, Grows
<1>2. nn \in Nat \ {0}
  BY <1>0, <1>1
<1> HIDE DEF nn
<1>3. q \in Nat /\ r \in 0 .. nn - 1 /\ k = nn * q + r
  BY <1>2, Divided
<1>4. k % Banks = r % Banks
  <2> HIDE DEF q, r
  <2>0. r \in Nat
    BY <1>2, <1>3
  <2>1. /\ r \in Nat /\ r \div Banks \in Nat /\ r % Banks \in 0 .. Banks - 1
        /\ r = Banks * (r \div Banks) + (r % Banks)
    BY <1>0, <2>0, Divided
  <2>2. /\ k \div Banks \in Nat /\ k % Banks \in 0 .. Banks - 1
        /\ k = Banks * (k \div Banks) + (k % Banks)
    BY <1>0, Divided
  <2>3. PerLine * q + (r \div Banks) \in Nat
    BY <1>0, <1>3, <2>1
  <2>4. nn * q = Banks * (PerLine * q)
    BY <1>0, <1>3 DEF nn
  <2>5. k = Banks * (PerLine * q + (r \div Banks)) + (r % Banks)
    <3> DEFINE h == r \div Banks
               m == r % Banks
    <3>1. k = Banks * (PerLine * q) + (Banks * h + m)
      BY <1>3, <2>1, <2>4
    <3>2. h \in Nat /\ m \in Nat
      BY <2>1, <1>0
    <3> HIDE DEF h, m
    <3>3. k = Banks * (PerLine * q + h) + m
      BY <1>0, <1>3, <3>1, <3>2
    <3>4. QED BY <3>3 DEF h, m
  <2>6. QED
    <3> DEFINE a == PerLine * q + (r \div Banks)
               b == k \div Banks
               m == r % Banks
               w == k % Banks
    <3>1. /\ a \in Nat /\ b \in Nat /\ m \in 0 .. Banks - 1 /\ w \in 0 .. Banks - 1
          /\ Banks * b + w = Banks * a + m
      BY <2>1, <2>2, <2>3, <2>5
    <3> HIDE DEF a, b, m, w
    <3>2. w = m
      BY <1>0, <3>1, OneDivision
    <3>3. QED BY <3>2 DEF m, w
<1>5. q * nn = nn * q
  BY <1>2, <1>3
<1>6. Index(k) = q * nn + ((k % Banks) * PerLine + (r \div Banks))
  <2>1. (k % Banks) \in Int /\ (k % Banks) * PerLine \in Int /\ r \div Banks \in Int /\ q * nn \in Int
    BY <1>0, <1>2, <1>3, Divided
  <2>2. Index(k) = q * nn + (k % Banks) * PerLine + (r \div Banks)
    BY DEF Index, nn
  <2>3. QED BY <2>1, <2>2
<1>7. QED BY <1>2, <1>3, <1>4, <1>5, <1>6 DEF Within, nn

LEMMA WithinBlock ==
  ASSUME NEW r \in 0 .. PerLine * Banks - 1
  PROVE  /\ r % Banks \in Nat /\ r \div Banks \in 0 .. PerLine - 1
         /\ r = Banks * (r \div Banks) + (r % Banks)
         /\ Within(r) \in 0 .. PerLine * Banks - 1
<1> DEFINE m == r % Banks
           h == r \div Banks
<1>0. PerLine \in Nat \ {0} /\ Banks \in Nat \ {0} /\ PerLine * Banks \in Nat /\ r \in Nat
  BY BookLogAssumption
<1>1. h \in Nat /\ m \in 0 .. Banks - 1 /\ r = Banks * h + m
  BY <1>0, Divided
<1> HIDE DEF m, h
<1>2. h <= PerLine - 1
  <2>1. SUFFICES ASSUME h >= PerLine PROVE FALSE
    BY <1>0, <1>1
  <2>2. Banks * h = Banks * PerLine + Banks * (h - PerLine)
    BY <1>0, <1>1
  <2>3. Banks * (h - PerLine) >= 0
    BY <1>0, <1>1, <2>1
  <2>4. Banks * PerLine = PerLine * Banks /\ Banks * h \in Nat
    BY <1>0, <1>1
  <2>5. QED BY <1>0, <1>1, <2>2, <2>3, <2>4
<1>3. m * PerLine + h \in 0 .. PerLine * Banks - 1
  <2>1. m * PerLine \in Nat
    BY <1>0, <1>1
  <2>2. PerLine * Banks = m * PerLine + PerLine + (Banks - 1 - m) * PerLine
    BY <1>0, <1>1
  <2>3. (Banks - 1 - m) * PerLine >= 0
    BY <1>0, <1>1
  <2>4. QED BY <1>0, <1>1, <1>2, <2>1, <2>2, <2>3
<1>4. QED BY <1>0, <1>1, <1>2, <1>3 DEF Within, m, h

(* count_to_index is one-to-one: no two items of a chunk have one slot.     *)
THEOREM IndexOneToOne == \A j, k \in Nat : Index(j) = Index(k) => j = k
<1> TAKE j, k \in Nat
<1> HAVE Index(j) = Index(k)
<1> DEFINE nn == PerLine * Banks
<1>1. /\ nn \in Nat \ {0}
      /\ j \div nn \in Nat /\ j % nn \in 0 .. nn - 1 /\ j = nn * (j \div nn) + (j % nn)
      /\ k \div nn \in Nat /\ k % nn \in 0 .. nn - 1 /\ k = nn * (k \div nn) + (k % nn)
      /\ Index(j) = nn * (j \div nn) + Within(j % nn)
      /\ Index(k) = nn * (k \div nn) + Within(k % nn)
  BY IndexSplit
<1>2. Within(j % nn) \in 0 .. nn - 1 /\ Within(k % nn) \in 0 .. nn - 1
  BY <1>1, WithinBlock
<1>3. j \div nn = k \div nn /\ Within(j % nn) = Within(k % nn)
  <2> HIDE DEF nn
  <2>1. nn * (j \div nn) + Within(j % nn) = nn * (k \div nn) + Within(k % nn)
    BY <1>1
  <2>2. QED BY <1>1, <1>2, <2>1, OneDivision
<1>4. j % nn = k % nn
  <2> DEFINE r == j % nn
             s == k % nn
  <2>1. /\ PerLine \in Nat \ {0}
        /\ r % Banks \in Nat /\ r \div Banks \in 0 .. PerLine - 1
        /\ s % Banks \in Nat /\ s \div Banks \in 0 .. PerLine - 1
        /\ r = Banks * (r \div Banks) + (r % Banks)
        /\ s = Banks * (s \div Banks) + (s % Banks)
    BY <1>1, WithinBlock, BookLogAssumption
  <2> HIDE DEF r, s
  <2>2. PerLine * (r % Banks) + (r \div Banks) = PerLine * (s % Banks) + (s \div Banks)
    <3>1. Within(r) = Within(s)
      BY <1>3 DEF r, s
    <3>2. /\ (r % Banks) * PerLine = PerLine * (r % Banks)
          /\ (s % Banks) * PerLine = PerLine * (s % Banks)
      BY <2>1
    <3>3. QED BY <3>1, <3>2 DEF Within
  <2>3. r % Banks = s % Banks /\ r \div Banks = s \div Banks
    <3> DEFINE a == r \div Banks
               b == s \div Banks
               m == r % Banks
               w == s % Banks
    <3>1. /\ m \in Nat /\ w \in Nat /\ a \in 0 .. PerLine - 1 /\ b \in 0 .. PerLine - 1
          /\ PerLine * m + a = PerLine * w + b
      BY <2>1, <2>2
    <3> HIDE DEF a, b, m, w
    <3>2. m = w /\ a = b
      BY <2>1, <3>1, OneDivision
    <3>3. QED BY <3>2 DEF a, b, m, w
  <2>4. r = s
    BY <2>1, <2>3
  <2>5. QED BY <2>4 DEF r, s
<1>5. QED BY <1>1, <1>3, <1>4

-----------------------------------------------------------------------------
(* The file is only appended to *)

(* Only the slots of the items counted so far are used.                     *)
Filled ==
  /\ DOMAIN item = Chunks /\ \A c \in Chunks : DOMAIN item[c] = Slots
  /\ cnt \in [Chunks -> Nat]
  /\ \A c \in Chunks, i \in Slots :
       item[c][i] # Blank => \E k \in 0 .. cnt[c] - 1 : i = Index(k)

(* What AppendOnly says of one step.                                        *)
Appends ==
  \A c \in Chunks \ {NewChunk}, i \in Slots :
    item[c][i] # Blank => item'[c][i] = item[c][i]

LEMMA FilledAtFirst == Init => Filled
<1> SUFFICES ASSUME Init PROVE Filled
  OBVIOUS
<1>1. PICK f \in Files : InitFile(f)
  BY DEF Init
<1>2. /\ DOMAIN item = Chunks /\ \A c \in Chunks : DOMAIN item[c] = Slots
      /\ \A c \in Chunks, i \in Slots : item[c][i] # Blank => c = 2 /\ i = Index(0)
  BY <1>1 DEF InitFile
<1>3. cnt \in [Chunks -> Nat] /\ (2 \in Chunks => cnt[2] = 1)
  BY DEF Init
<1>4. QED BY <1>2, <1>3 DEF Filled

LEMMA TakeStep ==
  ASSUME Filled, NEW u, TakeChunk(NewChunk, u)
  PROVE  Filled' /\ Appends
<1> DEFINE n == NewChunk
<1>1. /\ item' = [item EXCEPT ![n] = [i \in Slots |-> Blank]]
      /\ cnt' = [cnt EXCEPT ![n] = 0]
  BY DEF TakeChunk
<1>2. \A c \in Chunks : c # n => item'[c] = item[c] /\ cnt'[c] = cnt[c]
  BY <1>1 DEF Filled
<1>3. n \in Chunks => item'[n] = [i \in Slots |-> Blank] /\ cnt'[n] = 0
  BY <1>1 DEF Filled
<1>4. DOMAIN item' = Chunks /\ cnt' \in [Chunks -> Nat]
  <2> HIDE DEF n
  <2>1. QED BY <1>1 DEF Filled
<1>5. \A c \in Chunks : DOMAIN item'[c] = Slots
  BY <1>2, <1>3 DEF Filled
<1>6. \A c \in Chunks, i \in Slots :
        item'[c][i] # Blank => \E k \in 0 .. cnt'[c] - 1 : i = Index(k)
  BY <1>2, <1>3 DEF Filled
<1>7. Appends
  BY <1>2 DEF Appends
<1>8. QED BY <1>4, <1>5, <1>6, <1>7 DEF Filled

LEMMA AppendStep ==
  ASSUME Filled, NEW d, NEW x, Append1(d, x)
  PROVE  Filled' /\ Appends
<1> DEFINE s == Index(cnt[d])
<1>1. /\ item' = [item EXCEPT ![d] = [@ EXCEPT ![s] = x]]
      /\ cnt' = [cnt EXCEPT ![d] = @ + 1]
  BY DEF Append1
<1> HIDE DEF s
<1>2. \A c \in Chunks : c # d => item'[c] = item[c] /\ cnt'[c] = cnt[c]
  BY <1>1 DEF Filled
<1>3. d \in Chunks => item'[d] = [item[d] EXCEPT ![s] = x] /\ cnt'[d] = cnt[d] + 1
  BY <1>1 DEF Filled
<1>4. DOMAIN item' = Chunks /\ cnt' \in [Chunks -> Nat]
  <2>1. DOMAIN item' = Chunks
    BY <1>1 DEF Filled
  <2>2. DOMAIN cnt' = Chunks /\ cnt' = [c \in Chunks |-> cnt'[c]]
    BY <1>1 DEF Filled
  <2>3. \A c \in Chunks : cnt'[c] \in Nat
    BY <1>2, <1>3 DEF Filled
  <2>4. QED BY <2>1, <2>2, <2>3
<1>5. \A c \in Chunks : DOMAIN item'[c] = Slots
  BY <1>2, <1>3 DEF Filled
<1>6. ASSUME d \in Chunks, NEW i \in Slots, i # s PROVE item'[d][i] = item[d][i]
  BY <1>3, <1>6 DEF Filled
<1>7. ASSUME NEW c \in Chunks, NEW i \in Slots, item'[c][i] # Blank
      PROVE  \E k \in 0 .. cnt'[c] - 1 : i = Index(k)
  <2>1. CASE c # d
    BY <1>2, <1>7, <2>1 DEF Filled
  <2>2. CASE c = d /\ i = s
    <3>1. cnt[d] \in Nat /\ cnt'[d] = cnt[d] + 1
      BY <1>3, <2>2 DEF Filled
    <3>2. cnt[d] \in 0 .. cnt'[d] - 1
      BY <3>1
    <3>3. QED BY <2>2, <3>2 DEF s
  <2>3. CASE c = d /\ i # s
    <3>1. item[d][i] # Blank /\ cnt[d] \in Nat /\ cnt'[d] = cnt[d] + 1
      BY <1>3, <1>6, <1>7, <2>3 DEF Filled
    <3>2. PICK k \in 0 .. cnt[d] - 1 : i = Index(k)
      BY <2>3, <3>1 DEF Filled
    <3>3. k \in 0 .. cnt'[d] - 1
      BY <3>1
    <3>4. QED BY <2>3, <3>2, <3>3
  <2>4. QED BY <2>1, <2>2, <2>3
<1>8. Appends
  <2>1. ASSUME NEW c \in Chunks, NEW i \in Slots, item[c][i] # Blank
        PROVE  item'[c][i] = item[c][i]
    <3>1. CASE c = d /\ i = s
      <4>1. cnt[d] \in Nat
        BY <3>1 DEF Filled
      <4>2. PICK k \in 0 .. cnt[d] - 1 : i = Index(k)
        BY <2>1, <3>1 DEF Filled
      <4>3. k \in Nat /\ k < cnt[d]
        BY <4>1, <4>2
      <4>4. Index(k) = Index(cnt[d])
        BY <3>1, <4>2 DEF s
      <4>5. k = cnt[d]
        BY <4>1, <4>3, <4>4, IndexOneToOne
      <4>6. QED BY <4>1, <4>3, <4>5
    <3>2. CASE ~(c = d /\ i = s)
      BY <1>2, <1>6, <3>2
    <3>3. QED BY <3>1, <3>2
  <2>2. QED BY <2>1 DEF Appends
<1>9. QED BY <1>4, <1>5, <1>7, <1>8 DEF Filled

LEMMA OtherStep ==
  ASSUME Filled, UNCHANGED <<item, cnt>>
  PROVE  Filled' /\ Appends
BY DEF Filled, Appends

LEMMA Steps == Filled /\ [Next]_vars => Filled' /\ Appends
<1> SUFFICES ASSUME Filled, [Next]_vars PROVE Filled' /\ Appends
  OBVIOUS
<1>1. CASE UNCHANGED vars
  BY <1>1, OtherStep DEF vars, fileVars, chunkVars
<1>2. CASE ClientStep
  <2>1. UNCHANGED <<item, cnt>>
    BY <1>2 DEF ClientStep, AllocBegin, FreeBegin, FreeLocal, FreeRemote, fileVars, chunkVars
  <2>2. QED BY <2>1, OtherStep
<1>3. CASE FlushBegin \/ Tick \/ TickLoose \/ Retire \/ Unlink \/ FastDone
  <2>1. UNCHANGED <<item, cnt>>
    BY <1>3 DEF FlushBegin, Tick, TickLoose, Retire, Unlink, FastDone, fileVars, chunkVars
  <2>2. QED BY <2>1, OtherStep
<1>4. CASE Grow \/ GcFirst \/ GcGrow
  BY <1>4, TakeStep DEF Grow, GcFirst, GcGrow, Extend
<1>5. CASE GcRoot
  BY <1>5, TakeStep DEF GcRoot
<1>6. CASE WriteNormal \/ WriteFree \/ WriteTomb \/ GcCopy
  BY <1>6, AppendStep DEF WriteNormal, WriteFree, WriteTomb, GcCopy
<1>7. CASE GcWake \/ GcDrop \/ GcVisit \/ GcAdvance \/ GcFlip \/ GcSwap
  <2>1. UNCHANGED <<item, cnt>>
    BY <1>7 DEF GcWake, GcDrop, GcVisit, GcAdvance, GcFlip, GcSwap, fileVars, chunkVars
  <2>2. QED BY <2>1, OtherStep
<1>8. CASE Failure
  <2>1. UNCHANGED <<item, cnt>>
    BY <1>8 DEF Failure, FreeRemoteFails, WriteFreeFails, TickDivides, GcDivides, GcVisitFails,
         GcCopyFails, Stop, fileVars, chunkVars
  <2>2. QED BY <2>1, OtherStep
<1>9. QED
  BY <1>1, <1>2, <1>3, <1>4, <1>5, <1>6, <1>7, <1>8 DEF Next, LogStep, GcStep

(* The items of a chunk are in the slots count_to_index gives, and nowhere  *)
(* else.                                                                    *)
THEOREM SlotsInOrder == Spec => []Filled
<1>1. QED BY FilledAtFirst, Steps, PTL DEF Spec

(* No item is written over another while its chunk is in use.               *)
THEOREM NothingOverwritten == Spec => AppendOnly
<1>1. QED BY FilledAtFirst, Steps, PTL DEF Spec, AppendOnly, Appends

-----------------------------------------------------------------------------
(* Sets of numbers *)

LEMMA LeastNat ==
  ASSUME NEW S \in SUBSET Nat, S # {}
  PROVE  \E m \in S : \A n \in S : m <= n
<1>1. PICK x \in S : \A y \in S : ~(<<y, x>> \in OpToRel(<, Nat))
  BY NatLessThanWellFounded, WFMin
<1>2. \A y \in S : ~(y < x)
  BY <1>1 DEF OpToRel
<1>3. QED BY <1>2

LEMMA GreatestNat ==
  ASSUME NEW S \in SUBSET Nat, NEW b \in Nat, S # {}, \A n \in S : n <= b
  PROVE  \E m \in S : \A n \in S : n <= m
<1> DEFINE D == {b - n : n \in S}
<1>0. \A n \in S : n \in Nat /\ b - n \in Nat
  OBVIOUS
<1>1. D \in SUBSET Nat /\ D # {}
  BY <1>0
<1>2. PICK d \in D : \A e \in D : d <= e
  BY <1>1, LeastNat
<1>3. PICK m \in S : d = b - m
  BY <1>2
<1>4. ASSUME NEW n \in S PROVE n <= m
  <2>1. b - m <= b - n
    BY <1>2, <1>3
  <2>2. QED BY <1>0, <2>1
<1>5. QED BY <1>4

LEMMA ChunkRange ==
  /\ Chunks \subseteq Nat \ {0} /\ FileChunks \in Nat /\ IsFiniteSet(Chunks)
  /\ \A c \in Chunks : c < FileChunks
  /\ Nil \notin Chunks
<1>1. FileChunks \in Nat /\ FileChunks > 3
  BY BookLogAssumption
<1>2. IsFiniteSet(1 .. FileChunks - 1)
  BY <1>1, FS_Interval
<1>3. QED BY <1>1, <1>2 DEF Chunks, Nil

LEMMA HighestIn ==
  ASSUME NEW S \in SUBSET Chunks, S # {}
  PROVE  Highest(S) \in S /\ \A d \in S : d <= Highest(S)
<1>1. S \in SUBSET Nat /\ FileChunks \in Nat /\ \A n \in S : n <= FileChunks
  BY ChunkRange
<1>2. \E m \in S : \A n \in S : n <= m
  BY <1>1, GreatestNat
<1>3. QED BY <1>2 DEF Highest

LEMMA LowestIn ==
  ASSUME NEW S \in SUBSET Nat, S # {}
  PROVE  Lowest(S) \in S /\ \A d \in S : Lowest(S) <= d
BY LeastNat DEF Lowest

-----------------------------------------------------------------------------
(* Lists of chunks *)

Distinct(s) == \A i, j \in DOMAIN s : s[i] = s[j] => i = j
Elems(s) == {s[k] : k \in DOMAIN s}

LEMMA ConcatList ==
  ASSUME NEW S, NEW s \in Seq(S), NEW t \in Seq(S), Distinct(s), Distinct(t),
         Elems(s) \cap Elems(t) = {}
  PROVE  /\ s \o t \in Seq(S) /\ Distinct(s \o t)
         /\ Elems(s \o t) = Elems(s) \cup Elems(t)
<1> DEFINE u == s \o t
           m == Len(s)
           n == Len(t)
<1>1. /\ m \in Nat /\ n \in Nat /\ DOMAIN s = 1 .. m /\ DOMAIN t = 1 .. n
      /\ u \in Seq(S) /\ DOMAIN u = 1 .. m + n
      /\ \A i \in 1 .. m : u[i] = s[i]
      /\ \A i \in m + 1 .. m + n : u[i] = t[i - m]
  OBVIOUS
<1> HIDE DEF u, m, n
<1>2. \A i \in 1 .. m : u[i] \in Elems(s) /\ s[i] \in Elems(u)
  BY <1>1 DEF Elems
<1>3. \A i \in m + 1 .. m + n : u[i] \in Elems(t)
  <2> TAKE i \in m + 1 .. m + n
  <2>1. i - m \in DOMAIN t /\ u[i] = t[i - m]
    BY <1>1
  <2>2. QED BY <2>1 DEF Elems
<1>4. \A i \in 1 .. n : t[i] \in Elems(u)
  <2> TAKE i \in 1 .. n
  <2>1. m + i \in m + 1 .. m + n /\ m + i \in DOMAIN u /\ u[m + i] = t[i]
    BY <1>1
  <2>2. QED BY <2>1 DEF Elems
<1>5. Elems(u) = Elems(s) \cup Elems(t)
  <2>1. \A i \in DOMAIN u : u[i] \in Elems(s) \cup Elems(t)
    BY <1>1, <1>2, <1>3
  <2>2. \A i \in DOMAIN s : s[i] \in Elems(u)
    BY <1>1, <1>2
  <2>3. \A i \in DOMAIN t : t[i] \in Elems(u)
    BY <1>1, <1>4
  <2>4. QED BY <2>1, <2>2, <2>3 DEF Elems
<1>6. Distinct(u)
  <2>1. \A i, j \in 1 .. m : u[i] = u[j] => i = j
    BY <1>1 DEF Distinct
  <2>2. ASSUME NEW i \in m + 1 .. m + n, NEW j \in m + 1 .. m + n, u[i] = u[j]
        PROVE  i = j
    <3>1. /\ i - m \in DOMAIN t /\ j - m \in DOMAIN t /\ t[i - m] = t[j - m]
          /\ i \in Int /\ j \in Int
      BY <1>1, <2>2
    <3>2. i - m = j - m
      BY <3>1 DEF Distinct
    <3>3. QED BY <1>1, <3>1, <3>2
  <2>3. \A i \in 1 .. m, j \in m + 1 .. m + n : u[i] # u[j]
    BY <1>2, <1>3
  <2>4. \A i \in 1 .. m + n : i \in 1 .. m \/ i \in m + 1 .. m + n
    BY <1>1
  <2>5. \A i, j \in 1 .. m + n : u[i] = u[j] => i = j
    BY <2>1, <2>2, <2>3, <2>4
  <2>6. QED BY <1>1, <2>5 DEF Distinct
<1>7. QED BY <1>1, <1>5, <1>6 DEF u

LEMMA TailList ==
  ASSUME NEW S, NEW s \in Seq(S), s # <<>>, Distinct(s)
  PROVE  /\ Head(s) \in Elems(s) /\ Head(s) \in S
         /\ Tail(s) \in Seq(S) /\ Distinct(Tail(s))
         /\ Elems(Tail(s)) = Elems(s) \ {Head(s)}
<1> DEFINE n == Len(s)
<1>1. /\ n \in Nat /\ n >= 1 /\ DOMAIN s = 1 .. n /\ Head(s) = s[1]
      /\ Tail(s) \in Seq(S) /\ DOMAIN Tail(s) = 1 .. n - 1
      /\ \A i \in 1 .. n - 1 : Tail(s)[i] = s[i + 1]
  OBVIOUS
<1>2. Head(s) \in Elems(s) /\ Head(s) \in S
  BY <1>1 DEF Elems
<1>3. Distinct(Tail(s))
  BY <1>1 DEF Distinct
<1>4. \A i \in 1 .. n - 1 : Tail(s)[i] \in Elems(s) \ {Head(s)}
  BY <1>1 DEF Distinct, Elems
<1>5. \A i \in 1 .. n : i # 1 => s[i] \in Elems(Tail(s))
  <2> TAKE i \in 1 .. n
  <2> HAVE i # 1
  <2>1. i - 1 \in 1 .. n - 1 /\ Tail(s)[i - 1] = s[i]
    BY <1>1
  <2>2. QED BY <2>1, <1>1 DEF Elems
<1>6. Elems(Tail(s)) = Elems(s) \ {Head(s)}
  BY <1>1, <1>4, <1>5 DEF Elems
<1>7. QED BY <1>1, <1>2, <1>3, <1>6

LEMMA OneList ==
  ASSUME NEW S, NEW x \in S
  PROVE  /\ <<x>> \in Seq(S) /\ Distinct(<<x>>) /\ Elems(<<x>>) = {x} /\ Len(<<x>>) = 1
<1>1. DOMAIN <<x>> = {1} /\ <<x>>[1] = x
  OBVIOUS
<1>2. QED BY <1>1 DEF Distinct, Elems

LEMMA ListLength ==
  ASSUME NEW S, NEW s \in Seq(S), Distinct(s)
  PROVE  IsFiniteSet(Elems(s)) /\ Cardinality(Elems(s)) = Len(s)
<1>1. Len(s) \in Nat /\ DOMAIN s = 1 .. Len(s)
  OBVIOUS
<1> DEFINE f == [k \in 1 .. Len(s) |-> s[k]]
<1>2. f \in Bijection(1 .. Len(s), Elems(s))
  BY <1>1 DEF Distinct, Elems, Bijection, Injection, Surjection, IsInjective
<1>3. ExistsBijection(1 .. Len(s), Elems(s))
  BY <1>2 DEF ExistsBijection
<1>4. QED BY <1>1, <1>3, FS_CountingElements, FS_NatBijection

(* Descending lists a set of chunks, each once.                             *)
LEMMA DescendingList ==
  ASSUME NEW S \in SUBSET Chunks
  PROVE  /\ Descending(S) \in Seq(Chunks) /\ Distinct(Descending(S))
         /\ Elems(Descending(S)) = S /\ IsFiniteSet(S) /\ Cardinality(S) \in Nat
<1> DEFINE n == Cardinality(S)
           Above(c) == {d \in S : d > c}
           g == [c \in S |-> Cardinality(Above(c)) + 1]
           D == Descending(S)
<1>1. IsFiniteSet(S) /\ n \in Nat /\ S \subseteq Nat
  BY ChunkRange, FS_Subset, FS_CardinalityType
<1>2. \A c \in S : IsFiniteSet(Above(c)) /\ Cardinality(Above(c)) \in Nat
  BY <1>1, FS_Subset, FS_CardinalityType
<1>3. \A c \in S : g[c] \in 1 .. n
  <2> TAKE c \in S
  <2>1. IsFiniteSet(S \ {c}) /\ Cardinality(S \ {c}) = n - 1
    BY <1>1, FS_RemoveElement
  <2>2. Above(c) \in SUBSET (S \ {c})
    BY <1>1
  <2>3. Cardinality(Above(c)) <= n - 1
    BY <2>1, <2>2, FS_Subset
  <2>4. QED BY <1>1, <1>2, <2>3
<1>4. ASSUME NEW c \in S, NEW e \in S, c < e PROVE g[c] # g[e]
  <2>1. e \notin Above(e)
    BY <1>1
  <2>2. Cardinality(Above(e) \cup {e}) = Cardinality(Above(e)) + 1
    BY <1>2, <2>1, FS_AddElement
  <2>3. Above(e) \cup {e} \in SUBSET Above(c)
    <3>1. c \in Nat /\ e \in Nat /\ \A d \in S : d \in Nat
      BY <1>1
    <3>2. \A d \in S : d > e => d > c
      BY <1>4, <3>1
    <3>3. QED BY <1>4, <3>1, <3>2
  <2>4. Cardinality(Above(e)) + 1 <= Cardinality(Above(c))
    BY <1>2, <2>2, <2>3, FS_Subset
  <2>5. QED BY <1>2, <2>4
<1> HIDE DEF g, n
<1>5. g \in Injection(S, 1 .. n)
  <2>1. g \in [S -> 1 .. n]
    BY <1>3 DEF g
  <2>2. \A c, e \in S : g[c] = g[e] => c = e
    <3> TAKE c, e \in S
    <3>1. c < e \/ e < c \/ c = e
      BY <1>1
    <3>2. QED BY <1>4, <3>1
  <2>3. QED BY <2>1, <2>2 DEF Injection, IsInjective
<1>6. IsFiniteSet(1 .. n) /\ Cardinality(1 .. n) = n
  BY <1>1, FS_Interval
<1>7. g \in Surjection(S, 1 .. n)
  BY <1>1, <1>5, <1>6, FS_Injection DEF n
<1>8. \A k \in 1 .. n : \E c \in S : g[c] = k
  BY <1>7 DEF Surjection
<1>9. ASSUME NEW k \in 1 .. n PROVE D[k] \in S /\ g[D[k]] = k
  <2>1. D[k] = CHOOSE c \in S : Cardinality(Above(c)) = k - 1
    BY DEF Descending, n
  <2>2. \E c \in S : Cardinality(Above(c)) = k - 1
    <3>1. PICK c \in S : g[c] = k
      BY <1>8
    <3>2. Cardinality(Above(c)) = k - 1
      BY <1>1, <1>2, <3>1 DEF g
    <3>3. QED BY <3>2
  <2>3. D[k] \in S /\ Cardinality(Above(D[k])) = k - 1
    BY <2>1, <2>2
  <2>4. QED BY <1>1, <2>3 DEF g
<1>10. DOMAIN D = 1 .. n
  BY DEF Descending, n
<1>11. D \in Seq(Chunks)
  <2>1. D = [k \in 1 .. n |-> CHOOSE c \in S : Cardinality({d \in S : d > c}) = k - 1]
    BY DEF Descending, n
  <2>2. \A k \in 1 .. n : D[k] \in Chunks
    BY <1>9
  <2> HIDE DEF D
  <2>3. D \in [1 .. n -> Chunks]
    BY <2>1, <2>2
  <2>4. QED BY <1>1, <2>3
<1> HIDE DEF D
<1>12. Distinct(D)
  BY <1>9, <1>10 DEF Distinct
<1>13. Elems(D) = S
  <2>1. \A c \in S : D[g[c]] = c
    <3> TAKE c \in S
    <3>1. g[c] \in 1 .. n /\ D[g[c]] \in S /\ g[D[g[c]]] = g[c]
      BY <1>3, <1>9
    <3>2. QED BY <1>5, <3>1 DEF Injection, IsInjective
  <2>2. QED BY <1>3, <1>9, <1>10, <2>1 DEF Elems
<1>14. QED BY <1>1, <1>11, <1>12, <1>13 DEF D, n

-----------------------------------------------------------------------------
(* Who holds log_lock, and where he is with which item.                     *)
Holder ==
  /\ lock = "none" <=> at = "out"
  /\ lock = "gc" <=> at \in {"first", "visit", "copy", "swap"}
  /\ lock = "gc" => gc = "lock"
  /\ at = "item" => \/ job.type = "normal" /\ lock \in Threads
                    \/ job.type = "free"
  /\ at = "item" /\ lock \in Threads /\ job.type = "free" =>
       freeing[lock] # NoRef /\ job.ref = freeing[lock]
  /\ \A k \in DOMAIN tombs : tombs[k].type = "free"

(* A log: its root, its tree with the tail in it, and num_of_chunks.        *)
Shaped(v, r) ==
  /\ r \in Chunks /\ r \notin v.tree
  /\ v.tail \in v.tree
  /\ v.nextId > 0
Sides ==
  /\ vlog.side = IF at = "swap" THEN 1 - alt ELSE alt
  /\ lock = "gc" => new.side = 1 - vlog.side
Logs1 ==
  /\ Shaped(vlog, root[vlog.side])
  /\ at = "first" => new.tree = {} /\ new.tail \in Chunks /\ new.nextId > 0
  /\ at \in {"visit", "copy", "swap"} => Shaped(new, root[new.side])
  /\ lock # "gc" => new = NoLog
Numbers ==
  /\ vlog.chunks = Cardinality(vlog.tree) + 1
  /\ lock = "gc" => new.chunks = Cardinality(new.tree) + 1

(* Everything cut from the file is in one place.                            *)
Places ==
  /\ Distinct(freeList)
  /\ InUse \cap NewInUse = {} /\ InUse \cap Free = {} /\ NewInUse \cap Free = {}
  /\ InUse \cup NewInUse \cup Free = 1 .. used - 1

(* The item just written has its bit: the tail is not empty.                *)
TailKept == at \in {"tick", "retire", "unlink"} => bits[vlog.tail] # {}

(* Between two fast GCs no chunk of a tree is marked free; within one those *)
(* that are, are the highest of the empty ones.                             *)
Marking ==
  /\ at \notin {"retire", "unlink"} => \A c \in vlog.tree : id[c] # 0
  /\ \A c \in new.tree : id[c] # 0
  /\ \A c \in Retired, d \in Empty \ Retired : d < c
  /\ \A c \in vlog.tree : id[c] = 0 => bits[c] = {}
  /\ at = "unlink" => Retired # {}

(* slow_GC looks at bits of NORMAL items of a chunk in the tree.            *)
Looking ==
  at = "copy" => /\ cursor \in vlog.tree
                 /\ \A i \in marks : item[cursor][i].type = "normal"

ChunkInv ==
  /\ TypeOK /\ Filled /\ Holder /\ Sides /\ Logs1 /\ Numbers /\ Places
  /\ TailKept /\ Marking /\ Looking

-----------------------------------------------------------------------------
(* TypeOK by groups of variables *)

TypeSpace == used \in Chunks /\ taken \in Nat /\ freeList \in Seq(Chunks)
TypeHead  == root \in [{0, 1} -> Chunks \cup {Nil}] /\ alt \in {0, 1}
TypeChunk ==
  /\ nxt \in [Chunks -> Chunks \cup {Nil}] /\ pre \in [Chunks -> Chunks \cup {Nil}]
  /\ id \in [Chunks -> Nat] /\ cnt \in [Chunks -> Nat]
  /\ item \in [Chunks -> [Slots -> Items]] /\ bits \in [Chunks -> SUBSET Slots]
TypeLogs == vlog \in Logs /\ new \in Logs
TypeUser ==
  /\ extLog \in [Addrs -> Refs \cup {NoRef}] /\ freeing \in [Threads -> Refs \cup {NoRef}]
  /\ held \subseteq Addrs /\ moved \subseteq Threads
TypeBound == posts \in {0, 1} /\ fasts \in Nat /\ astray \in BOOLEAN /\ slows \in Nat
TypeGc    == gc \in {"wait", "lock"} /\ cursor \in Chunks \cup {Nil} /\ marks \in SUBSET Slots
TypeProc  ==
  /\ tombs \in Seq(Items) /\ job \in Items
  /\ lock \in Threads \cup {"none", "flusher", "gc"}
  /\ at \in {"out", "item", "tick", "retire", "unlink", "first", "visit", "copy", "swap"}
TypeEnd   == failed \in {"no", "no chunk", "moved", "division by zero", "chain", "no extent",
                         "extent log"}

LEMMA TypeParts ==
  TypeOK <=> /\ TypeSpace /\ TypeHead /\ TypeChunk /\ TypeLogs /\ TypeUser
             /\ TypeBound /\ TypeGc /\ TypeProc /\ TypeEnd
BY DEF TypeOK, TypeSpace, TypeHead, TypeChunk, TypeLogs, TypeUser, TypeBound, TypeGc, TypeProc,
       TypeEnd

(* What a step that takes no chunk and frees none leaves of the logs.       *)
SameShape(v, w) ==
  /\ v.side = w.side /\ v.tree = w.tree /\ v.tail = w.tail
  /\ v.nextId = w.nextId /\ v.chunks = w.chunks
SameLogs ==
  /\ UNCHANGED <<used, freeList, root>>
  /\ SameShape(vlog', vlog) /\ SameShape(new', new)
  /\ lock' # "gc" => new' = new
  /\ (lock' = "gc") = (lock = "gc")
  /\ (at' = "first") = (at = "first")

LEMMA FrameLogs ==
  ASSUME Holder, Holder', Logs1, Numbers, Places, SameLogs
  PROVE  Logs1' /\ Numbers' /\ Places'
<1>1. Logs1'
  BY DEF Holder, Logs1, SameLogs, SameShape, Shaped
<1>2. Numbers'
  BY DEF Numbers, SameLogs, SameShape
<1>3. InUse' = InUse /\ Free' = Free
  BY DEF InUse, Free, SameLogs, SameShape
<1>4. NewInUse' = NewInUse
  BY DEF NewInUse, SameLogs, SameShape
<1>5. Places'
  BY <1>3, <1>4 DEF Places, SameLogs
<1>6. QED BY <1>1, <1>2, <1>5

LEMMA IndexNat == \A k \in Nat : Index(k) \in Nat
<1> TAKE k \in Nat
<1> DEFINE nn == PerLine * Banks
<1>1. /\ nn \in Nat \ {0} /\ k \div nn \in Nat /\ k % nn \in 0 .. nn - 1
      /\ Index(k) = nn * (k \div nn) + Within(k % nn)
  BY IndexSplit
<1>2. Within(k % nn) \in 0 .. nn - 1
  BY <1>1, WithinBlock
<1>3. nn * (k \div nn) \in Nat
  <2> DEFINE q == k \div nn
  <2>1. nn \in Nat /\ q \in Nat
    BY <1>1
  <2> HIDE DEF nn, q
  <2>2. nn * q \in Nat
    BY <2>1
  <2>3. QED BY <2>2 DEF q, nn
<1>4. QED
  <2> DEFINE m == nn * (k \div nn)
             w == Within(k % nn)
  <2>1. m \in Nat /\ w \in Nat /\ Index(k) = m + w
    BY <1>1, <1>2, <1>3
  <2> HIDE DEF m, w
  <2>2. QED BY <2>1

(* The place of the next item of a chunk that is not full.                  *)
LEMMA PlaceIn ==
  ASSUME TypeChunk, NEW c \in Chunks, ~Full(c)
  PROVE  Index(cnt[c]) \in Slots /\ Place(c) \in Refs
<1>1. cnt[c] \in Nat /\ NItems \in Nat
  BY BookLogAssumption DEF TypeChunk
<1>2. Index(cnt[c]) \in Nat
  BY <1>1, IndexNat
<1>3. QED BY <1>1, <1>2 DEF Full, Place, Refs, Slots

(* What Append1 does to the chunk.                                          *)
LEMMA AppendTypes ==
  ASSUME TypeChunk, NEW c \in Chunks, ~Full(c), NEW x \in Items, Append1(c, x)
  PROVE  /\ item' \in [Chunks -> [Slots -> Items]] /\ cnt' \in [Chunks -> Nat]
         /\ \A d \in Chunks \ {c} : item'[d] = item[d]
         /\ item'[c] = [item[c] EXCEPT ![Index(cnt[c])] = x]
         /\ UNCHANGED <<used, taken, freeList, nxt, id, root, alt, pre>>
<1>1. Index(cnt[c]) \in Slots
  BY PlaceIn
<1>2. /\ item' = [item EXCEPT ![c] = [item[c] EXCEPT ![Index(cnt[c])] = x]]
      /\ cnt' = [cnt EXCEPT ![c] = cnt[c] + 1]
      /\ UNCHANGED <<used, taken, freeList, nxt, id, root, alt, pre>>
  BY DEF Append1, spaceVars, headVars
<1>3. QED BY <1>1, <1>2 DEF TypeChunk

LEMMA BitTypes ==
  ASSUME NEW f \in [Chunks -> SUBSET Slots], NEW r \in Refs
  PROVE  /\ SetBit(f, r) \in [Chunks -> SUBSET Slots]
         /\ \A c \in Chunks : SetBit(f, r)[c] = IF c = r[1] THEN f[c] \cup {r[2]} ELSE f[c]
BY DEF SetBit, Refs

LEMMA ClearTypes ==
  ASSUME TypeChunk, NEW r \in Refs
  PROVE  /\ Cleared(r) \in [Chunks -> SUBSET Slots]
         /\ \A c \in Chunks : Cleared(r)[c] = IF c = r[1] THEN bits[c] \ {r[2]} ELSE bits[c]
BY DEF Cleared, Refs, TypeChunk

(* What TakeChunk does: the chunk was free or beyond the used part.         *)
LEMMA TakeTypes ==
  ASSUME TypeSpace, TypeChunk, Places, NEW v, v.nextId \in Nat, TakeChunk(NewChunk, v)
  PROVE  /\ NewChunk \in Chunks
         /\ TypeSpace' /\ id' \in [Chunks -> Nat] /\ cnt' \in [Chunks -> Nat]
         /\ item' \in [Chunks -> [Slots -> Items]] /\ bits' \in [Chunks -> SUBSET Slots]
         /\ id' = [id EXCEPT ![NewChunk] = v.nextId]
         /\ bits' = [bits EXCEPT ![NewChunk] = {}]
         /\ \A c \in Chunks \ {NewChunk} : item'[c] = item[c]
         /\ NewChunk \notin InUse /\ NewChunk \notin NewInUse
         /\ Distinct(freeList') /\ Free' = Free \ {NewChunk}
         /\ 1 .. used' - 1 = (1 .. used - 1) \cup {NewChunk}
<1> DEFINE n == NewChunk
<1>1. /\ taken' = taken + 1
      /\ id' = [id EXCEPT ![n] = v.nextId]
      /\ item' = [item EXCEPT ![n] = [i \in Slots |-> Blank]]
      /\ cnt' = [cnt EXCEPT ![n] = 0]
      /\ bits' = [bits EXCEPT ![n] = {}]
  BY DEF TakeChunk
<1>2. Free = Elems(freeList) /\ Free' = Elems(freeList')
  BY DEF Free, Elems
<1>3. /\ n \in Chunks /\ used' \in Chunks /\ freeList' \in Seq(Chunks)
      /\ n \notin InUse /\ n \notin NewInUse
      /\ Distinct(freeList') /\ Free' = Free \ {n}
      /\ 1 .. used' - 1 = (1 .. used - 1) \cup {n}
  <2>1. CASE freeList = <<>>
    <3>1. /\ n = used /\ used' = used + 1 /\ used + 1 < FileChunks /\ freeList' = freeList
          /\ used \in Nat /\ used >= 1 /\ FileChunks \in Nat
      BY <2>1, ChunkRange DEF TakeChunk, NewChunk, TypeSpace, Chunks
    <3>2. n \in Chunks /\ used' \in Chunks /\ 1 .. used' - 1 = (1 .. used - 1) \cup {n}
      BY <3>1 DEF Chunks
    <3>3. n \notin 1 .. used - 1
      BY <3>1
    <3>4. QED BY <1>2, <3>1, <3>2, <3>3 DEF Places, TypeSpace
  <2>2. CASE freeList # <<>>
    <3>1. n = Head(freeList) /\ freeList' = Tail(freeList) /\ used' = used
      BY <2>2 DEF TakeChunk, NewChunk
    <3>2. freeList \in Seq(Chunks) /\ Distinct(freeList)
      BY DEF TypeSpace, Places
    <3>3. /\ n \in Free /\ n \in Chunks /\ freeList' \in Seq(Chunks) /\ Distinct(freeList')
          /\ Free' = Free \ {n}
      BY <1>2, <2>2, <3>1, <3>2, TailList
    <3>4. QED BY <3>1, <3>3 DEF Places, TypeSpace
  <2>3. QED BY <2>1, <2>2
<1>4. taken' \in Nat
  BY <1>1 DEF TypeSpace
<1>5. [i \in Slots |-> Blank] \in [Slots -> Items]
  BY DEF Items
<1> HIDE DEF n
<1>6. QED BY <1>1, <1>3, <1>4, <1>5 DEF TypeSpace, TypeChunk, n

LEMMA ExtendedIs ==
  ASSUME NEW v \in Logs, NewChunk \in Chunks
  PROVE  /\ Extended(v) \in Logs
         /\ Extended(v).side = v.side /\ Extended(v).tree = v.tree \cup {NewChunk}
         /\ Extended(v).tail = NewChunk /\ Extended(v).nextId = v.nextId + 1
         /\ Extended(v).chunks = v.chunks + 1
<1>1. /\ v.tree \cup {NewChunk} \in SUBSET Chunks
      /\ v.nextId + 1 \in Nat /\ v.chunks + 1 \in Nat
  BY DEF Logs
<1>2. Extended(v) = [v EXCEPT !.tree = v.tree \cup {NewChunk}, !.tail = NewChunk,
                              !.nextId = v.nextId + 1, !.chunks = v.chunks + 1]
  BY DEF Extended, NextId, Logs
<1>3. QED BY <1>1, <1>2 DEF Logs

(* After an item of a tick, or a fast GC.                                   *)
LEMMA FinishKeeps ==
  ASSUME Holder, TypeProc, lock # "gc", Finish, UNCHANGED <<gc, freeing>>
  PROVE  TypeProc' /\ Holder' /\ lock' # "gc" /\ at' \in {"out", "item"}
<1>1. CASE lock = "flusher" /\ tombs # <<>>
  <2>1. at' = "item" /\ job' = Head(tombs) /\ tombs' = Tail(tombs) /\ lock' = lock
    BY <1>1 DEF Finish, Goto
  <2>2. /\ Head(tombs) \in Items /\ Tail(tombs) \in Seq(Items) /\ Head(tombs) = tombs[1]
        /\ \A k \in DOMAIN Tail(tombs) : k + 1 \in DOMAIN tombs /\ Tail(tombs)[k] = tombs[k + 1]
        /\ 1 \in DOMAIN tombs
    BY <1>1 DEF TypeProc
  <2>3. TypeProc'
    BY <1>1, <2>1, <2>2 DEF TypeProc
  <2>4. "flusher" \notin Threads
    BY BookLogAssumption
  <2>5. Holder'
    BY <1>1, <2>1, <2>2, <2>4 DEF Holder
  <2>6. QED BY <1>1, <2>1, <2>3, <2>5
<1>2. CASE ~(lock = "flusher" /\ tombs # <<>>)
  <2>1. lock' = "none" /\ at' = "out" /\ job' = Blank /\ tombs' = tombs
    BY <1>2 DEF Finish, Leave
  <2>2. TypeProc' /\ Holder'
    BY <2>1 DEF TypeProc, Holder, Items
  <2>3. QED BY <2>1, <2>2
<1>3. QED BY <1>1, <1>2

ChunkStep ==
  /\ TypeOK' /\ Holder' /\ Sides' /\ Logs1' /\ Numbers' /\ Places'
  /\ TailKept' /\ Marking' /\ Looking'

-----------------------------------------------------------------------------
(* The steps of the program *)

LEMMA AllocBeginKeeps ==
  ASSUME ChunkInv, NEW t \in Threads, NEW a \in Addrs, AllocBegin(t, a), UNCHANGED
         failed
  PROVE  ChunkStep
<1>1. /\ lock = "none" /\ lock' = t /\ at' = "item" /\ job' = Normal(a)
      /\ UNCHANGED <<used, taken, freeList, root, alt, nxt, id, item, cnt, bits, pre, vlog,
                    new, extLog, held, freeing, moved, posts, slows, gc, cursor, marks,
                    tombs, fasts, astray, failed>>
  BY DEF AllocBegin, fileVars, spaceVars, headVars, chunkVars, userVars, gcVars, walkVars,
     fastVars, procVars
<1>2. /\ TypeSpace /\ TypeHead /\ TypeChunk /\ TypeLogs /\ TypeUser
      /\ TypeBound /\ TypeGc /\ TypeProc /\ TypeEnd
  BY TypeParts DEF ChunkInv
<1>3. t \notin {"none", "flusher", "gc"}
  BY BookLogAssumption
<1>4. TypeSpace' /\ TypeHead' /\ TypeChunk' /\ TypeLogs'
  BY <1>1, <1>2 DEF TypeSpace, TypeHead, TypeChunk, TypeLogs
<1>5. TypeUser' /\ TypeBound' /\ TypeGc' /\ TypeEnd'
  BY <1>1, <1>2 DEF TypeUser, TypeBound, TypeGc, TypeEnd
<1>6. TypeProc'
  BY <1>1, <1>2 DEF TypeProc, Items, Normal
<1>7. Holder'
  BY <1>1, <1>2, <1>3 DEF ChunkInv, Holder, Normal
<1>8. Sides'
  BY <1>1, <1>2, <1>3 DEF ChunkInv, Holder, Sides
<1>9. Logs1' /\ Numbers' /\ Places'
  BY <1>1, <1>2, <1>7, FrameLogs, <1>3 DEF ChunkInv, Holder, SameLogs, SameShape
<1>10. TailKept'
  BY <1>1, <1>2, <1>3 DEF ChunkInv, Holder, TailKept
<1>11. Marking'
  BY <1>1, <1>2, <1>3 DEF ChunkInv, Holder, Marking, Empty, Retired
<1>12. Looking'
  BY <1>1, <1>2, <1>3 DEF ChunkInv, Holder, Looking
<1>13. QED
  BY <1>4, <1>5, <1>6, <1>7, <1>8, <1>9, <1>10, <1>11, <1>12 DEF ChunkStep, TypeOK,
     TypeSpace, TypeHead, TypeChunk, TypeLogs, TypeUser, TypeBound, TypeGc, TypeProc,
     TypeEnd

LEMMA FreeBeginKeeps ==
  ASSUME ChunkInv, NEW t \in Threads, NEW a \in Addrs, FreeBegin(t, a), UNCHANGED failed
  PROVE  ChunkStep
<1>1. /\ lock # t /\ held' = held \ {a} /\ freeing' = [freeing EXCEPT ![t] = extLog[a]]
      /\ extLog' \in {extLog, [extLog EXCEPT ![a] = NoRef]}
      /\ UNCHANGED <<used, taken, freeList, root, alt, nxt, id, item, cnt, bits, pre, vlog,
                    new, moved, posts, slows, gc, cursor, marks, tombs, fasts, astray, lock,
                    at, job, failed>>
  BY DEF FreeBegin, fileVars, spaceVars, headVars, chunkVars, userVars, gcVars, walkVars,
     fastVars, procVars
<1>2. /\ TypeSpace /\ TypeHead /\ TypeChunk /\ TypeLogs /\ TypeUser
      /\ TypeBound /\ TypeGc /\ TypeProc /\ TypeEnd
  BY TypeParts DEF ChunkInv
<1>3. TypeSpace' /\ TypeHead' /\ TypeChunk' /\ TypeLogs'
  BY <1>1, <1>2 DEF TypeSpace, TypeHead, TypeChunk, TypeLogs
<1>4. TypeBound' /\ TypeGc' /\ TypeProc' /\ TypeEnd'
  BY ZenonT(60), <1>1, <1>2 DEF TypeBound, TypeGc, TypeProc, TypeEnd
<1>5. TypeUser'
  BY <1>1, <1>2 DEF TypeUser
<1>6. Holder'
  BY <1>1, <1>2 DEF ChunkInv, Holder, TypeUser
<1>7. Sides'
  BY <1>1, <1>2 DEF ChunkInv, Holder, Sides
<1>8. Logs1' /\ Numbers' /\ Places'
  BY <1>1, <1>2, <1>6, FrameLogs DEF ChunkInv, Holder, SameLogs, SameShape
<1>9. TailKept'
  BY <1>1, <1>2 DEF ChunkInv, Holder, TailKept
<1>10. Marking'
  BY <1>1, <1>2 DEF ChunkInv, Holder, Marking, Empty, Retired
<1>11. Looking'
  BY <1>1, <1>2 DEF ChunkInv, Holder, Looking
<1>12. QED
  BY <1>3, <1>4, <1>5, <1>6, <1>7, <1>8, <1>9, <1>10, <1>11 DEF ChunkStep, TypeOK,
     TypeSpace, TypeHead, TypeChunk, TypeLogs, TypeUser, TypeBound, TypeGc, TypeProc,
     TypeEnd

LEMMA FreeLocalKeeps ==
  ASSUME ChunkInv, NEW t \in Threads, FreeLocal(t), UNCHANGED failed
  PROVE  ChunkStep
<1>1. /\ lock = "none" /\ lock' = t /\ at' = "item" /\ job' = Tomb(freeing[t], 0)
      /\ freeing[t] # NoRef
      /\ UNCHANGED <<used, taken, freeList, root, alt, nxt, id, item, cnt, bits, pre, vlog,
                    new, extLog, held, freeing, moved, posts, slows, gc, cursor, marks,
                    tombs, fasts, astray, failed>>
  BY DEF FreeLocal, LogPtr, fileVars, spaceVars, headVars, chunkVars, userVars, gcVars,
     walkVars, fastVars, procVars
<1>2. /\ TypeSpace /\ TypeHead /\ TypeChunk /\ TypeLogs /\ TypeUser
      /\ TypeBound /\ TypeGc /\ TypeProc /\ TypeEnd
  BY TypeParts DEF ChunkInv
<1>3. t \notin {"none", "flusher", "gc"}
  BY BookLogAssumption
<1>4. Tomb(freeing[t], 0) \in Items
  BY <1>1, <1>2, BookLogAssumption DEF TypeUser, Items, Tomb
<1>5. TypeSpace' /\ TypeHead' /\ TypeChunk' /\ TypeLogs'
  BY <1>1, <1>2 DEF TypeSpace, TypeHead, TypeChunk, TypeLogs
<1>6. TypeUser' /\ TypeBound' /\ TypeGc' /\ TypeEnd'
  BY <1>1, <1>2 DEF TypeUser, TypeBound, TypeGc, TypeEnd
<1>7. TypeProc'
  BY <1>1, <1>2, <1>4 DEF TypeProc
<1>8. Holder'
  BY <1>1, <1>2, <1>3 DEF ChunkInv, Holder, Tomb
<1>9. Sides'
  BY <1>1, <1>2, <1>3 DEF ChunkInv, Holder, Sides
<1>10. Logs1' /\ Numbers' /\ Places'
  BY <1>1, <1>2, <1>8, FrameLogs, <1>3 DEF ChunkInv, Holder, SameLogs, SameShape
<1>11. TailKept'
  BY <1>1, <1>2, <1>3 DEF ChunkInv, Holder, TailKept
<1>12. Marking'
  BY <1>1, <1>2, <1>3 DEF ChunkInv, Holder, Marking, Empty, Retired
<1>13. Looking'
  BY <1>1, <1>2, <1>3 DEF ChunkInv, Holder, Looking
<1>14. QED
  BY <1>5, <1>6, <1>7, <1>8, <1>9, <1>10, <1>11, <1>12, <1>13 DEF ChunkStep, TypeOK,
     TypeSpace, TypeHead, TypeChunk, TypeLogs, TypeUser, TypeBound, TypeGc, TypeProc,
     TypeEnd

LEMMA FreeRemoteKeeps ==
  ASSUME ChunkInv, NEW t \in Threads, FreeRemote(t), UNCHANGED failed
  PROVE  ChunkStep
<1>1. /\ lock = "none" /\ freeing[t] # NoRef /\ bits' = Cleared(freeing[t])
      /\ tombs' = Append(tombs, Tomb(freeing[t], Version(freeing[t][1])))
      /\ freeing' = [freeing EXCEPT ![t] = NoRef]
      /\ UNCHANGED <<used, taken, freeList, root, alt, nxt, id, item, cnt, pre, vlog, new,
                    extLog, held, moved, posts, slows, gc, cursor, marks, fasts, astray,
                    lock, at, job, failed>>
  BY DEF FreeRemote, fileVars, spaceVars, headVars, chunkVars, userVars, gcVars, walkVars,
     fastVars, procVars
<1>2. /\ TypeSpace /\ TypeHead /\ TypeChunk /\ TypeLogs /\ TypeUser
      /\ TypeBound /\ TypeGc /\ TypeProc /\ TypeEnd
  BY TypeParts DEF ChunkInv
<1>3. freeing[t] \in Refs /\ freeing[t][1] \in Chunks
  BY <1>1, <1>2 DEF TypeUser, Refs
<1>4. Version(freeing[t][1]) \in 0 .. VersionMod - 1
  BY <1>2, <1>3, BookLogAssumption DEF TypeChunk, Version
<1>5. Tomb(freeing[t], Version(freeing[t][1])) \in Items
  BY <1>3, <1>4 DEF Items, Tomb
<1>6. \A k \in DOMAIN tombs' : tombs'[k].type = "free"
  <2>1. /\ tombs \in Seq(Items) /\ Len(tombs') = Len(tombs) + 1 /\ DOMAIN tombs' = 1 .. Len(tombs')
        /\ \A k \in DOMAIN tombs : tombs'[k] = tombs[k]
        /\ tombs'[Len(tombs')] = Tomb(freeing[t], Version(freeing[t][1]))
    BY <1>1, <1>2, <1>5 DEF TypeProc
  <2>2. \A k \in DOMAIN tombs' : k \in DOMAIN tombs \/ k = Len(tombs')
    BY <2>1
  <2>3. QED BY <2>1, <2>2 DEF ChunkInv, Holder, Tomb
<1>7. TypeSpace' /\ TypeHead' /\ TypeLogs'
  BY <1>1, <1>2 DEF TypeSpace, TypeHead, TypeLogs
<1>8. TypeBound' /\ TypeGc' /\ TypeEnd'
  BY <1>1, <1>2 DEF TypeBound, TypeGc, TypeEnd
<1>9. TypeChunk'
  BY <1>1, <1>2, <1>3, ClearTypes DEF TypeChunk
<1>10. TypeUser'
  BY <1>1, <1>2 DEF TypeUser
<1>11. TypeProc'
  BY <1>1, <1>2, <1>5 DEF TypeProc
<1>12. Holder'
  BY <1>1, <1>2, <1>6 DEF ChunkInv, Holder, TypeUser
<1>13. Sides'
  BY <1>1, <1>2 DEF ChunkInv, Holder, Sides
<1>14. Logs1' /\ Numbers' /\ Places'
  BY <1>1, <1>2, <1>12, FrameLogs DEF ChunkInv, Holder, SameLogs, SameShape
<1>15. TailKept'
  BY <1>1, <1>2 DEF ChunkInv, Holder, TailKept
<1>16. Marking'
  BY <1>1, <1>2 DEF ChunkInv, Holder, Marking, Empty, Retired
<1>17. Looking'
  BY <1>1, <1>2 DEF ChunkInv, Holder, Looking
<1>18. QED
  BY <1>7, <1>8, <1>9, <1>10, <1>11, <1>12, <1>13, <1>14, <1>15, <1>16, <1>17 DEF ChunkStep,
     TypeOK, TypeSpace, TypeHead, TypeChunk, TypeLogs, TypeUser, TypeBound, TypeGc,
     TypeProc, TypeEnd

LEMMA FlushBeginKeeps ==
  ASSUME ChunkInv, FlushBegin, UNCHANGED failed
  PROVE  ChunkStep
<1>1. /\ lock = "none" /\ tombs # <<>> /\ lock' = "flusher" /\ at' = "item"
      /\ job' = Head(tombs) /\ tombs' = Tail(tombs)
      /\ UNCHANGED <<used, taken, freeList, root, alt, nxt, id, item, cnt, bits, pre, vlog,
                    new, extLog, held, freeing, moved, posts, slows, gc, cursor, marks,
                    fasts, astray, failed>>
  BY DEF FlushBegin, fileVars, spaceVars, headVars, chunkVars, userVars, gcVars, walkVars,
     fastVars, procVars
<1>2. /\ TypeSpace /\ TypeHead /\ TypeChunk /\ TypeLogs /\ TypeUser
      /\ TypeBound /\ TypeGc /\ TypeProc /\ TypeEnd
  BY TypeParts DEF ChunkInv
<1>3. /\ Head(tombs) \in Items /\ Tail(tombs) \in Seq(Items) /\ Head(tombs) = tombs[1]
      /\ \A k \in DOMAIN Tail(tombs) : k + 1 \in DOMAIN tombs /\ Tail(tombs)[k] = tombs[k + 1]
      /\ 1 \in DOMAIN tombs
  BY <1>1, <1>2 DEF TypeProc
<1>4. "flusher" \notin Threads
  BY BookLogAssumption
<1>5. TypeSpace' /\ TypeHead' /\ TypeChunk' /\ TypeLogs'
  BY <1>1, <1>2 DEF TypeSpace, TypeHead, TypeChunk, TypeLogs
<1>6. TypeUser' /\ TypeBound' /\ TypeGc' /\ TypeEnd'
  BY <1>1, <1>2 DEF TypeUser, TypeBound, TypeGc, TypeEnd
<1>7. TypeProc'
  BY <1>1, <1>2, <1>3 DEF TypeProc
<1>8. Holder'
  BY <1>1, <1>2, <1>3, <1>4 DEF ChunkInv, Holder
<1>9. Sides'
  BY <1>1, <1>2 DEF ChunkInv, Holder, Sides
<1>10. Logs1' /\ Numbers' /\ Places'
  BY <1>1, <1>2, <1>8, FrameLogs DEF ChunkInv, Holder, SameLogs, SameShape
<1>11. TailKept'
  BY <1>1, <1>2 DEF ChunkInv, Holder, TailKept
<1>12. Marking'
  BY <1>1, <1>2 DEF ChunkInv, Holder, Marking, Empty, Retired
<1>13. Looking'
  BY <1>1, <1>2 DEF ChunkInv, Holder, Looking
<1>14. QED
  BY <1>5, <1>6, <1>7, <1>8, <1>9, <1>10, <1>11, <1>12, <1>13 DEF ChunkStep, TypeOK,
     TypeSpace, TypeHead, TypeChunk, TypeLogs, TypeUser, TypeBound, TypeGc, TypeProc,
     TypeEnd

LEMMA WriteNormalKeeps ==
  ASSUME ChunkInv, WriteNormal, UNCHANGED failed
  PROVE  ChunkStep
<1>1. /\ at = "item" /\ ~Full(vlog.tail) /\ job.type = "normal" /\ Append1(vlog.tail, job)
      /\ bits' = SetBit(bits, Place(vlog.tail))
      /\ vlog' = [vlog EXCEPT !.items = (@ + 1) % SizeMod]
      /\ extLog' = [extLog EXCEPT ![job.addr] = Place(vlog.tail)]
      /\ held' = held \cup {job.addr}
      /\ lock' = "none" /\ at' = "out" /\ job' = Blank
      /\ UNCHANGED <<used, taken, freeList, root, alt, nxt, id, pre, new, freeing, moved,
                    posts, slows, gc, cursor, marks, tombs, fasts, astray, failed>>
  BY DEF WriteNormal, Leave, Append1, fileVars, spaceVars, headVars, chunkVars, userVars,
     gcVars, walkVars, fastVars, procVars
<1>2. /\ TypeSpace /\ TypeHead /\ TypeChunk /\ TypeLogs /\ TypeUser
      /\ TypeBound /\ TypeGc /\ TypeProc /\ TypeEnd
  BY TypeParts DEF ChunkInv
<1>3. vlog.tail \in vlog.tree /\ vlog.tail \in Chunks
  BY <1>2 DEF ChunkInv, Logs1, Shaped, TypeLogs, Logs
<1>4. Place(vlog.tail) \in Refs /\ job \in Items /\ job.addr \in Addrs
  BY <1>1, <1>2, <1>3, PlaceIn DEF TypeProc, Items, Blank
<1>5. item' \in [Chunks -> [Slots -> Items]] /\ cnt' \in [Chunks -> Nat]
  BY <1>1, <1>2, <1>3, <1>4, AppendTypes
<1>6. bits' \in [Chunks -> SUBSET Slots]
  BY <1>1, <1>2, <1>4, BitTypes DEF TypeChunk
<1>7. (vlog.items + 1) % SizeMod \in 0 .. SizeMod - 1
  BY <1>2, BookLogAssumption DEF TypeLogs, Logs
<1>8. TypeSpace' /\ TypeHead'
  BY <1>1, <1>2 DEF TypeSpace, TypeHead
<1>9. TypeBound' /\ TypeGc' /\ TypeEnd'
  BY <1>1, <1>2 DEF TypeBound, TypeGc, TypeEnd
<1>10. TypeChunk'
  BY <1>1, <1>2, <1>5, <1>6 DEF TypeChunk
<1>11. TypeLogs'
  BY <1>1, <1>2, <1>7 DEF TypeLogs, Logs
<1>12. TypeUser'
  BY <1>1, <1>2, <1>4 DEF TypeUser
<1>13. TypeProc'
  BY <1>1, <1>2 DEF TypeProc, Items
<1>14. Holder'
  BY <1>1, <1>2 DEF ChunkInv, Holder
<1>15. Sides'
  BY <1>1, <1>2 DEF ChunkInv, Holder, Sides
<1>16. Logs1' /\ Numbers' /\ Places'
  BY <1>1, <1>2, <1>14, FrameLogs DEF ChunkInv, Holder, SameLogs, SameShape
<1>17. TailKept'
  BY <1>1, <1>2 DEF ChunkInv, Holder, TailKept
<1>18. Marking'
  BY <1>1, <1>2 DEF ChunkInv, Holder, Marking, Empty, Retired
<1>19. Looking'
  BY <1>1, <1>2 DEF ChunkInv, Holder, Looking
<1>20. QED
  BY <1>8, <1>9, <1>10, <1>11, <1>12, <1>13, <1>14, <1>15, <1>16, <1>17, <1>18, <1>19 DEF
     ChunkStep, TypeOK, TypeSpace, TypeHead, TypeChunk, TypeLogs, TypeUser, TypeBound,
     TypeGc, TypeProc, TypeEnd

LEMMA WriteFreeKeeps ==
  ASSUME ChunkInv, WriteFree, UNCHANGED failed
  PROVE  ChunkStep
<1>1. /\ at = "item" /\ ~Full(vlog.tail) /\ lock \in Threads /\ job.type = "free"
      /\ Append1(vlog.tail, Tomb(job.ref, Version(job.ref[1])))
      /\ bits' = SetBit(Cleared(job.ref), Place(vlog.tail))
      /\ freeing' = [freeing EXCEPT ![lock] = NoRef] /\ at' = "tick"
      /\ UNCHANGED <<used, taken, freeList, root, alt, nxt, id, pre, vlog, new, extLog,
                    held, moved, posts, slows, gc, cursor, marks, tombs, fasts, astray,
                    lock, job, failed>>
  BY DEF WriteFree, Goto, Append1, fileVars, spaceVars, headVars, chunkVars, userVars,
     gcVars, walkVars, fastVars, procVars
<1>2. /\ TypeSpace /\ TypeHead /\ TypeChunk /\ TypeLogs /\ TypeUser
      /\ TypeBound /\ TypeGc /\ TypeProc /\ TypeEnd
  BY TypeParts DEF ChunkInv
<1>3. vlog.tail \in vlog.tree /\ vlog.tail \in Chunks
  BY <1>2 DEF ChunkInv, Logs1, Shaped, TypeLogs, Logs
<1>4. job.ref \in Refs /\ job.ref[1] \in Chunks
  BY <1>1, <1>2 DEF TypeProc, Items, Blank, Refs
<1>5. Version(job.ref[1]) \in 0 .. VersionMod - 1
  BY <1>2, <1>4, BookLogAssumption DEF TypeChunk, Version
<1>6. Tomb(job.ref, Version(job.ref[1])) \in Items
  BY <1>4, <1>5 DEF Items, Tomb
<1>7. Place(vlog.tail) \in Refs
  BY <1>1, <1>2, <1>3, PlaceIn
<1>8. item' \in [Chunks -> [Slots -> Items]] /\ cnt' \in [Chunks -> Nat]
  BY <1>1, <1>2, <1>3, <1>6, AppendTypes
<1>9. bits' \in [Chunks -> SUBSET Slots] /\ bits'[vlog.tail] # {}
  <2>1. Cleared(job.ref) \in [Chunks -> SUBSET Slots]
    BY <1>2, <1>4, ClearTypes
  <2>2. Place(vlog.tail)[1] = vlog.tail
    BY DEF Place
  <2>3. QED BY <1>1, <1>3, <1>7, <2>1, <2>2, BitTypes
<1>10. TypeSpace' /\ TypeHead' /\ TypeLogs'
  BY <1>1, <1>2 DEF TypeSpace, TypeHead, TypeLogs
<1>11. TypeBound' /\ TypeGc' /\ TypeEnd'
  BY <1>1, <1>2 DEF TypeBound, TypeGc, TypeEnd
<1>12. TypeChunk'
  BY <1>1, <1>2, <1>8, <1>9 DEF TypeChunk
<1>13. TypeUser'
  BY <1>1, <1>2 DEF TypeUser
<1>14. TypeProc'
  BY <1>1, <1>2 DEF TypeProc
<1>15. Holder'
  BY <1>1, <1>2 DEF ChunkInv, Holder
<1>16. Sides'
  BY <1>1, <1>2 DEF ChunkInv, Holder, Sides
<1>17. Logs1' /\ Numbers' /\ Places'
  BY <1>1, <1>2, <1>15, FrameLogs DEF ChunkInv, Holder, SameLogs, SameShape
<1>18. TailKept'
  BY <1>1, <1>2, <1>9 DEF ChunkInv, Holder, TailKept
<1>19. Marking'
  BY <1>1, <1>2 DEF ChunkInv, Holder, Marking, Empty, Retired
<1>20. Looking'
  BY <1>1, <1>2 DEF ChunkInv, Holder, Looking
<1>21. QED
  BY <1>10, <1>11, <1>12, <1>13, <1>14, <1>15, <1>16, <1>17, <1>18, <1>19, <1>20 DEF
     ChunkStep, TypeOK, TypeSpace, TypeHead, TypeChunk, TypeLogs, TypeUser, TypeBound,
     TypeGc, TypeProc, TypeEnd

LEMMA WriteTombKeeps ==
  ASSUME ChunkInv, WriteTomb, UNCHANGED failed
  PROVE  ChunkStep
<1>1. /\ at = "item" /\ ~Full(vlog.tail) /\ lock = "flusher" /\ Append1(vlog.tail, job)
      /\ bits' = SetBit(bits, Place(vlog.tail)) /\ at' = "tick"
      /\ UNCHANGED <<used, taken, freeList, root, alt, nxt, id, pre, vlog, new, extLog,
                    held, freeing, moved, posts, slows, gc, cursor, marks, tombs, fasts,
                    astray, lock, job, failed>>
  BY DEF WriteTomb, Goto, Append1, fileVars, spaceVars, headVars, chunkVars, userVars,
     gcVars, walkVars, fastVars, procVars
<1>2. /\ TypeSpace /\ TypeHead /\ TypeChunk /\ TypeLogs /\ TypeUser
      /\ TypeBound /\ TypeGc /\ TypeProc /\ TypeEnd
  BY TypeParts DEF ChunkInv
<1>3. vlog.tail \in vlog.tree /\ vlog.tail \in Chunks
  BY <1>2 DEF ChunkInv, Logs1, Shaped, TypeLogs, Logs
<1>4. Place(vlog.tail) \in Refs
  BY <1>1, <1>2, <1>3, PlaceIn
<1>5. item' \in [Chunks -> [Slots -> Items]] /\ cnt' \in [Chunks -> Nat]
  BY <1>1, <1>2, <1>3, AppendTypes DEF TypeProc
<1>6. bits' \in [Chunks -> SUBSET Slots] /\ bits'[vlog.tail] # {}
  <2>1. Place(vlog.tail)[1] = vlog.tail
    BY DEF Place
  <2>2. bits \in [Chunks -> SUBSET Slots]
    BY <1>2 DEF TypeChunk
  <2>3. QED BY <1>1, <1>3, <1>4, <2>1, <2>2, BitTypes
<1>7. TypeSpace' /\ TypeHead' /\ TypeLogs'
  BY <1>1, <1>2 DEF TypeSpace, TypeHead, TypeLogs
<1>8. TypeUser' /\ TypeBound' /\ TypeGc' /\ TypeEnd'
  BY <1>1, <1>2 DEF TypeUser, TypeBound, TypeGc, TypeEnd
<1>9. TypeChunk'
  BY <1>1, <1>2, <1>5, <1>6 DEF TypeChunk
<1>10. TypeProc'
  BY <1>1, <1>2 DEF TypeProc
<1>11. Holder'
  BY <1>1, <1>2 DEF ChunkInv, Holder
<1>12. Sides'
  BY <1>1, <1>2 DEF ChunkInv, Holder, Sides
<1>13. Logs1' /\ Numbers' /\ Places'
  BY <1>1, <1>2, <1>11, FrameLogs DEF ChunkInv, Holder, SameLogs, SameShape
<1>14. TailKept'
  BY <1>1, <1>2, <1>6 DEF ChunkInv, Holder, TailKept
<1>15. Marking'
  BY <1>1, <1>2 DEF ChunkInv, Holder, Marking, Empty, Retired
<1>16. Looking'
  BY <1>1, <1>2 DEF ChunkInv, Holder, Looking
<1>17. QED
  BY <1>7, <1>8, <1>9, <1>10, <1>11, <1>12, <1>13, <1>14, <1>15, <1>16 DEF ChunkStep,
     TypeOK, TypeSpace, TypeHead, TypeChunk, TypeLogs, TypeUser, TypeBound, TypeGc,
     TypeProc, TypeEnd

LEMMA TickKeeps ==
  ASSUME ChunkInv, Tick, UNCHANGED failed
  PROVE  ChunkStep
<1>1. /\ at = "tick" /\ Finish
      /\ \E k \in 0 .. GCPeriod + 1 : vlog' = [vlog EXCEPT !.timer = k]
      /\ posts' \in {posts, 1}
      /\ UNCHANGED <<used, taken, freeList, root, alt, nxt, id, item, cnt, bits, pre, new, extLog,
                     held, freeing, moved, slows, gc, cursor, marks, fasts, astray, failed>>
  <2>1. vlog \in Logs /\ GCPeriod \in Nat \ {0}
    BY TypeParts, BookLogAssumption DEF ChunkInv, TypeLogs
  <2>2. vlog.timer \in 0 .. GCPeriod + 1
    BY <2>1 DEF Logs
  <2>3. NextTimer \in 0 .. GCPeriod + 1 /\ 0 \in 0 .. GCPeriod + 1
    BY <2>1, <2>2 DEF NextTimer
  <2>4. \E k \in 0 .. GCPeriod + 1 : vlog' = [vlog EXCEPT !.timer = k]
    BY <2>3 DEF Tick
  <2>5. QED BY <2>4 DEF Tick, fileVars, spaceVars, headVars, chunkVars, userVars, walkVars, fastVars
<1>2. /\ TypeSpace /\ TypeHead /\ TypeChunk /\ TypeLogs /\ TypeUser
      /\ TypeBound /\ TypeGc /\ TypeProc /\ TypeEnd
  BY TypeParts DEF ChunkInv
<1>3. TypeProc' /\ Holder' /\ lock' # "gc" /\ at' \in {"out", "item"} /\ lock # "gc"
  <2>1. lock # "gc"
    BY <1>1 DEF ChunkInv, Holder
  <2>2. QED BY <1>1, <1>2, <2>1, FinishKeeps DEF ChunkInv
<1>4. vlog' \in Logs /\ SameShape(vlog', vlog)
  <2>1. vlog \in Logs
    BY <1>2 DEF TypeLogs
  <2>2. QED BY <1>1, <2>1 DEF Logs, SameShape
<1>5. vlog'.side = vlog.side /\ vlog'.tree = vlog.tree /\ vlog'.tail = vlog.tail
  BY <1>4 DEF SameShape
<1>6. TypeSpace' /\ TypeHead' /\ TypeChunk'
  BY <1>1, <1>2 DEF TypeSpace, TypeHead, TypeChunk
<1>7. TypeUser' /\ TypeGc' /\ TypeEnd'
  BY <1>1, <1>2 DEF TypeUser, TypeGc, TypeEnd
<1>8. TypeLogs'
  BY <1>1, <1>2, <1>4 DEF TypeLogs
<1>9. TypeBound'
  BY <1>1, <1>2 DEF TypeBound
<1>10. TypeProc'
  BY <1>3
<1>11. Holder'
  BY <1>3
<1>12. Sides'
  BY <1>1, <1>2, <1>3, <1>5 DEF ChunkInv, Holder, Sides
<1>13. Logs1' /\ Numbers' /\ Places'
  <2>1. SameLogs
    BY <1>1, <1>3, <1>4 DEF SameLogs, SameShape
  <2>2. QED BY <1>3, <2>1, FrameLogs DEF ChunkInv
<1>14. TailKept'
  BY <1>3 DEF TailKept
<1>15. Marking'
  BY <1>1, <1>2, <1>3, <1>5 DEF ChunkInv, Holder, Marking, Empty, Retired
<1>16. Looking'
  BY <1>1, <1>2, <1>3 DEF ChunkInv, Holder, Looking
<1>17. QED
  BY <1>6, <1>7, <1>8, <1>9, <1>10, <1>11, <1>12, <1>13, <1>14, <1>15, <1>16 DEF ChunkStep,
     TypeOK, TypeSpace, TypeHead, TypeChunk, TypeLogs, TypeUser, TypeBound, TypeGc,
     TypeProc, TypeEnd

LEMMA TickLooseKeeps ==
  ASSUME ChunkInv, TickLoose, UNCHANGED failed
  PROVE  ChunkStep
<1>1. /\ at = "tick" /\ at' = "retire" /\ vlog' = [vlog EXCEPT !.timer = 0] /\ fasts' = fasts + 1
      /\ UNCHANGED <<used, taken, freeList, root, alt, nxt, id, item, cnt, bits, pre, new,
                    extLog, held, freeing, moved, posts, slows, gc, cursor, marks, tombs,
                    astray, lock, job, failed>>
  BY DEF TickLoose, Due, Goto, fileVars, spaceVars, headVars, chunkVars, userVars, gcVars,
     walkVars, fastVars, procVars
<1>2. /\ TypeSpace /\ TypeHead /\ TypeChunk /\ TypeLogs /\ TypeUser
      /\ TypeBound /\ TypeGc /\ TypeProc /\ TypeEnd
  BY TypeParts DEF ChunkInv
<1>3. TypeSpace' /\ TypeHead' /\ TypeChunk'
  BY <1>1, <1>2 DEF TypeSpace, TypeHead, TypeChunk
<1>4. TypeUser' /\ TypeGc' /\ TypeEnd'
  BY <1>1, <1>2 DEF TypeUser, TypeGc, TypeEnd
<1>5. TypeLogs'
  BY <1>1, <1>2, BookLogAssumption DEF TypeLogs, Logs
<1>6. TypeBound'
  BY <1>1, <1>2 DEF TypeBound
<1>7. TypeProc'
  BY <1>1, <1>2 DEF TypeProc
<1>8. Holder'
  BY <1>1, <1>2 DEF ChunkInv, Holder
<1>9. Sides'
  BY <1>1, <1>2 DEF ChunkInv, Holder, Sides
<1>10. Logs1' /\ Numbers' /\ Places'
  BY <1>1, <1>2, <1>8, FrameLogs DEF ChunkInv, Holder, SameLogs, SameShape
<1>11. TailKept'
  BY <1>1, <1>2 DEF ChunkInv, Holder, TailKept
<1>12. Marking'
  BY <1>1, <1>2 DEF ChunkInv, Holder, Marking, Empty, Retired
<1>13. Looking'
  BY <1>1, <1>2 DEF ChunkInv, Holder, Looking
<1>14. QED
  BY <1>3, <1>4, <1>5, <1>6, <1>7, <1>8, <1>9, <1>10, <1>11, <1>12, <1>13 DEF ChunkStep,
     TypeOK, TypeSpace, TypeHead, TypeChunk, TypeLogs, TypeUser, TypeBound, TypeGc,
     TypeProc, TypeEnd

LEMMA RetireKeeps ==
  ASSUME ChunkInv, Retire, UNCHANGED failed
  PROVE  ChunkStep
<1>1. /\ at = "retire" /\ at' = "unlink" /\ Empty # Retired
      /\ id' = [id EXCEPT ![Highest(Empty \ Retired)] = 0]
      /\ UNCHANGED <<used, taken, freeList, root, alt, nxt, item, cnt, bits, pre, vlog, new,
                    extLog, held, freeing, moved, posts, slows, gc, cursor, marks, tombs,
                    fasts, astray, lock, job, failed>>
  BY DEF Retire, Goto, fileVars, spaceVars, headVars, chunkVars, userVars, gcVars, walkVars,
     fastVars, procVars
<1>2. /\ TypeSpace /\ TypeHead /\ TypeChunk /\ TypeLogs /\ TypeUser
      /\ TypeBound /\ TypeGc /\ TypeProc /\ TypeEnd
  BY TypeParts DEF ChunkInv
<1>3. lock # "gc" /\ new.tree = {}
  BY <1>1 DEF ChunkInv, Holder, Logs1, NoLog
<1>4. /\ Highest(Empty \ Retired) \in Empty \ Retired
      /\ \A d \in Empty \ Retired : d <= Highest(Empty \ Retired)
  <2>1. Empty \in SUBSET Chunks /\ Empty \ Retired # {}
    BY <1>1, <1>2 DEF Empty, Retired, TypeLogs, Logs
  <2>2. QED BY <2>1, HighestIn
<1>5. /\ vlog.tree \subseteq Chunks /\ \A c \in Chunks : c \in Nat
      /\ \A c \in Chunks : id'[c] = IF c = Highest(Empty \ Retired) THEN 0 ELSE id[c]
      /\ Empty' = Empty /\ Retired' = Retired \cup {Highest(Empty \ Retired)}
  <2>1. vlog.tree \subseteq Chunks /\ \A c \in Chunks : c \in Nat
    BY <1>2, ChunkRange DEF TypeLogs, Logs
  <2>2. \A c \in Chunks : id'[c] = IF c = Highest(Empty \ Retired) THEN 0 ELSE id[c]
    BY <1>1, <1>2 DEF TypeChunk
  <2>3. Empty' = Empty
    BY <1>1 DEF Empty
  <2>4. Retired' = Retired \cup {Highest(Empty \ Retired)}
    BY <1>4, <2>1, <2>2, <2>3 DEF Empty, Retired
  <2>5. QED BY <2>1, <2>2, <2>3, <2>4
<1>6. TypeSpace' /\ TypeHead' /\ TypeLogs'
  BY <1>1, <1>2 DEF TypeSpace, TypeHead, TypeLogs
<1>7. TypeUser' /\ TypeBound' /\ TypeGc' /\ TypeEnd'
  BY <1>1, <1>2 DEF TypeUser, TypeBound, TypeGc, TypeEnd
<1>8. TypeChunk'
  BY <1>1, <1>2 DEF TypeChunk
<1>9. TypeProc'
  BY <1>1, <1>2 DEF TypeProc
<1>10. Holder'
  BY <1>1, <1>2 DEF ChunkInv, Holder
<1>11. Sides'
  BY <1>1, <1>2 DEF ChunkInv, Holder, Sides
<1>12. Logs1' /\ Numbers' /\ Places'
  BY <1>1, <1>2, <1>10, FrameLogs DEF ChunkInv, Holder, SameLogs, SameShape
<1>13. TailKept'
  BY <1>1, <1>2 DEF ChunkInv, Holder, TailKept
<1>14. Marking'
  <2>1. \A c \in Retired', d \in Empty' \ Retired' : d < c
    <3>1. \A c \in Retired, d \in Empty \ Retired : d < c
      BY DEF ChunkInv, Marking
    <3>2. \A d \in Empty : d \in Nat
      BY <1>5 DEF Empty
    <3>3. QED BY <1>4, <1>5, <3>1, <3>2
  <2>2. \A c \in vlog.tree : id'[c] = 0 => bits[c] = {}
    BY <1>4, <1>5 DEF ChunkInv, Marking, Empty
  <2>3. QED BY <1>1, <1>3, <1>5, <2>1, <2>2 DEF Marking
<1>15. Looking'
  BY <1>1, <1>2 DEF ChunkInv, Holder, Looking
<1>16. QED
  BY <1>6, <1>7, <1>8, <1>9, <1>10, <1>11, <1>12, <1>13, <1>14, <1>15 DEF ChunkStep, TypeOK,
     TypeSpace, TypeHead, TypeChunk, TypeLogs, TypeUser, TypeBound, TypeGc, TypeProc,
     TypeEnd

LEMMA UnlinkKeeps ==
  ASSUME ChunkInv, Unlink, UNCHANGED failed
  PROVE  ChunkStep
<1>1. /\ at = "unlink" /\ at' = "retire" /\ nxt' = Relinked(Lowest(Retired))
      /\ astray' = (astray \/ ~Preceded(Lowest(Retired)))
      /\ UNCHANGED <<used, taken, freeList, root, alt, id, item, cnt, bits, pre, vlog, new,
                    extLog, held, freeing, moved, posts, slows, gc, cursor, marks, tombs,
                    fasts, lock, job, failed>>
  BY DEF Unlink, Goto, fileVars, spaceVars, headVars, chunkVars, userVars, gcVars, walkVars,
     fastVars, procVars
<1>2. /\ TypeSpace /\ TypeHead /\ TypeChunk /\ TypeLogs /\ TypeUser
      /\ TypeBound /\ TypeGc /\ TypeProc /\ TypeEnd
  BY TypeParts DEF ChunkInv
<1>3. Lowest(Retired) \in Retired /\ Lowest(Retired) \in Chunks
  <2>1. Retired \in SUBSET Nat /\ Retired # {} /\ Retired \in SUBSET Chunks
    BY <1>1, <1>2, ChunkRange DEF ChunkInv, Marking, Retired, Empty, TypeLogs, Logs
  <2>2. QED BY <2>1, LowestIn
<1>4. nxt' \in [Chunks -> Chunks \cup {Nil}]
  BY <1>1, <1>2, <1>3 DEF Relinked, TypeChunk
<1>5. astray' \in BOOLEAN
  BY <1>1, <1>2 DEF TypeBound
<1>6. TypeSpace' /\ TypeHead' /\ TypeLogs'
  BY <1>1, <1>2 DEF TypeSpace, TypeHead, TypeLogs
<1>7. TypeUser' /\ TypeGc' /\ TypeEnd'
  BY <1>1, <1>2 DEF TypeUser, TypeGc, TypeEnd
<1>8. TypeChunk'
  BY <1>1, <1>2, <1>4 DEF TypeChunk
<1>9. TypeBound'
  BY <1>1, <1>2, <1>5 DEF TypeBound
<1>10. TypeProc'
  BY <1>1, <1>2 DEF TypeProc
<1>11. Holder'
  BY <1>1, <1>2 DEF ChunkInv, Holder
<1>12. Sides'
  BY <1>1, <1>2 DEF ChunkInv, Holder, Sides
<1>13. Logs1' /\ Numbers' /\ Places'
  BY <1>1, <1>2, <1>11, FrameLogs DEF ChunkInv, Holder, SameLogs, SameShape
<1>14. TailKept'
  BY <1>1, <1>2 DEF ChunkInv, Holder, TailKept
<1>15. Marking'
  BY <1>1, <1>2 DEF ChunkInv, Holder, Marking, Empty, Retired
<1>16. Looking'
  BY <1>1, <1>2 DEF ChunkInv, Holder, Looking
<1>17. QED
  BY <1>6, <1>7, <1>8, <1>9, <1>10, <1>11, <1>12, <1>13, <1>14, <1>15, <1>16 DEF ChunkStep,
     TypeOK, TypeSpace, TypeHead, TypeChunk, TypeLogs, TypeUser, TypeBound, TypeGc,
     TypeProc, TypeEnd

LEMMA FastDoneKeeps ==
  ASSUME ChunkInv, FastDone, UNCHANGED failed
  PROVE  ChunkStep
<1>1. /\ at = "retire" /\ Empty = Retired /\ Finish /\ freeList' = freeList \o Descending(Empty)
      /\ vlog' = [vlog EXCEPT !.tree = @ \ Empty, !.chunks = @ - Cardinality(Empty),
                               !.items = Fewer(NItems * Cardinality(Empty))]
      /\ UNCHANGED <<used, taken, root, alt, nxt, id, item, cnt, bits, pre, new, extLog,
                    held, freeing, moved, posts, slows, gc, cursor, marks, fasts, astray,
                    failed>>
  BY DEF FastDone, fileVars, spaceVars, headVars, chunkVars, userVars, gcVars, walkVars,
     fastVars, procVars
<1>2. /\ TypeSpace /\ TypeHead /\ TypeChunk /\ TypeLogs /\ TypeUser
      /\ TypeBound /\ TypeGc /\ TypeProc /\ TypeEnd
  BY TypeParts DEF ChunkInv
<1>3. TypeProc' /\ Holder' /\ lock' # "gc" /\ at' \in {"out", "item"} /\ lock # "gc"
  <2>1. lock # "gc"
    BY <1>1 DEF ChunkInv, Holder
  <2>2. QED BY <1>1, <1>2, <2>1, FinishKeeps DEF ChunkInv
<1>4. lock # "gc" /\ new.tree = {}
  BY <1>1 DEF ChunkInv, Holder, Logs1, NoLog
<1>5. /\ Empty \in SUBSET Chunks /\ Empty \subseteq vlog.tree /\ vlog.tree \subseteq Chunks
      /\ Cardinality(Empty) \in Nat
      /\ IsFiniteSet(vlog.tree) /\ Cardinality(vlog.tree) \in Nat
      /\ IsFiniteSet(vlog.tree \ Empty) /\ Cardinality(vlog.tree \ Empty) \in Nat
      /\ Cardinality(vlog.tree \ Empty) = Cardinality(vlog.tree) - Cardinality(Empty)
  <2>1. vlog.tree \subseteq Chunks /\ Empty \subseteq vlog.tree
    BY <1>2 DEF TypeLogs, Logs, Empty
  <2>2. IsFiniteSet(vlog.tree) /\ IsFiniteSet(Empty)
    BY <2>1, ChunkRange, FS_Subset
  <2>3. vlog.tree \cap Empty = Empty
    BY <2>1
  <2>4. /\ IsFiniteSet(vlog.tree \ Empty)
        /\ Cardinality(vlog.tree \ Empty) = Cardinality(vlog.tree) - Cardinality(Empty)
    BY <2>2, <2>3, FS_Difference
  <2>5. QED BY <2>1, <2>2, <2>4, FS_CardinalityType
<1>6. /\ freeList' \in Seq(Chunks) /\ Distinct(freeList') /\ Free' = Free \cup Empty
  <2>1. /\ Descending(Empty) \in Seq(Chunks) /\ Distinct(Descending(Empty))
        /\ Elems(Descending(Empty)) = Empty
    BY <1>5, DescendingList
  <2>2. freeList \in Seq(Chunks) /\ Distinct(freeList)
    BY <1>2 DEF TypeSpace, ChunkInv, Places
  <2>3. Free = Elems(freeList) /\ Free' = Elems(freeList')
    BY DEF Free, Elems
  <2>4. Elems(freeList) \cap Elems(Descending(Empty)) = {}
    BY <1>5, <2>1, <2>3 DEF ChunkInv, Places, InUse
  <2>5. QED BY <1>1, <2>1, <2>2, <2>3, <2>4, ConcatList
<1>7. Fewer(NItems * Cardinality(Empty)) \in 0 .. SizeMod - 1
  <2>1. NItems * Cardinality(Empty) \in Int
    BY <1>5, BookLogAssumption
  <2>2. \A k \in Int : (vlog.items - k) % SizeMod \in 0 .. SizeMod - 1
    BY <1>2, BookLogAssumption DEF TypeLogs, Logs
  <2>3. QED BY <2>1, <2>2 DEF Fewer
<1>8. /\ vlog' \in Logs /\ vlog'.side = vlog.side /\ vlog'.tail = vlog.tail
      /\ vlog'.nextId = vlog.nextId /\ vlog'.tree = vlog.tree \ Empty
      /\ vlog'.chunks = Cardinality(vlog'.tree) + 1
  <2>1. vlog \in Logs /\ vlog.chunks = Cardinality(vlog.tree) + 1
    BY <1>2 DEF TypeLogs, ChunkInv, Numbers
  <2>2. vlog.chunks - Cardinality(Empty) \in Nat
    BY <1>5, <2>1
  <2>3. vlog' = [vlog EXCEPT !.tree = vlog.tree \ Empty, !.chunks = vlog.chunks - Cardinality(Empty),
                             !.items = Fewer(NItems * Cardinality(Empty))]
    BY <1>1, <2>1 DEF Logs
  <2>4. vlog.tree \ Empty \in SUBSET Chunks
    BY <1>5
  <2>5. /\ vlog' \in Logs /\ vlog'.side = vlog.side /\ vlog'.tail = vlog.tail
        /\ vlog'.nextId = vlog.nextId /\ vlog'.tree = vlog.tree \ Empty
        /\ vlog'.chunks = vlog.chunks - Cardinality(Empty)
    BY <1>7, <2>1, <2>2, <2>3, <2>4 DEF Logs
  <2>6. vlog.chunks - Cardinality(Empty) = Cardinality(vlog.tree \ Empty) + 1
    BY <1>5, <2>1
  <2>7. QED BY <2>5, <2>6
<1>9. vlog.tail \notin Empty
  BY <1>1 DEF ChunkInv, TailKept, Empty
<1>10. TypeHead' /\ TypeChunk'
  BY <1>1, <1>2 DEF TypeHead, TypeChunk
<1>11. TypeUser' /\ TypeBound' /\ TypeGc' /\ TypeEnd'
  BY <1>1, <1>2 DEF TypeUser, TypeBound, TypeGc, TypeEnd
<1>12. TypeSpace'
  BY <1>1, <1>2, <1>6 DEF TypeSpace
<1>13. TypeLogs'
  BY <1>1, <1>2, <1>8 DEF TypeLogs
<1>14. TypeProc'
  BY <1>3
<1>15. Holder'
  BY <1>3
<1>16. Sides'
  BY <1>1, <1>2, <1>3, <1>8 DEF ChunkInv, Holder, Sides
<1>17. Logs1'
  BY <1>1, <1>3, <1>4, <1>8, <1>9 DEF ChunkInv, Holder, Logs1, Shaped
<1>18. Numbers'
  BY <1>3, <1>8 DEF Numbers
<1>19. Places'
  <2>1. InUse' = InUse \ Empty /\ NewInUse' = {} /\ NewInUse = {}
    BY <1>1, <1>3, <1>8, <1>5 DEF InUse, NewInUse, ChunkInv, Logs1, Shaped
  <2>2. Empty \subseteq InUse
    BY <1>5 DEF InUse
  <2>3. QED BY <1>1, <1>6, <2>1, <2>2 DEF ChunkInv, Places
<1>20. TailKept'
  BY <1>3 DEF TailKept
<1>21. Marking'
  <2>1. \A c \in vlog'.tree : id'[c] # 0
    BY <1>1, <1>8 DEF Empty, Retired, ChunkInv, Marking
  <2>2. Retired' = {}
    BY <2>1 DEF Retired, Empty
  <2>3. QED BY <1>1, <1>3, <1>4, <2>1, <2>2 DEF Marking
<1>22. Looking'
  BY <1>1, <1>2, <1>3 DEF ChunkInv, Holder, Looking
<1>23. QED
  BY <1>10, <1>11, <1>12, <1>13, <1>14, <1>15, <1>16, <1>17, <1>18, <1>19, <1>20, <1>21,
     <1>22 DEF ChunkStep, TypeOK, TypeSpace, TypeHead, TypeChunk, TypeLogs, TypeUser,
     TypeBound, TypeGc, TypeProc, TypeEnd

LEMMA GrowKeeps ==
  ASSUME ChunkInv, Grow, UNCHANGED failed
  PROVE  ChunkStep
<1>1. /\ at = "item" /\ TakeChunk(NewChunk, vlog) /\ vlog' = Extended(vlog)
      /\ nxt' = [nxt EXCEPT ![NewChunk] = Nil, ![vlog.tail] = NewChunk]
      /\ pre' = [pre EXCEPT ![NewChunk] = vlog.tail]
      /\ UNCHANGED <<root, alt, new, extLog, held, freeing, moved, posts, slows, gc, cursor,
                    marks, tombs, fasts, astray, lock, at, job, failed>>
  BY DEF Grow, Extend, fileVars, spaceVars, headVars, chunkVars, userVars, gcVars, walkVars,
     fastVars, procVars
<1>2. /\ TypeSpace /\ TypeHead /\ TypeChunk /\ TypeLogs /\ TypeUser
      /\ TypeBound /\ TypeGc /\ TypeProc /\ TypeEnd
  BY TypeParts DEF ChunkInv
<1>3. lock # "gc" /\ new.tree = {}
  BY <1>1 DEF ChunkInv, Holder, Logs1, NoLog
<1>4. /\ vlog \in Logs /\ vlog.nextId \in Nat /\ vlog.nextId > 0 /\ vlog.tree \in SUBSET Chunks
      /\ vlog.tail \in vlog.tree /\ vlog.chunks = Cardinality(vlog.tree) + 1
  BY <1>2 DEF TypeLogs, Logs, ChunkInv, Logs1, Shaped, Numbers
<1>5. /\ NewChunk \in Chunks
      /\ TypeSpace' /\ id' \in [Chunks -> Nat] /\ cnt' \in [Chunks -> Nat]
      /\ item' \in [Chunks -> [Slots -> Items]] /\ bits' \in [Chunks -> SUBSET Slots]
      /\ id' = [id EXCEPT ![NewChunk] = vlog.nextId]
      /\ NewChunk \notin InUse /\ NewChunk \notin NewInUse
      /\ Distinct(freeList') /\ Free' = Free \ {NewChunk}
      /\ 1 .. used' - 1 = (1 .. used - 1) \cup {NewChunk}
  BY <1>1, <1>2, <1>4, TakeTypes DEF ChunkInv
<1>6. nxt' \in [Chunks -> Chunks \cup {Nil}] /\ pre' \in [Chunks -> Chunks \cup {Nil}]
  BY <1>1, <1>2, <1>5, <1>4 DEF TypeChunk
<1>7. /\ vlog' \in Logs /\ vlog'.side = vlog.side /\ vlog'.tree = vlog.tree \cup {NewChunk}
      /\ vlog'.tail = NewChunk /\ vlog'.nextId = vlog.nextId + 1 /\ vlog'.chunks = vlog.chunks + 1
  BY <1>1, <1>5, <1>4, ExtendedIs
<1>8. id'[NewChunk] # 0 /\ \A c \in Chunks : c # NewChunk => id'[c] = id[c]
  BY <1>2, <1>5, <1>4 DEF TypeChunk
<1>9. TypeHead'
  BY <1>1, <1>2 DEF TypeHead
<1>10. TypeUser' /\ TypeBound' /\ TypeGc' /\ TypeProc' /\ TypeEnd'
  BY <1>1, <1>2 DEF TypeUser, TypeBound, TypeGc, TypeProc, TypeEnd
<1>11. TypeSpace'
  BY <1>5
<1>12. TypeChunk'
  BY <1>1, <1>2, <1>5, <1>6 DEF TypeChunk
<1>13. TypeLogs'
  BY <1>1, <1>2, <1>7 DEF TypeLogs
<1>14. Holder'
  BY <1>1, <1>2 DEF ChunkInv, Holder
<1>15. Sides'
  BY <1>1, <1>2, <1>7 DEF ChunkInv, Holder, Sides
<1>16. Logs1'
  BY <1>1, <1>7, <1>5, <1>4, <1>3 DEF ChunkInv, Holder, Logs1, Shaped, InUse
<1>17. Numbers'
  <2>1. IsFiniteSet(vlog.tree) /\ NewChunk \notin vlog.tree
    BY <1>5, <1>4, ChunkRange, FS_Subset DEF InUse
  <2>2. Cardinality(vlog.tree \cup {NewChunk}) = Cardinality(vlog.tree) + 1
    BY <2>1, FS_AddElement
  <2>3. QED BY <1>1, <1>3, <1>7, <1>4, <2>2 DEF Numbers
<1>18. Places'
  <2>1. InUse' = InUse \cup {NewChunk} /\ NewInUse' = NewInUse
    BY <1>1, <1>7, <1>3 DEF InUse, NewInUse
  <2>2. QED BY <1>5, <2>1 DEF ChunkInv, Places
<1>19. TailKept'
  BY <1>1, <1>2 DEF ChunkInv, Holder, TailKept
<1>20. Marking'
  <2>1. \A c \in vlog'.tree : id'[c] # 0
    BY <1>1, <1>7, <1>8, <1>4 DEF ChunkInv, Marking
  <2>2. Retired' = {}
    BY <2>1 DEF Retired, Empty
  <2>3. QED BY <1>1, <1>3, <2>1, <2>2 DEF Marking
<1>21. Looking'
  BY <1>1, <1>2 DEF ChunkInv, Holder, Looking
<1>22. QED
  BY <1>9, <1>10, <1>11, <1>12, <1>13, <1>14, <1>15, <1>16, <1>17, <1>18, <1>19, <1>20,
     <1>21 DEF ChunkStep, TypeOK, TypeSpace, TypeHead, TypeChunk, TypeLogs, TypeUser,
     TypeBound, TypeGc, TypeProc, TypeEnd

LEMMA GcRootKeeps ==
  ASSUME ChunkInv, GcRoot, UNCHANGED failed
  PROVE  ChunkStep
<1>1. /\ gc = "lock" /\ lock = "none" /\ TakeChunk(NewChunk, Unborn) /\ slows' = slows + 1
      /\ nxt' = [nxt EXCEPT ![NewChunk] = Nil] /\ pre' = [pre EXCEPT ![NewChunk] = Nil]
      /\ \E k \in 0 .. GCPeriod :
           new' = [Unborn EXCEPT !.tail = NewChunk, !.nextId = 1, !.chunks = 1, !.timer = k]
      /\ lock' = "gc" /\ at' = "first"
      /\ UNCHANGED <<root, alt, vlog, extLog, held, freeing, moved, posts, gc, cursor,
                    marks, tombs, fasts, astray, job, failed>>
  BY DEF GcRoot, Goto, fileVars, spaceVars, headVars, chunkVars, userVars, gcVars, walkVars,
     fastVars, procVars
<1>2. /\ TypeSpace /\ TypeHead /\ TypeChunk /\ TypeLogs /\ TypeUser
      /\ TypeBound /\ TypeGc /\ TypeProc /\ TypeEnd
  BY TypeParts DEF ChunkInv
<1>3. new = NoLog /\ at = "out"
  BY <1>1 DEF ChunkInv, Holder, Logs1
<1>4. /\ Unborn \in Logs /\ Unborn.nextId = 0 /\ Unborn.tree = {} /\ Unborn.side = 1 - alt
      /\ alt \in {0, 1} /\ GCPeriod \in Nat
  BY <1>2, BookLogAssumption DEF Unborn, NoLog, Logs, TypeHead
<1>5. /\ NewChunk \in Chunks
      /\ TypeSpace' /\ id' \in [Chunks -> Nat] /\ cnt' \in [Chunks -> Nat]
      /\ item' \in [Chunks -> [Slots -> Items]] /\ bits' \in [Chunks -> SUBSET Slots]
      /\ id' = [id EXCEPT ![NewChunk] = 0]
      /\ NewChunk \notin InUse /\ NewChunk \notin NewInUse
      /\ Distinct(freeList') /\ Free' = Free \ {NewChunk}
      /\ 1 .. used' - 1 = (1 .. used - 1) \cup {NewChunk}
  <2>1. Unborn.nextId \in Nat
    BY <1>4
  <2>2. QED BY <1>1, <1>2, <1>4, <2>1, TakeTypes DEF ChunkInv
<1>6. nxt' \in [Chunks -> Chunks \cup {Nil}] /\ pre' \in [Chunks -> Chunks \cup {Nil}]
  BY <1>1, <1>2, <1>5, <1>4 DEF TypeChunk
<1>7. /\ new' \in Logs /\ new'.side = 1 - alt /\ new'.tree = {}
      /\ new'.tail = NewChunk /\ new'.nextId = 1 /\ new'.chunks = 1
  <2>1. PICK k \in 0 .. GCPeriod :
          new' = [Unborn EXCEPT !.tail = NewChunk, !.nextId = 1, !.chunks = 1, !.timer = k]
    BY <1>1
  <2>2. k \in 0 .. GCPeriod + 1
    BY <1>4
  <2>3. QED BY <1>5, <1>4, <2>1, <2>2 DEF Logs
<1>8. \A c \in vlog.tree : c # NewChunk /\ c \in Chunks /\ id'[c] = id[c]
  BY <1>2, <1>5 DEF TypeChunk, InUse, TypeLogs, Logs
<1>9. TypeHead'
  BY <1>1, <1>2 DEF TypeHead
<1>10. TypeUser' /\ TypeGc' /\ TypeEnd'
  BY <1>1, <1>2 DEF TypeUser, TypeGc, TypeEnd
<1>11. TypeSpace'
  BY <1>5
<1>12. TypeChunk'
  BY <1>1, <1>2, <1>5, <1>6 DEF TypeChunk
<1>13. TypeLogs'
  BY <1>1, <1>2, <1>7 DEF TypeLogs
<1>14. TypeBound'
  BY <1>1, <1>2 DEF TypeBound
<1>15. TypeProc'
  BY <1>1, <1>2 DEF TypeProc
<1>16. Holder'
  BY <1>1, <1>2 DEF ChunkInv, Holder
<1>17. Sides'
  BY <1>1, <1>2, <1>7, <1>3 DEF ChunkInv, Holder, Sides
<1>18. Logs1'
  BY <1>1, <1>7, <1>5 DEF ChunkInv, Logs1, Shaped
<1>19. Numbers'
  <2>1. Cardinality({}) = 0
    BY FS_EmptySet
  <2>2. new'.tree = {} /\ new'.chunks = 0 + 1
    BY <1>7
  <2>3. new'.chunks = Cardinality(new'.tree) + 1
    BY <2>1, <2>2
  <2>4. QED BY <1>1, <2>3 DEF ChunkInv, Numbers
<1>20. Places'
  <2>1. InUse' = InUse /\ NewInUse' = {NewChunk} /\ NewInUse = {}
    BY <1>1, <1>7, <1>3 DEF InUse, NewInUse
  <2>2. QED BY <1>5, <2>1 DEF ChunkInv, Places
<1>21. TailKept'
  BY <1>1, <1>2 DEF ChunkInv, Holder, TailKept
<1>22. Marking'
  <2>1. \A c \in vlog.tree : id'[c] # 0
    BY <1>3, <1>8 DEF ChunkInv, Marking
  <2>2. Retired' = {}
    BY <1>1, <2>1 DEF Retired, Empty
  <2>3. QED BY <1>1, <1>7, <2>1, <2>2 DEF Marking
<1>23. Looking'
  BY <1>1, <1>2 DEF ChunkInv, Holder, Looking
<1>24. QED
  BY <1>9, <1>10, <1>11, <1>12, <1>13, <1>14, <1>15, <1>16, <1>17, <1>18, <1>19, <1>20,
     <1>21, <1>22, <1>23 DEF ChunkStep, TypeOK, TypeSpace, TypeHead, TypeChunk, TypeLogs,
     TypeUser, TypeBound, TypeGc, TypeProc, TypeEnd

LEMMA GcFirstKeeps ==
  ASSUME ChunkInv, GcFirst, UNCHANGED failed
  PROVE  ChunkStep
<1>1. /\ at = "first" /\ TakeChunk(NewChunk, new) /\ new' = Extended(new) /\ at' = "visit"
      /\ nxt' = [nxt EXCEPT ![NewChunk] = Nil, ![new.tail] = NewChunk]
      /\ pre' = [pre EXCEPT ![NewChunk] = new.tail]
      /\ root' = [root EXCEPT ![new.side] = new.tail] /\ cursor' = nxt[root[alt]]
      /\ UNCHANGED <<alt, vlog, extLog, held, freeing, moved, posts, slows, gc, marks,
                    tombs, fasts, astray, lock, job, failed>>
  BY DEF GcFirst, Extend, Goto, fileVars, spaceVars, headVars, chunkVars, userVars, gcVars,
     walkVars, fastVars, procVars
<1>2. /\ TypeSpace /\ TypeHead /\ TypeChunk /\ TypeLogs /\ TypeUser
      /\ TypeBound /\ TypeGc /\ TypeProc /\ TypeEnd
  BY TypeParts DEF ChunkInv
<1>3. lock = "gc"
  BY <1>1 DEF ChunkInv, Holder
<1>4. /\ new \in Logs /\ new.nextId \in Nat /\ new.nextId > 0 /\ new.tree \in SUBSET Chunks
      /\ new.tail \in Chunks /\ new.chunks = Cardinality(new.tree) + 1
      /\ new.side = 1 - vlog.side /\ vlog.side = alt /\ alt \in {0, 1} /\ new.side # alt
  BY <1>1, <1>2, <1>3 DEF TypeLogs, TypeHead, Logs, ChunkInv, Logs1, Shaped, Numbers, Sides
<1>5. /\ NewChunk \in Chunks
      /\ TypeSpace' /\ id' \in [Chunks -> Nat] /\ cnt' \in [Chunks -> Nat]
      /\ item' \in [Chunks -> [Slots -> Items]] /\ bits' \in [Chunks -> SUBSET Slots]
      /\ id' = [id EXCEPT ![NewChunk] = new.nextId]
      /\ \A c \in Chunks \ {NewChunk} : item'[c] = item[c]
      /\ NewChunk \notin InUse /\ NewChunk \notin NewInUse
      /\ Distinct(freeList') /\ Free' = Free \ {NewChunk}
      /\ 1 .. used' - 1 = (1 .. used - 1) \cup {NewChunk}
  BY <1>1, <1>2, <1>4, TakeTypes DEF ChunkInv
<1>6. nxt' \in [Chunks -> Chunks \cup {Nil}] /\ pre' \in [Chunks -> Chunks \cup {Nil}]
  BY <1>1, <1>2, <1>5, <1>4 DEF TypeChunk
<1>7. /\ new' \in Logs /\ new'.side = new.side /\ new'.tree = new.tree \cup {NewChunk}
      /\ new'.tail = NewChunk /\ new'.nextId = new.nextId + 1 /\ new'.chunks = new.chunks + 1
  BY <1>1, <1>5, <1>4, ExtendedIs
<1>8. /\ id'[NewChunk] # 0 /\ \A c \in Chunks : c # NewChunk => id'[c] = id[c]
      /\ \A c \in vlog.tree : c # NewChunk /\ c \in Chunks
  BY <1>2, <1>5, <1>4 DEF TypeChunk, InUse, TypeLogs, Logs
<1>9. /\ root' \in [{0, 1} -> Chunks \cup {Nil}]
      /\ root'[new.side] = new.tail /\ root'[vlog.side] = root[vlog.side] /\ root[alt] \in Chunks
  BY <1>1, <1>2, <1>4 DEF TypeHead, ChunkInv, Logs1, Shaped
<1>10. new.tree = {} /\ NewInUse = {new.tail}
  BY <1>1, <1>3 DEF ChunkInv, Logs1, NewInUse
<1>11. TypeUser' /\ TypeBound' /\ TypeEnd'
  BY <1>1, <1>2 DEF TypeUser, TypeBound, TypeEnd
<1>12. TypeSpace'
  BY <1>5
<1>13. TypeHead'
  BY <1>1, <1>2, <1>9 DEF TypeHead
<1>14. TypeChunk'
  BY <1>1, <1>2, <1>5, <1>6 DEF TypeChunk
<1>15. TypeLogs'
  BY <1>1, <1>2, <1>7 DEF TypeLogs
<1>16. TypeGc'
  BY <1>1, <1>2, <1>9 DEF TypeGc, TypeChunk
<1>17. TypeProc'
  BY <1>1, <1>2 DEF TypeProc
<1>18. Holder'
  BY <1>1, <1>2 DEF ChunkInv, Holder
<1>19. Sides'
  BY <1>1, <1>2, <1>7 DEF ChunkInv, Holder, Sides
<1>20. Logs1'
  BY <1>1, <1>7, <1>5, <1>4, <1>3, <1>9, <1>10 DEF ChunkInv, Logs1, Shaped
<1>21. Numbers'
  <2>1. IsFiniteSet(new.tree) /\ NewChunk \notin new.tree
    BY <1>5, <1>4, <1>3, ChunkRange, FS_Subset DEF NewInUse
  <2>2. Cardinality(new.tree \cup {NewChunk}) = Cardinality(new.tree) + 1
    BY <2>1, FS_AddElement
  <2>3. QED BY <1>1, <1>7, <1>4, <2>2 DEF ChunkInv, Numbers
<1>22. Places'
  <2>1. InUse' = InUse /\ NewInUse' = NewInUse \cup {NewChunk}
    BY <1>1, <1>7, <1>3, <1>9, <1>10 DEF InUse, NewInUse
  <2>2. QED BY <1>5, <2>1 DEF ChunkInv, Places
<1>23. TailKept'
  BY <1>1, <1>2 DEF ChunkInv, Holder, TailKept
<1>24. Marking'
  <2>1. \A c \in vlog.tree : id'[c] # 0
    BY <1>1, <1>8 DEF ChunkInv, Marking
  <2>2. \A c \in new'.tree : id'[c] # 0
    BY <1>7, <1>8, <1>4 DEF ChunkInv, Marking
  <2>3. Retired' = {}
    BY <1>1, <2>1 DEF Retired, Empty
  <2>4. QED BY <1>1, <2>1, <2>2, <2>3 DEF Marking
<1>25. Looking'
  BY <1>1, <1>2 DEF ChunkInv, Holder, Looking
<1>26. QED
  BY <1>11, <1>12, <1>13, <1>14, <1>15, <1>16, <1>17, <1>18, <1>19, <1>20, <1>21, <1>22,
     <1>23, <1>24, <1>25 DEF ChunkStep, TypeOK, TypeSpace, TypeHead, TypeChunk, TypeLogs,
     TypeUser, TypeBound, TypeGc, TypeProc, TypeEnd

LEMMA GcGrowKeeps ==
  ASSUME ChunkInv, GcGrow, UNCHANGED failed
  PROVE  ChunkStep
<1>1. /\ at = "copy" /\ TakeChunk(NewChunk, new) /\ new' = Extended(new)
      /\ nxt' = [nxt EXCEPT ![NewChunk] = Nil, ![new.tail] = NewChunk]
      /\ pre' = [pre EXCEPT ![NewChunk] = new.tail]
      /\ UNCHANGED <<root, alt, vlog, extLog, held, freeing, moved, posts, slows, gc,
                    cursor, marks, tombs, fasts, astray, lock, at, job, failed>>
  BY DEF GcGrow, Extend, fileVars, spaceVars, headVars, chunkVars, userVars, gcVars,
     walkVars, fastVars, procVars
<1>2. /\ TypeSpace /\ TypeHead /\ TypeChunk /\ TypeLogs /\ TypeUser
      /\ TypeBound /\ TypeGc /\ TypeProc /\ TypeEnd
  BY TypeParts DEF ChunkInv
<1>3. lock = "gc"
  BY <1>1 DEF ChunkInv, Holder
<1>4. /\ new \in Logs /\ new.nextId \in Nat /\ new.nextId > 0 /\ new.tree \in SUBSET Chunks
      /\ new.tail \in Chunks /\ new.chunks = Cardinality(new.tree) + 1
      /\ new.side = 1 - vlog.side /\ vlog.side = alt /\ alt \in {0, 1} /\ new.side # alt
  BY <1>1, <1>2, <1>3 DEF TypeLogs, TypeHead, Logs, ChunkInv, Logs1, Shaped, Numbers, Sides
<1>5. /\ NewChunk \in Chunks
      /\ TypeSpace' /\ id' \in [Chunks -> Nat] /\ cnt' \in [Chunks -> Nat]
      /\ item' \in [Chunks -> [Slots -> Items]] /\ bits' \in [Chunks -> SUBSET Slots]
      /\ id' = [id EXCEPT ![NewChunk] = new.nextId]
      /\ \A c \in Chunks \ {NewChunk} : item'[c] = item[c]
      /\ NewChunk \notin InUse /\ NewChunk \notin NewInUse
      /\ Distinct(freeList') /\ Free' = Free \ {NewChunk}
      /\ 1 .. used' - 1 = (1 .. used - 1) \cup {NewChunk}
  BY <1>1, <1>2, <1>4, TakeTypes DEF ChunkInv
<1>6. nxt' \in [Chunks -> Chunks \cup {Nil}] /\ pre' \in [Chunks -> Chunks \cup {Nil}]
  BY <1>1, <1>2, <1>5, <1>4 DEF TypeChunk
<1>7. /\ new' \in Logs /\ new'.side = new.side /\ new'.tree = new.tree \cup {NewChunk}
      /\ new'.tail = NewChunk /\ new'.nextId = new.nextId + 1 /\ new'.chunks = new.chunks + 1
  BY <1>1, <1>5, <1>4, ExtendedIs
<1>8. /\ id'[NewChunk] # 0 /\ \A c \in Chunks : c # NewChunk => id'[c] = id[c]
      /\ \A c \in vlog.tree : c # NewChunk /\ c \in Chunks
  BY <1>2, <1>5, <1>4 DEF TypeChunk, InUse, TypeLogs, Logs
<1>9. TypeHead'
  BY <1>1, <1>2 DEF TypeHead
<1>10. TypeUser' /\ TypeBound' /\ TypeGc' /\ TypeProc' /\ TypeEnd'
  BY <1>1, <1>2 DEF TypeUser, TypeBound, TypeGc, TypeProc, TypeEnd
<1>11. TypeSpace'
  BY <1>5
<1>12. TypeChunk'
  BY <1>1, <1>2, <1>5, <1>6 DEF TypeChunk
<1>13. TypeLogs'
  BY <1>1, <1>2, <1>7 DEF TypeLogs
<1>14. Holder'
  BY <1>1, <1>2 DEF ChunkInv, Holder
<1>15. Sides'
  BY <1>1, <1>2, <1>7 DEF ChunkInv, Holder, Sides
<1>16. Logs1'
  BY <1>1, <1>7, <1>5, <1>4, <1>3 DEF ChunkInv, Logs1, Shaped, NewInUse
<1>17. Numbers'
  <2>1. IsFiniteSet(new.tree) /\ NewChunk \notin new.tree
    BY <1>5, <1>4, <1>3, ChunkRange, FS_Subset DEF NewInUse
  <2>2. Cardinality(new.tree \cup {NewChunk}) = Cardinality(new.tree) + 1
    BY <2>1, FS_AddElement
  <2>3. QED BY <1>1, <1>7, <1>4, <2>2 DEF ChunkInv, Numbers
<1>18. Places'
  <2>1. InUse' = InUse /\ NewInUse' = NewInUse \cup {NewChunk}
    BY <1>1, <1>7, <1>3 DEF InUse, NewInUse
  <2>2. QED BY <1>5, <2>1 DEF ChunkInv, Places
<1>19. TailKept'
  BY <1>1, <1>2 DEF ChunkInv, Holder, TailKept
<1>20. Marking'
  <2>1. \A c \in vlog.tree : id'[c] # 0
    BY <1>1, <1>8 DEF ChunkInv, Marking
  <2>2. \A c \in new'.tree : id'[c] # 0
    BY <1>7, <1>8, <1>4 DEF ChunkInv, Marking
  <2>3. Retired' = {}
    BY <1>1, <2>1 DEF Retired, Empty
  <2>4. QED BY <1>1, <2>1, <2>2, <2>3 DEF Marking
<1>21. Looking'
  BY <1>1, <1>8, <1>5 DEF ChunkInv, Looking
<1>22. QED
  BY <1>9, <1>10, <1>11, <1>12, <1>13, <1>14, <1>15, <1>16, <1>17, <1>18, <1>19, <1>20,
     <1>21 DEF ChunkStep, TypeOK, TypeSpace, TypeHead, TypeChunk, TypeLogs, TypeUser,
     TypeBound, TypeGc, TypeProc, TypeEnd

LEMMA GcWakeKeeps ==
  ASSUME ChunkInv, GcWake, UNCHANGED failed
  PROVE  ChunkStep
<1>1. /\ gc = "wait" /\ posts' = 0 /\ gc' \in {"wait", "lock"}
      /\ UNCHANGED <<used, taken, freeList, root, alt, nxt, id, item, cnt, bits, pre, vlog,
                    new, extLog, held, freeing, moved, slows, cursor, marks, tombs, fasts,
                    astray, lock, at, job, failed>>
  BY DEF GcWake, fileVars, spaceVars, headVars, chunkVars, userVars, gcVars, walkVars,
     fastVars, procVars
<1>2. /\ TypeSpace /\ TypeHead /\ TypeChunk /\ TypeLogs /\ TypeUser
      /\ TypeBound /\ TypeGc /\ TypeProc /\ TypeEnd
  BY TypeParts DEF ChunkInv
<1>3. TypeSpace' /\ TypeHead' /\ TypeChunk' /\ TypeLogs'
  BY <1>1, <1>2 DEF TypeSpace, TypeHead, TypeChunk, TypeLogs
<1>4. TypeUser' /\ TypeProc' /\ TypeEnd'
  BY <1>1, <1>2 DEF TypeUser, TypeProc, TypeEnd
<1>5. TypeBound'
  BY <1>1, <1>2 DEF TypeBound
<1>6. TypeGc'
  BY <1>1, <1>2 DEF TypeGc
<1>7. Holder'
  BY <1>1, <1>2 DEF ChunkInv, Holder
<1>8. Sides'
  BY <1>1, <1>2 DEF ChunkInv, Holder, Sides
<1>9. Logs1' /\ Numbers' /\ Places'
  BY <1>1, <1>2, <1>7, FrameLogs DEF ChunkInv, Holder, SameLogs, SameShape
<1>10. TailKept'
  BY <1>1, <1>2 DEF ChunkInv, Holder, TailKept
<1>11. Marking'
  BY <1>1, <1>2 DEF ChunkInv, Holder, Marking, Empty, Retired
<1>12. Looking'
  BY <1>1, <1>2 DEF ChunkInv, Holder, Looking
<1>13. QED
  BY <1>3, <1>4, <1>5, <1>6, <1>7, <1>8, <1>9, <1>10, <1>11, <1>12 DEF ChunkStep, TypeOK,
     TypeSpace, TypeHead, TypeChunk, TypeLogs, TypeUser, TypeBound, TypeGc, TypeProc,
     TypeEnd

LEMMA GcDropKeeps ==
  ASSUME ChunkInv, GcDrop, UNCHANGED failed
  PROVE  ChunkStep
<1>1. /\ lock = "none" /\ gc' = "wait"
      /\ UNCHANGED <<used, taken, freeList, root, alt, nxt, id, item, cnt, bits, pre, vlog,
                    new, extLog, held, freeing, moved, posts, slows, cursor, marks, tombs,
                    fasts, astray, lock, at, job, failed>>
  BY DEF GcDrop, fileVars, spaceVars, headVars, chunkVars, userVars, gcVars, walkVars,
     fastVars, procVars
<1>2. /\ TypeSpace /\ TypeHead /\ TypeChunk /\ TypeLogs /\ TypeUser
      /\ TypeBound /\ TypeGc /\ TypeProc /\ TypeEnd
  BY TypeParts DEF ChunkInv
<1>3. TypeSpace' /\ TypeHead' /\ TypeChunk' /\ TypeLogs'
  BY <1>1, <1>2 DEF TypeSpace, TypeHead, TypeChunk, TypeLogs
<1>4. TypeUser' /\ TypeBound' /\ TypeProc' /\ TypeEnd'
  BY <1>1, <1>2 DEF TypeUser, TypeBound, TypeProc, TypeEnd
<1>5. TypeGc'
  BY <1>1, <1>2 DEF TypeGc
<1>6. Holder'
  BY <1>1, <1>2 DEF ChunkInv, Holder
<1>7. Sides'
  BY <1>1, <1>2 DEF ChunkInv, Holder, Sides
<1>8. Logs1' /\ Numbers' /\ Places'
  BY <1>1, <1>2, <1>6, FrameLogs DEF ChunkInv, Holder, SameLogs, SameShape
<1>9. TailKept'
  BY <1>1, <1>2 DEF ChunkInv, Holder, TailKept
<1>10. Marking'
  BY <1>1, <1>2 DEF ChunkInv, Holder, Marking, Empty, Retired
<1>11. Looking'
  BY <1>1, <1>2 DEF ChunkInv, Holder, Looking
<1>12. QED
  BY <1>3, <1>4, <1>5, <1>6, <1>7, <1>8, <1>9, <1>10, <1>11 DEF ChunkStep, TypeOK,
     TypeSpace, TypeHead, TypeChunk, TypeLogs, TypeUser, TypeBound, TypeGc, TypeProc,
     TypeEnd

LEMMA GcVisitKeeps ==
  ASSUME ChunkInv, GcVisit, UNCHANGED failed
  PROVE  ChunkStep
<1>1. /\ at = "visit" /\ cursor \in vlog.tree /\ marks' = Counting(cursor) /\ at' = "copy"
      /\ UNCHANGED <<used, taken, freeList, root, alt, nxt, id, item, cnt, bits, pre, vlog,
                    new, extLog, held, freeing, moved, posts, slows, gc, cursor, tombs,
                    fasts, astray, lock, job, failed>>
  BY DEF GcVisit, Goto, fileVars, spaceVars, headVars, chunkVars, userVars, gcVars,
     walkVars, fastVars, procVars
<1>2. /\ TypeSpace /\ TypeHead /\ TypeChunk /\ TypeLogs /\ TypeUser
      /\ TypeBound /\ TypeGc /\ TypeProc /\ TypeEnd
  BY TypeParts DEF ChunkInv
<1>3. /\ marks' \in SUBSET Slots /\ \A i \in marks' : item[cursor][i].type = "normal"
  <2>1. bits[cursor] \in SUBSET Slots
    BY <1>1, <1>2 DEF TypeLogs, Logs, TypeChunk
  <2>2. QED BY <1>1, <2>1 DEF Counting
<1>4. TypeSpace' /\ TypeHead' /\ TypeChunk' /\ TypeLogs'
  BY <1>1, <1>2 DEF TypeSpace, TypeHead, TypeChunk, TypeLogs
<1>5. TypeUser' /\ TypeBound' /\ TypeEnd'
  BY <1>1, <1>2 DEF TypeUser, TypeBound, TypeEnd
<1>6. TypeGc'
  BY <1>1, <1>2, <1>3 DEF TypeGc
<1>7. TypeProc'
  BY <1>1, <1>2 DEF TypeProc
<1>8. Holder'
  BY <1>1, <1>2 DEF ChunkInv, Holder
<1>9. Sides'
  BY <1>1, <1>2 DEF ChunkInv, Holder, Sides
<1>10. Logs1' /\ Numbers' /\ Places'
  BY <1>1, <1>2, <1>8, FrameLogs DEF ChunkInv, Holder, SameLogs, SameShape
<1>11. TailKept'
  BY <1>1, <1>2 DEF ChunkInv, Holder, TailKept
<1>12. Marking'
  BY <1>1, <1>2 DEF ChunkInv, Holder, Marking, Empty, Retired
<1>13. Looking'
  BY <1>1, <1>2, <1>3 DEF ChunkInv, Holder, Looking
<1>14. QED
  BY <1>4, <1>5, <1>6, <1>7, <1>8, <1>9, <1>10, <1>11, <1>12, <1>13 DEF ChunkStep, TypeOK,
     TypeSpace, TypeHead, TypeChunk, TypeLogs, TypeUser, TypeBound, TypeGc, TypeProc,
     TypeEnd

LEMMA GcAdvanceKeeps ==
  ASSUME ChunkInv, GcAdvance, UNCHANGED failed
  PROVE  ChunkStep
<1>1. /\ at = "copy" /\ cursor' = nxt[cursor] /\ at' = "visit"
      /\ UNCHANGED <<used, taken, freeList, root, alt, nxt, id, item, cnt, bits, pre, vlog,
                    new, extLog, held, freeing, moved, posts, slows, gc, marks, tombs,
                    fasts, astray, lock, job, failed>>
  BY DEF GcAdvance, Goto, fileVars, spaceVars, headVars, chunkVars, userVars, gcVars,
     walkVars, fastVars, procVars
<1>2. /\ TypeSpace /\ TypeHead /\ TypeChunk /\ TypeLogs /\ TypeUser
      /\ TypeBound /\ TypeGc /\ TypeProc /\ TypeEnd
  BY TypeParts DEF ChunkInv
<1>3. cursor' \in Chunks \cup {Nil}
  BY <1>1, <1>2 DEF ChunkInv, Looking, TypeLogs, Logs, TypeChunk
<1>4. TypeSpace' /\ TypeHead' /\ TypeChunk' /\ TypeLogs'
  BY <1>1, <1>2 DEF TypeSpace, TypeHead, TypeChunk, TypeLogs
<1>5. TypeUser' /\ TypeBound' /\ TypeEnd'
  BY <1>1, <1>2 DEF TypeUser, TypeBound, TypeEnd
<1>6. TypeGc'
  BY <1>1, <1>2, <1>3 DEF TypeGc
<1>7. TypeProc'
  BY <1>1, <1>2 DEF TypeProc
<1>8. Holder'
  BY <1>1, <1>2 DEF ChunkInv, Holder
<1>9. Sides'
  BY <1>1, <1>2 DEF ChunkInv, Holder, Sides
<1>10. Logs1' /\ Numbers' /\ Places'
  BY <1>1, <1>2, <1>8, FrameLogs DEF ChunkInv, Holder, SameLogs, SameShape
<1>11. TailKept'
  BY <1>1, <1>2 DEF ChunkInv, Holder, TailKept
<1>12. Marking'
  BY <1>1, <1>2 DEF ChunkInv, Holder, Marking, Empty, Retired
<1>13. Looking'
  BY <1>1, <1>2 DEF ChunkInv, Holder, Looking
<1>14. QED
  BY <1>4, <1>5, <1>6, <1>7, <1>8, <1>9, <1>10, <1>11, <1>12, <1>13 DEF ChunkStep, TypeOK,
     TypeSpace, TypeHead, TypeChunk, TypeLogs, TypeUser, TypeBound, TypeGc, TypeProc,
     TypeEnd

LEMMA GcFlipKeeps ==
  ASSUME ChunkInv, GcFlip, UNCHANGED failed
  PROVE  ChunkStep
<1>1. /\ at = "visit" /\ cursor = Nil /\ alt' = new.side /\ at' = "swap"
      /\ UNCHANGED <<used, taken, freeList, root, nxt, id, item, cnt, bits, pre, vlog, new,
                    extLog, held, freeing, moved, posts, slows, gc, cursor, marks, tombs,
                    fasts, astray, lock, job, failed>>
  BY DEF GcFlip, Goto, fileVars, spaceVars, headVars, chunkVars, userVars, gcVars, walkVars,
     fastVars, procVars
<1>2. /\ TypeSpace /\ TypeHead /\ TypeChunk /\ TypeLogs /\ TypeUser
      /\ TypeBound /\ TypeGc /\ TypeProc /\ TypeEnd
  BY TypeParts DEF ChunkInv
<1>3. lock = "gc" /\ vlog.side = alt /\ new.side = 1 - alt /\ alt \in {0, 1}
  BY <1>1, <1>2 DEF ChunkInv, Holder, Sides, TypeHead
<1>4. TypeSpace' /\ TypeChunk' /\ TypeLogs'
  BY <1>1, <1>2 DEF TypeSpace, TypeChunk, TypeLogs
<1>5. TypeUser' /\ TypeBound' /\ TypeGc' /\ TypeEnd'
  BY <1>1, <1>2 DEF TypeUser, TypeBound, TypeGc, TypeEnd
<1>6. TypeHead'
  BY <1>1, <1>2, <1>3 DEF TypeHead
<1>7. TypeProc'
  BY <1>1, <1>2 DEF TypeProc
<1>8. Holder'
  BY <1>1, <1>2 DEF ChunkInv, Holder
<1>9. Sides'
  <2>1. vlog.side = 1 - alt' /\ new.side = 1 - vlog.side
    BY <1>1, <1>3
  <2>2. QED BY <1>1, <2>1 DEF Sides
<1>10. Logs1' /\ Numbers' /\ Places'
  BY <1>1, <1>2, <1>8, FrameLogs DEF ChunkInv, Holder, SameLogs, SameShape
<1>11. TailKept'
  BY <1>1, <1>2 DEF ChunkInv, Holder, TailKept
<1>12. Marking'
  BY <1>1, <1>2 DEF ChunkInv, Holder, Marking, Empty, Retired
<1>13. Looking'
  BY <1>1, <1>2 DEF ChunkInv, Holder, Looking
<1>14. QED
  BY <1>4, <1>5, <1>6, <1>7, <1>8, <1>9, <1>10, <1>11, <1>12, <1>13 DEF ChunkStep, TypeOK,
     TypeSpace, TypeHead, TypeChunk, TypeLogs, TypeUser, TypeBound, TypeGc, TypeProc,
     TypeEnd

LEMMA GcCopyKeeps ==
  ASSUME ChunkInv, GcCopy, UNCHANGED failed
  PROVE  ChunkStep
<1>1. /\ at = "copy" /\ marks # {} /\ ~Full(new.tail) /\ Append1(new.tail, Normal(Owner))
      /\ bits' = SetBit(bits, Place(new.tail))
      /\ new' = [new EXCEPT !.items = (@ + 1) % SizeMod]
      /\ extLog' = Redirected(Owner)
      /\ marks' = marks \ {Lowest(marks)}
      /\ UNCHANGED <<used, taken, freeList, root, alt, nxt, id, pre, vlog, held, freeing,
                    moved, posts, slows, gc, cursor, tombs, fasts, astray, lock, at, job,
                    failed>>
  BY DEF GcCopy, Append1, fileVars, spaceVars, headVars, chunkVars, userVars, gcVars,
     walkVars, fastVars, procVars
<1>2. /\ TypeSpace /\ TypeHead /\ TypeChunk /\ TypeLogs /\ TypeUser
      /\ TypeBound /\ TypeGc /\ TypeProc /\ TypeEnd
  BY TypeParts DEF ChunkInv
<1>3. /\ lock = "gc" /\ new.tail \in new.tree /\ new.tail \in Chunks /\ cursor \in vlog.tree
      /\ cursor \in Chunks /\ cursor # new.tail /\ new \in Logs
  BY <1>1, <1>2 DEF ChunkInv, Holder, Logs1, Shaped, TypeLogs, Logs, Looking, Places, InUse,
                    NewInUse
<1>4. Owner \in Addrs /\ Normal(Owner) \in Items
  <2>1. marks \in SUBSET Slots /\ marks \in SUBSET Nat
    BY <1>2 DEF TypeGc, Slots
  <2>2. Lowest(marks) \in marks
    BY <1>1, <2>1, LowestIn
  <2>3. item[cursor][Lowest(marks)] \in Items /\ item[cursor][Lowest(marks)].type = "normal"
    BY <1>1, <1>2, <1>3, <2>1, <2>2 DEF TypeChunk, ChunkInv, Looking
  <2>4. QED BY <2>3 DEF Items, Blank, Owner, Normal
<1>5. Place(new.tail) \in Refs
  BY <1>1, <1>2, <1>3, PlaceIn
<1>6. /\ item' \in [Chunks -> [Slots -> Items]] /\ cnt' \in [Chunks -> Nat]
      /\ item'[cursor] = item[cursor]
  BY <1>1, <1>2, <1>3, <1>4, AppendTypes
<1>7. bits' \in [Chunks -> SUBSET Slots]
  <2>1. bits \in [Chunks -> SUBSET Slots]
    BY <1>2 DEF TypeChunk
  <2>2. QED BY <1>1, <1>5, <2>1, BitTypes
<1>8. new' \in Logs /\ SameShape(new', new)
  <2>1. (new.items + 1) % SizeMod \in 0 .. SizeMod - 1
    BY <1>3, BookLogAssumption DEF Logs
  <2>2. QED BY <1>1, <1>3, <2>1 DEF Logs, SameShape
<1>9. new'.side = new.side /\ new'.tree = new.tree
  BY <1>8 DEF SameShape
<1>10. TypeSpace' /\ TypeHead'
  BY <1>1, <1>2 DEF TypeSpace, TypeHead
<1>11. TypeBound' /\ TypeProc' /\ TypeEnd'
  BY <1>1, <1>2 DEF TypeBound, TypeProc, TypeEnd
<1>12. TypeChunk'
  BY <1>1, <1>2, <1>6, <1>7 DEF TypeChunk
<1>13. TypeLogs'
  BY <1>1, <1>2, <1>8 DEF TypeLogs
<1>14. TypeUser'
  BY <1>1, <1>2, <1>4, <1>5 DEF TypeUser, Redirected
<1>15. TypeGc'
  BY <1>1, <1>2 DEF TypeGc
<1>16. Holder'
  BY <1>1, <1>2 DEF ChunkInv, Holder
<1>17. Sides'
  BY <1>1, <1>2, <1>9 DEF ChunkInv, Holder, Sides
<1>18. Logs1' /\ Numbers' /\ Places'
  <2>1. SameLogs
    BY <1>1, <1>3, <1>8 DEF SameLogs, SameShape
  <2>2. QED BY <1>16, <2>1, FrameLogs DEF ChunkInv
<1>19. TailKept'
  BY <1>1, <1>2 DEF ChunkInv, Holder, TailKept
<1>20. Marking'
  <2>1. \A c \in vlog.tree : id'[c] # 0
    BY <1>1 DEF ChunkInv, Marking
  <2>2. Retired' = {}
    BY <1>1, <2>1 DEF Retired, Empty
  <2>3. QED BY <1>1, <1>9, <2>1, <2>2 DEF ChunkInv, Marking
<1>21. Looking'
  BY <1>1, <1>6, <1>3 DEF ChunkInv, Looking
<1>22. QED
  BY <1>10, <1>11, <1>12, <1>13, <1>14, <1>15, <1>16, <1>17, <1>18, <1>19, <1>20, <1>21 DEF
     ChunkStep, TypeOK, TypeSpace, TypeHead, TypeChunk, TypeLogs, TypeUser, TypeBound,
     TypeGc, TypeProc, TypeEnd

LEMMA GcSwapKeeps ==
  ASSUME ChunkInv, GcSwap, UNCHANGED failed
  PROVE  ChunkStep
<1>1. /\ at = "swap" /\ tombs' = <<>> /\ freeList' = freeList \o (Descending(vlog.tree) \o <<root[vlog.side]>>)
      /\ moved' = moved \cup {t \in Threads : freeing[t] # NoRef /\ freeing[t][1] \in vlog.tree}
      /\ vlog' = new /\ new' = NoLog /\ gc' = "wait"
      /\ lock' = "none" /\ at' = "out" /\ job' = Blank
      /\ UNCHANGED <<used, taken, root, alt, nxt, id, item, cnt, bits, pre, extLog, held,
                    freeing, posts, slows, cursor, marks, fasts, astray, failed>>
  BY DEF GcSwap, Leave, Destroyed, fileVars, spaceVars, headVars, chunkVars, userVars,
     gcVars, walkVars, fastVars, procVars
<1>2. /\ TypeSpace /\ TypeHead /\ TypeChunk /\ TypeLogs /\ TypeUser
      /\ TypeBound /\ TypeGc /\ TypeProc /\ TypeEnd
  BY TypeParts DEF ChunkInv
<1>3. /\ lock = "gc" /\ vlog.side = 1 - alt /\ new.side = 1 - vlog.side /\ alt \in {0, 1}
      /\ new.side = alt
  <2>1. lock = "gc" /\ vlog.side = 1 - alt /\ new.side = 1 - vlog.side /\ alt \in {0, 1}
    BY <1>1, <1>2 DEF ChunkInv, Holder, Sides, TypeHead
  <2>2. QED BY <2>1
<1>4. NoLog \in Logs /\ NoLog.tree = {}
  BY BookLogAssumption DEF NoLog, Logs
<1>5. /\ vlog.tree \in SUBSET Chunks /\ root[vlog.side] \in Chunks
      /\ root[vlog.side] \notin vlog.tree
  BY <1>2 DEF ChunkInv, Logs1, Shaped, TypeLogs, Logs
<1>6. /\ freeList' \in Seq(Chunks) /\ Distinct(freeList') /\ Free' = Free \cup InUse
  <2> DEFINE d == Descending(vlog.tree)
             r == <<root[vlog.side]>>
  <2>1. d \in Seq(Chunks) /\ Distinct(d) /\ Elems(d) = vlog.tree
    BY <1>5, DescendingList
  <2>2. r \in Seq(Chunks) /\ Distinct(r) /\ Elems(r) = {root[vlog.side]}
    BY <1>5, OneList
  <2>3. freeList \in Seq(Chunks) /\ Distinct(freeList)
    BY <1>2 DEF TypeSpace, ChunkInv, Places
  <2>4. Free = Elems(freeList) /\ Free' = Elems(freeList') /\ freeList' = freeList \o (d \o r)
    BY <1>1 DEF Free, Elems
  <2> HIDE DEF d, r
  <2>5. Elems(d) \cap Elems(r) = {}
    BY <1>5, <2>1, <2>2
  <2>6. d \o r \in Seq(Chunks) /\ Distinct(d \o r) /\ Elems(d \o r) = InUse
    BY <2>1, <2>2, <2>5, ConcatList DEF InUse
  <2> DEFINE e == d \o r
  <2>7. /\ e \in Seq(Chunks) /\ Distinct(e) /\ Elems(e) = InUse
        /\ freeList' = freeList \o e /\ Elems(freeList) \cap Elems(e) = {}
    BY <2>4, <2>6 DEF ChunkInv, Places
  <2> HIDE DEF e
  <2>8. /\ freeList \o e \in Seq(Chunks) /\ Distinct(freeList \o e)
        /\ Elems(freeList \o e) = Elems(freeList) \cup Elems(e)
    BY <2>3, <2>7, ConcatList
  <2>9. QED BY <2>4, <2>7, <2>8
<1>7. TypeHead' /\ TypeChunk'
  BY <1>1, <1>2 DEF TypeHead, TypeChunk
<1>8. TypeBound' /\ TypeEnd'
  BY <1>1, <1>2 DEF TypeBound, TypeEnd
<1>9. TypeSpace'
  BY <1>1, <1>2, <1>6 DEF TypeSpace
<1>10. TypeLogs'
  BY <1>1, <1>2, <1>4 DEF TypeLogs
<1>11. TypeUser'
  BY <1>1, <1>2 DEF TypeUser
<1>12. TypeGc'
  BY <1>1, <1>2 DEF TypeGc
<1>13. TypeProc'
  BY <1>1, <1>2 DEF TypeProc, Items
<1>14. Holder'
  BY <1>1, <1>2 DEF ChunkInv, Holder
<1>15. Sides'
  BY <1>1, <1>3 DEF Sides
<1>16. Logs1'
  BY <1>1, <1>3 DEF ChunkInv, Logs1
<1>17. Numbers'
  BY <1>1, <1>3 DEF ChunkInv, Numbers
<1>18. Places'
  <2>1. InUse' = NewInUse /\ NewInUse' = {}
    BY <1>1, <1>3 DEF InUse, NewInUse
  <2>2. QED BY <1>1, <1>6, <2>1 DEF ChunkInv, Places
<1>19. TailKept'
  BY <1>1, <1>2 DEF ChunkInv, Holder, TailKept
<1>20. Marking'
  <2>1. \A c \in vlog'.tree : id'[c] # 0
    BY <1>1 DEF ChunkInv, Marking
  <2>2. Retired' = {}
    BY <1>1, <2>1 DEF Retired, Empty
  <2>3. QED BY <1>1, <1>4, <2>1, <2>2 DEF Marking
<1>21. Looking'
  BY <1>1, <1>2 DEF ChunkInv, Holder, Looking
<1>22. QED
  BY <1>7, <1>8, <1>9, <1>10, <1>11, <1>12, <1>13, <1>14, <1>15, <1>16, <1>17, <1>18, <1>19,
     <1>20, <1>21 DEF ChunkStep, TypeOK, TypeSpace, TypeHead, TypeChunk, TypeLogs, TypeUser,
     TypeBound, TypeGc, TypeProc, TypeEnd

(* A program that has stopped.                                              *)
LEMMA StopKeeps ==
  ASSUME ChunkInv, NEW why, Stop(why), TypeEnd'
  PROVE  ChunkStep
<1>1. UNCHANGED <<used, taken, freeList, root, alt, nxt, id, item, cnt, bits, pre, vlog, new,
                  extLog, held, freeing, moved, posts, slows, gc, cursor, marks, tombs, fasts,
                  astray, lock, at, job>>
  BY DEF Stop, fileVars, spaceVars, headVars, chunkVars, userVars, gcVars, walkVars, fastVars,
     procVars
<1>2. /\ TypeSpace /\ TypeHead /\ TypeChunk /\ TypeLogs /\ TypeUser
      /\ TypeBound /\ TypeGc /\ TypeProc
  BY TypeParts DEF ChunkInv
<1>3. TypeSpace' /\ TypeHead' /\ TypeChunk' /\ TypeLogs'
  BY <1>1, <1>2 DEF TypeSpace, TypeHead, TypeChunk, TypeLogs
<1>4. TypeUser' /\ TypeBound' /\ TypeGc' /\ TypeProc'
  BY <1>1, <1>2 DEF TypeUser, TypeBound, TypeGc, TypeProc
<1>5. Holder' /\ Sides'
  BY <1>1 DEF ChunkInv, Holder, Sides
<1>6. Logs1' /\ Numbers' /\ Places'
  BY <1>1, <1>5, FrameLogs DEF ChunkInv, SameLogs, SameShape
<1>7. TailKept' /\ Marking' /\ Looking'
  BY <1>1 DEF ChunkInv, TailKept, Marking, Looking, Empty, Retired
<1>8. QED
  BY <1>3, <1>4, <1>5, <1>6, <1>7 DEF ChunkStep, TypeOK, TypeSpace, TypeHead, TypeChunk,
     TypeLogs, TypeUser, TypeBound, TypeGc, TypeProc, TypeEnd

LEMMA FailureKeeps ==
  ASSUME ChunkInv, Failure
  PROVE  ChunkStep
<1>1. PICK why \in {"no chunk", "moved", "division by zero", "chain", "no extent", "extent log"} :
        Stop(why)
  BY DEF Failure, FreeRemoteFails, WriteFreeFails, TickDivides, GcDivides, GcVisitFails,
         GcCopyFails, Misses
<1>2. TypeEnd'
  BY <1>1 DEF Stop, TypeEnd
<1>3. QED BY <1>1, <1>2, StopKeeps

LEMMA ZeroDiv == \A d \in Nat \ {0} : 0 \div d = 0 /\ 0 % d = 0
<1> TAKE d \in Nat \ {0}
<1> DEFINE q == 0 \div d
           r == 0 % d
<1>1. q \in Nat /\ r \in 0 .. d - 1 /\ d * q + r = d * 0 + 0 /\ 0 \in 0 .. d - 1
  BY Divided
<1> HIDE DEF q, r
<1>2. q = 0 /\ r = 0
  BY <1>1, OneDivision
<1>3. QED BY <1>2 DEF q, r

LEMMA IndexZero == Index(0) = 0 /\ 0 \in Slots
<1>1. /\ PerLine \in Nat \ {0} /\ Banks \in Nat \ {0} /\ NItems \in Nat \ {0}
      /\ PerLine * Banks \in Nat \ {0}
  BY BookLogAssumption, IndexSplit
<1>2. /\ 0 \div (PerLine * Banks) = 0 /\ 0 % (PerLine * Banks) = 0
      /\ 0 \div Banks = 0 /\ 0 % Banks = 0
  BY <1>1, ZeroDiv
<1>3. Index(0) = 0 * (PerLine * Banks) + 0 * PerLine + 0
  BY <1>2 DEF Index
<1>4. QED BY <1>1, <1>3 DEF Slots

LEMMA ChunksAtFirst == Init => ChunkInv
<1> SUFFICES ASSUME Init PROVE ChunkInv
  OBVIOUS
<1>1. /\ used = 3 /\ taken = 2 /\ freeList = <<>>
      /\ nxt = [c \in Chunks |-> IF c = 1 THEN 2 ELSE Nil]
      /\ id = [c \in Chunks |-> IF c \in {1, 2} THEN c ELSE 0]
      /\ root = [s \in {0, 1} |-> IF s = 0 THEN 1 ELSE Nil] /\ alt = 0
      /\ cnt = [c \in Chunks |-> IF c = 2 THEN 1 ELSE 0]
      /\ pre = [c \in Chunks |-> IF c = 2 THEN 1 ELSE Nil]
  BY DEF Init
<1>2. /\ vlog = [side |-> 0, tree |-> {2}, tail |-> 2, nextId |-> 3, chunks |-> 2,
                 items |-> 1, timer |-> 0]
      /\ new = NoLog /\ freeing = [t \in Threads |-> NoRef] /\ moved = {} /\ tombs = <<>>
      /\ posts = 0 /\ fasts = 0 /\ astray = FALSE /\ slows = 0 /\ gc = "wait" /\ lock = "none"
      /\ at = "out" /\ job = Blank /\ cursor = Nil /\ marks = {} /\ failed = "no"
  BY DEF Init
<1>3. PICK f \in Files : InitFile(f)
  BY DEF Init
<1>4. f \in Addrs /\ Index(0) \in Slots /\ 1 \in Chunks /\ 2 \in Chunks /\ 3 \in Chunks
  BY IndexZero, BookLogAssumption DEF Chunks
<1>5. /\ item \in [Chunks -> [Slots -> Items]] /\ bits \in [Chunks -> SUBSET Slots]
      /\ extLog \in [Addrs -> Refs \cup {NoRef}] /\ held \subseteq Addrs
  <2>1. Normal(f) \in Items /\ Blank \in Items
    BY <1>4 DEF Items, Normal, Blank
  <2>2. <<2, Index(0)>> \in Refs
    BY <1>4 DEF Refs
  <2>3. QED BY <1>3, <1>4, <2>1, <2>2 DEF InitFile
<1>6. TypeOK
  <2>1. /\ SizeMod \in Nat /\ SizeMod > 1 /\ GCPeriod \in Nat \ {0}
        /\ NoLog \in Logs
    BY BookLogAssumption DEF NoLog, Logs
  <2>2. vlog.items \in 0 .. SizeMod - 1
    BY <1>2, <2>1
  <2>3. vlog \in Logs
    BY <1>2, <1>4, <2>1, <2>2 DEF Logs
  <2>4. TypeSpace /\ TypeHead /\ TypeLogs
    BY <1>1, <1>2, <1>4, <2>1, <2>3 DEF TypeSpace, TypeHead, TypeLogs
  <2>5. TypeChunk
    BY <1>1, <1>4, <1>5 DEF TypeChunk, Chunks
  <2>6. TypeUser /\ TypeBound /\ TypeGc
    BY <1>2, <1>5 DEF TypeUser, TypeBound, TypeGc
  <2>7. TypeProc /\ TypeEnd
    BY <1>2 DEF TypeProc, TypeEnd, Items
  <2>8. QED BY <2>4, <2>5, <2>6, <2>7, TypeParts
<1>7. Holder /\ Sides /\ Logs1
  BY <1>1, <1>2, <1>4 DEF Holder, Sides, Logs1, Shaped, Blank
<1>8. Numbers
  <2>1. Cardinality({2}) = 1
    BY FS_Singleton
  <2>2. vlog.chunks = 2 /\ vlog.tree = {2} /\ lock = "none"
    BY <1>2
  <2>3. QED BY <2>1, <2>2 DEF Numbers
<1>9. Places
  <2>1. InUse = {1, 2} /\ NewInUse = {} /\ Free = {} /\ Distinct(freeList)
    BY <1>1, <1>2 DEF InUse, NewInUse, Free, Distinct
  <2>2. QED BY <1>1, <2>1 DEF Places
<1>10. TailKept /\ Marking /\ Looking
  BY <1>1, <1>2, <1>4 DEF TailKept, Marking, Looking, Empty, Retired, NoLog
<1>11. QED BY <1>6, <1>7, <1>8, <1>9, <1>10, FilledAtFirst DEF ChunkInv

LEMMA ChunksKeep == ChunkInv /\ [Next]_vars => ChunkInv'
<1> SUFFICES ASSUME ChunkInv, [Next]_vars PROVE ChunkInv'
  OBVIOUS
<1>1. Filled'
  BY Steps DEF ChunkInv
<1>2. CASE UNCHANGED vars
  <2>1. Stop(failed) /\ TypeEnd'
    BY <1>2, TypeParts DEF Stop, vars, ChunkInv, TypeEnd
  <2>2. QED BY <1>1, <2>1, StopKeeps DEF ChunkStep, ChunkInv
<1>3. CASE ClientStep /\ UNCHANGED failed
  <2>1. PICK t \in Threads :
          \/ \E a \in Addrs : AllocBegin(t, a) \/ FreeBegin(t, a)
          \/ FreeLocal(t)
          \/ FreeRemote(t)
    BY <1>3 DEF ClientStep
  <2>2. ChunkStep
    BY <1>3, <2>1, AllocBeginKeeps, FreeBeginKeeps, FreeLocalKeeps, FreeRemoteKeeps
  <2>3. QED BY <1>1, <2>2 DEF ChunkStep, ChunkInv
<1>4. CASE LogStep /\ UNCHANGED failed
  <2>1. ChunkStep
    BY <1>4, FlushBeginKeeps, GrowKeeps, WriteNormalKeeps, WriteFreeKeeps, WriteTombKeeps,
       TickKeeps, TickLooseKeeps, RetireKeeps, UnlinkKeeps, FastDoneKeeps DEF LogStep
  <2>2. QED BY <1>1, <2>1 DEF ChunkStep, ChunkInv
<1>5. CASE GcStep /\ UNCHANGED failed
  <2>1. ChunkStep
    BY <1>5, GcWakeKeeps, GcDropKeeps, GcRootKeeps, GcFirstKeeps, GcVisitKeeps, GcGrowKeeps,
       GcCopyKeeps, GcAdvanceKeeps, GcFlipKeeps, GcSwapKeeps DEF GcStep
  <2>2. QED BY <1>1, <2>1 DEF ChunkStep, ChunkInv
<1>6. CASE Failure
  BY <1>1, <1>6, FailureKeeps DEF ChunkStep, ChunkInv
<1>7. QED BY <1>2, <1>3, <1>4, <1>5, <1>6 DEF Next

LEMMA ChunksAlways == Spec => []ChunkInv
<1>1. QED BY ChunksAtFirst, ChunksKeep, PTL DEF Spec

(* Every variable of the log keeps to its type: counters stay in their      *)
(* width, references stay in the file, and no log is without a tail.        *)
THEOREM BookLogTypes == Spec => []TypeOK
<1>1. ChunkInv => TypeOK
  BY DEF ChunkInv
<1>2. QED BY <1>1, ChunksAlways, PTL

(* Whatever fast_GC and slow_GC free and add_log takes again, each chunk of *)
(* the file is in one place, and num_of_chunks counts those of the log.     *)
THEOREM NoChunkLost == Spec => []ChunksAccounted
<1>1. ASSUME ChunkInv PROVE ChunksAccounted
  <2>1. /\ TypeSpace /\ TypeLogs /\ TypeHead
        /\ Numbers /\ Places /\ Logs1
    BY <1>1, TypeParts DEF ChunkInv
  <2>2. /\ InUse \cup NewInUse \cup Free = 1 .. used - 1 /\ used \in Nat /\ used >= 1
        /\ InUse \cap NewInUse = {} /\ InUse \cap Free = {} /\ NewInUse \cap Free = {}
        /\ vlog.tree \in SUBSET Chunks /\ root[vlog.side] \notin vlog.tree
        /\ freeList \in Seq(Chunks) /\ Distinct(freeList) /\ Free = Elems(freeList)
    BY <2>1 DEF Places, TypeSpace, TypeLogs, Logs, Logs1, Shaped, Chunks, Free, Elems
  <2>3. IsFiniteSet(1 .. used - 1) /\ Cardinality(1 .. used - 1) = used - 1
    <3>1. used - 1 \in Int /\ 1 \in Int /\ used - 1 - 1 + 1 = used - 1 /\ (1 > used - 1 => used - 1 = 0)
      BY <2>2
    <3>2. /\ IsFiniteSet(1 .. used - 1)
          /\ Cardinality(1 .. used - 1) = IF 1 > used - 1 THEN 0 ELSE used - 1 - 1 + 1
      BY <3>1, FS_Interval
    <3>3. QED BY <3>1, <3>2
  <2>4. /\ IsFiniteSet(InUse) /\ IsFiniteSet(NewInUse) /\ IsFiniteSet(Free)
        /\ IsFiniteSet(InUse \cup NewInUse)
    <3>1. /\ InUse \in SUBSET (1 .. used - 1) /\ NewInUse \in SUBSET (1 .. used - 1)
          /\ Free \in SUBSET (1 .. used - 1) /\ InUse \cup NewInUse \in SUBSET (1 .. used - 1)
      BY <2>2
    <3>2. QED BY <2>3, <3>1, FS_Subset
  <2>5. Cardinality(InUse \cup NewInUse) = Cardinality(InUse) + Cardinality(NewInUse)
    <3>1. Cardinality(InUse \cap NewInUse) = 0
      BY <2>2, FS_EmptySet
    <3>2. /\ Cardinality(InUse) \in Nat /\ Cardinality(NewInUse) \in Nat
          /\ Cardinality(InUse \cup NewInUse)
               = Cardinality(InUse) + Cardinality(NewInUse) - Cardinality(InUse \cap NewInUse)
      BY <2>4, FS_Union, FS_CardinalityType
    <3>3. QED BY <3>1, <3>2
  <2>6. used - 1 = Cardinality(InUse \cup NewInUse) + Cardinality(Free)
    <3>1. Cardinality((InUse \cup NewInUse) \cap Free) = 0
      <4>1. (InUse \cup NewInUse) \cap Free = {}
        BY <2>2
      <4>2. QED BY <4>1, FS_EmptySet
    <3>2. /\ Cardinality(InUse \cup NewInUse) \in Nat /\ Cardinality(Free) \in Nat
          /\ Cardinality((InUse \cup NewInUse) \cup Free)
               = Cardinality(InUse \cup NewInUse) + Cardinality(Free)
                   - Cardinality((InUse \cup NewInUse) \cap Free)
      BY <2>4, FS_Union, FS_CardinalityType
    <3>3. Cardinality((InUse \cup NewInUse) \cup Free) = used - 1
      BY <2>2, <2>3
    <3>4. QED BY <3>1, <3>2, <3>3
  <2>7. Cardinality(Free) = Len(freeList)
    BY <2>2, ListLength
  <2>8. vlog.chunks = Cardinality(InUse)
    <3>1. IsFiniteSet(vlog.tree)
      BY <2>2, ChunkRange, FS_Subset
    <3>2. Cardinality(InUse) = Cardinality(vlog.tree) + 1
      BY <2>2, <3>1, FS_AddElement DEF InUse
    <3>3. QED BY <2>1, <3>2 DEF Numbers
  <2>9. QED BY <2>2, <2>5, <2>6, <2>7, <2>8 DEF ChunksAccounted
<1>2. QED BY <1>1, ChunksAlways, PTL
=============================================================================
