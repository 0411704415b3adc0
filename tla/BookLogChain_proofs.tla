------------------------- MODULE BookLogChain_proofs -------------------------
(***************************************************************************)
(* Proofs about BookLog.  As long as fast_GC has followed no pre_lchunk    *)
(* out of date: the chain in persistent memory and the volatile tree are   *)
(* the same log, slow_GC finds every chunk of the chain in the tree, and   *)
(* no record of an extent in a client's hands is lost; and as long as no   *)
(* version wraps either, no tombstone ends a record that counts, and       *)
(* persistent memory keeps what DurableRecords promises.                   *)
(***************************************************************************)
EXTENDS BookLogChunks_proofs

-----------------------------------------------------------------------------
(* The invariant *)

(* d is the chunk of A with the next id after that of c, Nil if c is last.  *)
Follows(ids, A, c, d) ==
  /\ d # Nil => d \in A /\ ids[c] < ids[d]
  /\ \A e \in A : ids[c] < ids[e] => d # Nil /\ ids[d] <= ids[e]

(* Along the path from r the ids rise through the chunks A to tail t, all   *)
(* below k.                                                                 *)
Linked(ids, path, A, t, k, r) ==
  /\ t \in A
  /\ \A c \in A : ids[r] < ids[c] /\ ids[c] < k /\ ids[c] <= ids[t]
  /\ \A c, d \in A : ids[c] = ids[d] => c = d
  /\ \A c \in A \cup {r} : Follows(ids, A, c, path[c])

(* The chunks of a log that are not marked free.                            *)
Alive(v) == {c \in v.tree : id[c] # 0}

(* The chunk marked free but still in the chain, and the chain as it will   *)
(* be once its predecessor is led past it.                                  *)
Going == IF at = "unlink" THEN Lowest(Retired) ELSE Nil
Path  == [c \in Chunks |-> IF nxt[c] # Nil /\ nxt[c] = Going THEN nxt[Going] ELSE nxt[c]]

Chained ==
  /\ Linked(id, Path, Alive(vlog), vlog.tail, vlog.nextId, root[vlog.side])
  /\ nxt[vlog.tail] = Nil
  /\ at = "first" => id[new.tail] = 0 /\ new.nextId = 1
  /\ at \in {"visit", "copy", "swap"} =>
       /\ Linked(id, nxt, new.tree, new.tail, new.nextId, root[new.side])
       /\ nxt[new.tail] = Nil
  /\ at = "unlink" => nxt[Going] \in Alive(vlog) \cup {Nil}

(* r is the place of an item that counts, in a log in use.                  *)
Kept(r) ==
  /\ r[1] \in vlog.tree \cup new.tree
  /\ item[r[1]][r[2]] # Blank
  /\ r[2] \in bits[r[1]]

Recorded == \A a \in held : Kept(extLog[a]) /\ item[extLog[a][1]][extLog[a][2]] = Normal(a)

(* The item a client is about to end is nobody else's.                      *)
Ending ==
  \A t \in Threads \ moved : freeing[t] # NoRef =>
    /\ Kept(freeing[t])
    /\ \A a \in held : extLog[a] # freeing[t]
    /\ \A u \in Threads \ moved : u # t => freeing[u] # freeing[t]

Waiting == \A t \in moved : freeing[t] # NoRef

(* What slow_GC has not copied yet is still ahead of it.                    *)
Ahead(c, i) ==
  /\ at = "visit" => cursor # Nil /\ id[cursor] <= id[c]
  /\ at = "copy"  => id[cursor] < id[c] \/ (c = cursor /\ i \in marks)
  /\ at # "swap"
Walking ==
  /\ at = "visit" => cursor \in vlog.tree \cup {Nil}
  /\ lock = "gc" => \A a \in held : extLog[a][1] \notin new.tree =>
                      Ahead(extLog[a][1], extLog[a][2])

Sound == Chained /\ Recorded /\ Ending /\ Waiting /\ Walking /\ failed # "chain"

ChainInv == astray \/ Sound

-----------------------------------------------------------------------------
(* Linked chunks *)

(* What Linked says depends on the chunks alone that are linked.            *)
LEMMA LinkedSame ==
  ASSUME NEW ids, NEW path, NEW A, NEW t, NEW k, NEW r, NEW ids2, NEW path2,
         Linked(ids, path, A, t, k, r),
         \A c \in A \cup {r} : ids2[c] = ids[c] /\ path2[c] = path[c]
  PROVE  Linked(ids2, path2, A, t, k, r)
BY DEF Linked, Follows

(* A chunk n behind the tail.                                               *)
LEMMA LinkedMore ==
  ASSUME NEW ids \in [Chunks -> Nat], NEW path \in [Chunks -> Chunks \cup {Nil}],
         NEW A \in SUBSET Chunks, NEW t \in A, NEW k \in Nat, NEW r \in Chunks \ A,
         NEW n \in Chunks, n \notin A, n # r,
         Linked(ids, path, A, t, k, r)
  PROVE  Linked([ids EXCEPT ![n] = k], [path EXCEPT ![n] = Nil, ![t] = n],
                A \cup {n}, n, k + 1, r)
<1> DEFINE i2 == [ids EXCEPT ![n] = k]
           p2 == [path EXCEPT ![n] = Nil, ![t] = n]
           B == A \cup {n}
<1>1. /\ n \in Nat /\ n # Nil
      /\ i2[n] = k /\ \A c \in Chunks : c # n => i2[c] = ids[c]
      /\ p2[n] = Nil /\ p2[t] = n /\ \A c \in Chunks : c # n /\ c # t => p2[c] = path[c]
      /\ A \subseteq Chunks /\ t \in Chunks /\ t # n /\ \A c \in Chunks : ids[c] \in Nat
  BY ChunkRange
<1>2. /\ \A c \in A : ids[r] < ids[c] /\ ids[c] < k /\ ids[c] <= ids[t]
      /\ \A c, d \in A : ids[c] = ids[d] => c = d
      /\ \A c \in A \cup {r} : Follows(ids, A, c, path[c])
  BY DEF Linked
<1> HIDE DEF i2, p2
<1>3. \A c \in B : i2[r] < i2[c] /\ i2[c] < k + 1 /\ i2[c] <= i2[n]
  BY <1>1, <1>2
<1>4. \A c, d \in B : i2[c] = i2[d] => c = d
  BY <1>1, <1>2
<1>5. Follows(i2, B, n, p2[n])
  BY <1>1, <1>3 DEF Follows
<1>6. Follows(i2, B, t, p2[t])
  BY <1>1, <1>2 DEF Follows
<1>7. ASSUME NEW c \in A \cup {r}, c # t PROVE Follows(i2, B, c, p2[c])
  <2>1. Follows(ids, A, c, path[c]) /\ c \in Chunks /\ c # n /\ p2[c] = path[c]
    BY <1>1, <1>2, <1>7
  <2>2. ids[c] < ids[t]
    BY <1>1, <1>2, <1>7
  <2>3. path[c] # Nil /\ path[c] \in A /\ ids[c] < ids[path[c]]
    BY <2>1, <2>2 DEF Follows
  <2>4. \A e \in A : ids[c] < ids[e] => ids[path[c]] <= ids[e]
    BY <2>1 DEF Follows
  <2>5. \A e \in B : i2[c] < i2[e] => i2[path[c]] <= i2[e]
    <3>1. i2[path[c]] = ids[path[c]] /\ i2[c] = ids[c] /\ ids[path[c]] < k /\ k \in Nat
      BY <1>1, <1>2, <2>1, <2>3
    <3>2. ASSUME NEW e \in A, i2[c] < i2[e] PROVE i2[path[c]] <= i2[e]
      <4>1. i2[e] = ids[e]
        BY <1>1
      <4>2. QED BY <2>4, <3>1, <3>2, <4>1
    <3>3. i2[path[c]] <= i2[n]
      <4>1. ids[path[c]] \in Nat
        BY <1>1, <2>3
      <4>2. QED BY <1>1, <3>1, <4>1
    <3>4. QED BY <3>2, <3>3
  <2>6. QED BY <1>1, <2>1, <2>3, <2>5 DEF Follows
<1>8. QED BY <1>1, <1>3, <1>4, <1>5, <1>6, <1>7 DEF Linked, i2, p2

(* Chunk x is marked free, and passed over.                                 *)
LEMMA LinkedLess ==
  ASSUME NEW ids \in [Chunks -> Nat], NEW path \in [Chunks -> Chunks \cup {Nil}],
         NEW A \in SUBSET Chunks, NEW t \in A, NEW k \in Nat, NEW r \in Chunks \ A,
         NEW x \in A, x # t,
         Linked(ids, path, A, t, k, r)
  PROVE  /\ Linked([ids EXCEPT ![x] = 0],
                   [c \in Chunks |-> IF path[c] = x THEN path[x] ELSE path[c]],
                   A \ {x}, t, k, r)
         /\ path[x] \in (A \ {x}) \cup {Nil}
<1> DEFINE i2 == [ids EXCEPT ![x] = 0]
           path2 == [c \in Chunks |-> IF path[c] = x THEN path[x] ELSE path[c]]
           B == A \ {x}
<1>1. /\ \A c \in Chunks : c # x => i2[c] = ids[c]
      /\ \A c \in Chunks : path2[c] = IF path[c] = x THEN path[x] ELSE path[c]
      /\ A \subseteq Chunks /\ t \in Chunks /\ x \in Chunks /\ x # Nil
      /\ \A c \in Chunks : ids[c] \in Nat
  BY ChunkRange
<1>2. /\ \A c \in A : ids[r] < ids[c] /\ ids[c] < k /\ ids[c] <= ids[t]
      /\ \A c, d \in A : ids[c] = ids[d] => c = d
      /\ \A c \in A \cup {r} : Follows(ids, A, c, path[c])
  BY DEF Linked
<1> HIDE DEF i2, path2
<1>3. path[x] \in B \cup {Nil}
  BY <1>1, <1>2 DEF Follows
<1>4. ASSUME NEW c \in B \cup {r} PROVE Follows(i2, B, c, path2[c])
  <2>1. Follows(ids, A, c, path[c]) /\ c \in Chunks /\ c # x /\ i2[c] = ids[c]
    BY <1>1, <1>2
  <2>2. CASE path[c] # x
    <3>1. path2[c] = path[c]
      BY <1>1, <2>1, <2>2
    <3>2. QED BY <1>1, <2>1, <2>2, <3>1 DEF Follows
  <2>3. CASE path[c] = x
    <3>1. path2[c] = path[x] /\ ids[c] < ids[x]
      BY <1>1, <2>1, <2>3 DEF Follows
    <3>2. Follows(ids, A, x, path[x])
      BY <1>2
    <3>3. path[x] # Nil => path[x] \in B /\ ids[x] < ids[path[x]]
      BY <1>3, <3>2 DEF Follows
    <3>4. ASSUME NEW e \in B, ids[c] < ids[e] PROVE path[x] # Nil /\ ids[path[x]] <= ids[e]
      <4>1. ids[x] <= ids[e] /\ ids[x] # ids[e]
        BY <1>1, <1>2, <2>1, <2>3, <3>4 DEF Follows
      <4>2. QED BY <1>1, <3>2, <4>1 DEF Follows
    <3>5. QED BY <1>1, <2>1, <3>1, <3>3, <3>4 DEF Follows
  <2>4. QED BY <2>2, <2>3
<1>5. QED BY <1>1, <1>2, <1>3, <1>4 DEF Linked, i2, path2

(* No two chunks have one successor, and none that follows another is last. *)
LEMMA OneBefore ==
  ASSUME NEW ids \in [Chunks -> Nat], NEW path,
         NEW A \in SUBSET Chunks, NEW t, NEW k, NEW r \in Chunks \ A,
         Linked(ids, path, A, t, k, r),
         NEW c \in A \cup {r}, NEW d \in A \cup {r}, path[c] = path[d]
  PROVE  c = d
<1>1. /\ \A e \in A : ids[r] < ids[e]
      /\ \A e, f \in A : ids[e] = ids[f] => e = f
      /\ Follows(ids, A, c, path[c]) /\ Follows(ids, A, d, path[d])
      /\ \A e \in Chunks : ids[e] \in Nat
  BY DEF Linked
<1>2. ASSUME NEW e \in A \cup {r}, NEW f \in A \cup {r}, ids[e] < ids[f], path[e] = path[f],
             Follows(ids, A, e, path[e]), Follows(ids, A, f, path[f])
      PROVE  FALSE
  <2>1. f \in A
    BY <1>1, <1>2
  <2>2. path[e] # Nil /\ ids[path[e]] <= ids[f]
    BY <1>2, <2>1 DEF Follows
  <2>3. path[f] \in A /\ ids[f] < ids[path[f]]
    BY <1>2, <2>2 DEF Follows
  <2>4. QED BY <1>1, <1>2, <2>1, <2>2, <2>3
<1>3. ~(ids[c] < ids[d]) /\ ~(ids[d] < ids[c])
  BY <1>1, <1>2
<1>4. QED BY <1>1, <1>3

-----------------------------------------------------------------------------
(* What a step leaves alone *)

LEMMA ChunkFacts ==
  ASSUME ChunkInv
  PROVE  /\ id \in [Chunks -> Nat] /\ nxt \in [Chunks -> Chunks \cup {Nil}]
         /\ item \in [Chunks -> [Slots -> Items]] /\ bits \in [Chunks -> SUBSET Slots]
         /\ extLog \in [Addrs -> Refs \cup {NoRef}] /\ freeing \in [Threads -> Refs \cup {NoRef}]
         /\ held \subseteq Addrs /\ moved \subseteq Threads /\ marks \subseteq Slots
         /\ vlog \in Logs /\ new \in Logs
         /\ vlog.tree \subseteq Chunks /\ new.tree \subseteq Chunks
         /\ vlog.tail \in vlog.tree /\ vlog.nextId \in Nat \ {0}
         /\ root[vlog.side] \in Chunks \ vlog.tree
         /\ lock = "none" <=> at = "out"
         /\ lock = "gc" <=> at \in {"first", "visit", "copy", "swap"}
         /\ at \notin {"visit", "copy", "swap"} => new.tree = {}
         /\ at \in {"visit", "copy", "swap"} =>
              /\ new.tail \in new.tree /\ new.nextId \in Nat \ {0}
              /\ root[new.side] \in Chunks \ new.tree
<1>1. TypeOK /\ Holder /\ Logs1
  BY DEF ChunkInv
<1>2. vlog \in Logs /\ new \in Logs
  BY <1>1 DEF TypeOK
<1>3. vlog.tree \subseteq Chunks /\ new.tree \subseteq Chunks /\ vlog.nextId \in Nat /\ new.nextId \in Nat
  BY <1>2 DEF Logs
<1>4. /\ lock = "none" <=> at = "out"
      /\ lock = "gc" <=> at \in {"first", "visit", "copy", "swap"}
  BY <1>1 DEF Holder
<1>5. /\ vlog.tail \in vlog.tree /\ vlog.nextId \in Nat \ {0}
      /\ root[vlog.side] \in Chunks \ vlog.tree
      /\ at \in {"visit", "copy", "swap"} =>
           /\ new.tail \in new.tree /\ new.nextId \in Nat \ {0}
           /\ root[new.side] \in Chunks \ new.tree
  BY <1>1, <1>3 DEF Logs1, Shaped
<1>6. at \notin {"visit", "copy", "swap"} => new.tree = {}
  BY <1>1, <1>4 DEF Logs1, NoLog
<1>7. QED BY <1>1, <1>2, <1>3, <1>4, <1>5, <1>6 DEF TypeOK

(* Outside fast_GC every chunk of the tree is alive, and the path is nxt.   *)
LEMMA PathIs ==
  ASSUME ChunkInv, at # "unlink"
  PROVE  Path = nxt /\ Going = Nil /\ (at # "retire" => Alive(vlog) = vlog.tree)
<1>1. Going = Nil
  BY DEF Going
<1>2. Path = [c \in Chunks |-> nxt[c]]
  BY <1>1 DEF Path
<1>3. nxt \in [Chunks -> Chunks \cup {Nil}]
  BY ChunkFacts
<1>4. at # "retire" => Alive(vlog) = vlog.tree
  BY DEF ChunkInv, Marking, Alive
<1>5. QED BY <1>1, <1>2, <1>3, <1>4

LEMMA ChainedFrame ==
  ASSUME ChunkInv, ChunkInv', Chained, UNCHANGED <<nxt, id, root>>,
         SameShape(vlog', vlog), SameShape(new', new), at # "unlink", at' # "unlink",
         at' = "first" => at = "first",
         at' \in {"visit", "copy", "swap"} => at \in {"visit", "copy", "swap"}
  PROVE  Chained'
<1>1. Path = nxt /\ Path' = nxt'
  <2>1. Path = nxt /\ nxt \in [Chunks -> Chunks \cup {Nil}]
    BY PathIs, ChunkFacts
  <2>2. Going' = Nil
    BY DEF Going
  <2>3. Path' = [c \in Chunks |-> nxt'[c]]
    BY <2>2 DEF Path
  <2>4. QED BY <2>1, <2>3
<1>2. Alive(vlog)' = Alive(vlog)
  BY DEF Alive, SameShape
<1>3. Linked(id, nxt, Alive(vlog), vlog.tail, vlog.nextId, root[vlog.side])
  BY <1>1 DEF Chained
<1>4. Linked(id, Path, Alive(vlog), vlog.tail, vlog.nextId, root[vlog.side])'
  BY <1>1, <1>2, <1>3 DEF SameShape
<1>5. QED BY <1>4 DEF Chained, SameShape

LEMMA RecordFrame ==
  ASSUME Recorded, Ending, Waiting, UNCHANGED <<held, extLog, freeing, moved>>,
         \A r : Kept(r) => Kept(r)' /\ item'[r[1]][r[2]] = item[r[1]][r[2]]
  PROVE  Recorded' /\ Ending' /\ Waiting'
<1>1. Recorded'
  BY DEF Recorded
<1>2. Ending'
  BY DEF Ending
<1>3. Waiting'
  BY DEF Waiting
<1>4. QED BY <1>1, <1>2, <1>3

(* A place in a log in use. *)
LEMMA KeptPlace ==
  ASSUME ChunkInv, NEW r, Kept(r), r \in Refs \cup {NoRef}
  PROVE  r \in Refs /\ r # NoRef /\ r[1] \in Chunks /\ r[2] \in Slots /\ r = <<r[1], r[2]>>
<1>1. r[1] \in Chunks
  BY ChunkFacts DEF Kept
<1>2. r # NoRef
  BY <1>1, ChunkRange DEF NoRef
<1>3. QED BY <1>2 DEF Refs

LEMMA HeldPlace ==
  ASSUME ChunkInv, Recorded, NEW a \in held
  PROVE  /\ Kept(extLog[a]) /\ extLog[a] \in Refs /\ extLog[a] # NoRef /\ a \in Addrs
         /\ extLog[a][1] \in Chunks /\ extLog[a][2] \in Slots
         /\ extLog[a] = <<extLog[a][1], extLog[a][2]>>
         /\ item[extLog[a][1]][extLog[a][2]] = Normal(a)
<1>1. a \in Addrs /\ extLog[a] \in Refs \cup {NoRef}
  BY ChunkFacts
<1>2. Kept(extLog[a]) /\ item[extLog[a][1]][extLog[a][2]] = Normal(a)
  BY DEF Recorded
<1>3. QED BY <1>1, <1>2, KeptPlace

(* The next place of a chunk is blank, and the item goes nowhere else.      *)
LEMMA AppendPlace ==
  ASSUME ChunkInv, NEW c \in Chunks, ~Full(c), NEW x \in Items, Append1(c, x)
  PROVE  /\ Index(cnt[c]) \in Slots
         /\ item'[c][Index(cnt[c])] = x
         /\ \A r \in Refs : item[r[1]][r[2]] # Blank =>
              r # Place(c) /\ item'[r[1]][r[2]] = item[r[1]][r[2]]
<1> DEFINE s == Index(cnt[c])
<1>1. TypeChunk /\ Filled
  BY TypeParts DEF ChunkInv
<1>2. /\ s \in Slots /\ \A d \in Chunks \ {c} : item'[d] = item[d]
      /\ item'[c] = [item[c] EXCEPT ![s] = x] /\ item[c] \in [Slots -> Items]
  BY <1>1, PlaceIn, AppendTypes DEF TypeChunk
<1>3. item[c][s] = Blank
  <2>1. SUFFICES ASSUME item[c][s] # Blank PROVE FALSE
    OBVIOUS
  <2>2. cnt[c] \in Nat
    BY <1>1 DEF Filled
  <2>3. PICK k \in 0 .. cnt[c] - 1 : s = Index(k)
    BY <1>1, <1>2, <2>1 DEF Filled
  <2>4. k = cnt[c]
    BY <2>2, <2>3, IndexOneToOne
  <2>5. QED BY <2>2, <2>3, <2>4
<1> HIDE DEF s
<1>4. ASSUME NEW r \in Refs, item[r[1]][r[2]] # Blank
      PROVE  r # Place(c) /\ item'[r[1]][r[2]] = item[r[1]][r[2]]
  <2>1. r[1] \in Chunks /\ r[2] \in Slots /\ r = <<r[1], r[2]>>
    BY DEF Refs
  <2>2. ~(r[1] = c /\ r[2] = s)
    BY <1>3, <1>4
  <2>3. Place(c) = <<c, s>>
    BY DEF Place, s
  <2>4. QED BY <1>2, <2>1, <2>2, <2>3
<1>5. QED BY <1>2, <1>4 DEF s

(* A chunk that is taken is in no log.                                      *)
LEMMA TakenApart ==
  ASSUME ChunkInv, NEW v, v.nextId \in Nat, TakeChunk(NewChunk, v)
  PROVE  /\ NewChunk \in Chunks /\ NewChunk \notin vlog.tree \cup new.tree
         /\ NewChunk # root[vlog.side]
         /\ lock = "gc" => NewChunk # IF at = "first" THEN new.tail ELSE root[new.side]
         /\ id' = [id EXCEPT ![NewChunk] = v.nextId]
         /\ \A c \in Chunks \ {NewChunk} :
              id'[c] = id[c] /\ item'[c] = item[c] /\ bits'[c] = bits[c]
         /\ id'[NewChunk] = v.nextId
<1>1. TypeSpace /\ TypeChunk /\ Places
  BY TypeParts DEF ChunkInv
<1>2. /\ NewChunk \in Chunks /\ NewChunk \notin InUse /\ NewChunk \notin NewInUse
      /\ id' = [id EXCEPT ![NewChunk] = v.nextId]
      /\ bits' = [bits EXCEPT ![NewChunk] = {}]
      /\ \A c \in Chunks \ {NewChunk} : item'[c] = item[c]
  BY <1>1, TakeTypes
<1>3. lock # "gc" => new.tree = {}
  BY ChunkFacts
<1>4. /\ NewChunk \notin vlog.tree \cup new.tree /\ NewChunk # root[vlog.side]
      /\ lock = "gc" => NewChunk # IF at = "first" THEN new.tail ELSE root[new.side]
  BY <1>2, <1>3 DEF InUse, NewInUse
<1>5. id \in [Chunks -> Nat] /\ bits \in [Chunks -> SUBSET Slots]
  BY <1>1 DEF TypeChunk
<1> DEFINE n == NewChunk
<1> HIDE DEF n
<1>6. QED BY <1>2, <1>4, <1>5

(* Such a step keeps the places of all items that count.                    *)
LEMMA TakenKeeps ==
  ASSUME ChunkInv, NEW v, v.nextId \in Nat, TakeChunk(NewChunk, v),
         vlog.tree \cup new.tree \subseteq vlog'.tree \cup new'.tree, NEW r, Kept(r)
  PROVE  Kept(r)' /\ item'[r[1]][r[2]] = item[r[1]][r[2]]
<1>1. r[1] \in vlog.tree \cup new.tree /\ r[1] \in Chunks \ {NewChunk}
  BY ChunkFacts, TakenApart DEF Kept
<1>2. QED BY <1>1, TakenApart DEF Kept

(* Two logs share no chunk.                                                 *)
LEMMA LogsApart ==
  ASSUME ChunkInv
  PROVE  /\ vlog.tree \cap new.tree = {} /\ root[vlog.side] \notin new.tree
         /\ at = "first" => new.tail \notin vlog.tree /\ new.tail # root[vlog.side]
BY ChunkFacts DEF ChunkInv, Places, InUse, NewInUse

-----------------------------------------------------------------------------
(* The chain: one lemma per action that changes it *)

(* The path after a step that leaves fast_GC out.                           *)
LEMMA PathNext ==
  ASSUME ChunkInv', at' # "unlink"
  PROVE  Path' = nxt'
<1>1. nxt' \in [Chunks -> Chunks \cup {Nil}]
  BY DEF ChunkInv, TypeOK
<1>2. Going' = Nil
  BY DEF Going
<1>3. Path' = [c \in Chunks |-> nxt'[c]]
  BY <1>2 DEF Path
<1>4. QED BY <1>1, <1>3

(* log v grows by the chunk that is taken, the other one w stays.           *)
LEMMA GrownChain ==
  ASSUME ChunkInv, NEW v \in Logs, TakeChunk(NewChunk, v), v.nextId \in Nat \ {0},
         NEW A \in SUBSET v.tree, v.tail \in A, NEW r \in Chunks, NewChunk # r, r \notin A,
         NewChunk \notin A,
         nxt' = [nxt EXCEPT ![NewChunk] = Nil, ![v.tail] = NewChunk],
         Linked(id, nxt, A, v.tail, v.nextId, r)
  PROVE  /\ Linked(id', nxt', A \cup {NewChunk}, NewChunk, v.nextId + 1, r)
         /\ nxt'[NewChunk] = Nil
<1> DEFINE n == NewChunk
           t == v.tail
           k == v.nextId
<1>1. id' = [id EXCEPT ![n] = k] /\ n \in Chunks
  BY TakenApart
<1>2. id \in [Chunks -> Nat] /\ nxt \in [Chunks -> Chunks \cup {Nil}] /\ v.tree \subseteq Chunks
  BY ChunkFacts DEF Logs
<1>3. /\ A \in SUBSET Chunks /\ t \in A /\ k \in Nat /\ r \in Chunks \ A /\ n \in Chunks
      /\ n \notin A /\ n # r
  BY <1>1, <1>2
<1>4. nxt' = [nxt EXCEPT ![n] = Nil, ![t] = n] /\ Linked(id, nxt, A, t, k, r)
  OBVIOUS
<1> HIDE DEF n, t, k
<1>5. nxt'[n] = Nil
  BY <1>2, <1>3, <1>4
<1>6. Linked([id EXCEPT ![n] = k], [nxt EXCEPT ![n] = Nil, ![t] = n], A \cup {n}, n, k + 1, r)
  BY <1>2, <1>3, <1>4, LinkedMore
<1>7. QED BY <1>1, <1>4, <1>5, <1>6 DEF n, t, k

LEMMA GrowChain ==
  ASSUME ChunkInv, ChunkInv', Chained, Grow
  PROVE  Chained'
<1>1. /\ at = "item" /\ at' = "item" /\ TakeChunk(NewChunk, vlog) /\ vlog' = Extended(vlog)
      /\ nxt' = [nxt EXCEPT ![NewChunk] = Nil, ![vlog.tail] = NewChunk] /\ root' = root
  BY DEF Grow, Extend, procVars, headVars
<1>2. /\ vlog \in Logs /\ vlog.nextId \in Nat \ {0} /\ vlog.tail \in vlog.tree
      /\ root[vlog.side] \in Chunks \ vlog.tree /\ vlog.tree \subseteq Chunks
  BY ChunkFacts
<1>3. /\ NewChunk \in Chunks /\ NewChunk \notin vlog.tree /\ NewChunk # root[vlog.side]
      /\ \A c \in Chunks \ {NewChunk} : id'[c] = id[c]
      /\ id'[NewChunk] = vlog.nextId
  BY <1>1, <1>2, TakenApart
<1>4. Path = nxt /\ Path' = nxt' /\ Alive(vlog) = vlog.tree
  BY <1>1, PathIs, PathNext
<1>5. Linked(id, nxt, vlog.tree, vlog.tail, vlog.nextId, root[vlog.side])
  BY <1>4 DEF Chained
<1>6. /\ Linked(id', nxt', vlog.tree \cup {NewChunk}, NewChunk, vlog.nextId + 1, root[vlog.side])
      /\ nxt'[NewChunk] = Nil
  BY <1>1, <1>2, <1>3, <1>5, GrownChain
<1>7. /\ vlog'.side = vlog.side /\ vlog'.tree = vlog.tree \cup {NewChunk}
      /\ vlog'.tail = NewChunk /\ vlog'.nextId = vlog.nextId + 1
  BY <1>1, <1>2, <1>3, ExtendedIs
<1>8. Alive(vlog)' = vlog'.tree
  BY <1>1 DEF ChunkInv, Marking, Alive
<1>9. QED BY <1>1, <1>4, <1>6, <1>7, <1>8 DEF Chained

LEMMA GcGrowChain ==
  ASSUME ChunkInv, ChunkInv', Chained, GcGrow
  PROVE  Chained'
<1>1. /\ at = "copy" /\ at' = "copy" /\ TakeChunk(NewChunk, new) /\ new' = Extended(new)
      /\ nxt' = [nxt EXCEPT ![NewChunk] = Nil, ![new.tail] = NewChunk]
      /\ root' = root /\ vlog' = vlog
  BY DEF GcGrow, Extend, procVars, headVars
<1>2. /\ new \in Logs /\ new.nextId \in Nat \ {0} /\ new.tail \in new.tree
      /\ root[new.side] \in Chunks \ new.tree /\ new.tree \subseteq Chunks /\ lock = "gc"
      /\ vlog.tree \subseteq Chunks /\ vlog.tail \in vlog.tree /\ root[vlog.side] \in Chunks
      /\ nxt \in [Chunks -> Chunks \cup {Nil}]
  BY <1>1, ChunkFacts
<1>3. /\ NewChunk \in Chunks /\ NewChunk \notin new.tree /\ NewChunk # root[new.side]
      /\ NewChunk \notin vlog.tree /\ NewChunk # root[vlog.side]
      /\ \A c \in Chunks \ {NewChunk} : id'[c] = id[c]
  BY <1>1, <1>2, TakenApart
<1>4. Path = nxt /\ Path' = nxt' /\ Alive(vlog) = vlog.tree
  BY <1>1, PathIs, PathNext
<1>5. /\ Linked(id, nxt, new.tree, new.tail, new.nextId, root[new.side])
      /\ Linked(id, nxt, vlog.tree, vlog.tail, vlog.nextId, root[vlog.side])
      /\ nxt[vlog.tail] = Nil
  BY <1>1, <1>4 DEF Chained
<1>6. /\ Linked(id', nxt', new.tree \cup {NewChunk}, NewChunk, new.nextId + 1, root[new.side])
      /\ nxt'[NewChunk] = Nil
  BY <1>1, <1>2, <1>3, <1>5, GrownChain
<1>7. /\ new'.side = new.side /\ new'.tree = new.tree \cup {NewChunk}
      /\ new'.tail = NewChunk /\ new'.nextId = new.nextId + 1
  BY <1>1, <1>2, <1>3, ExtendedIs
<1>8. Alive(vlog)' = vlog.tree
  BY <1>1 DEF ChunkInv, Marking, Alive
<1>9. \A c \in vlog.tree \cup {root[vlog.side]} : id'[c] = id[c] /\ nxt'[c] = nxt[c]
  BY <1>1, <1>2, <1>3, LogsApart
<1>10. Linked(id', nxt', vlog.tree, vlog.tail, vlog.nextId, root[vlog.side])
  BY <1>5, <1>9, LinkedSame
<1>11. nxt'[vlog.tail] = Nil
  BY <1>2, <1>5, <1>9
<1>12. QED BY <1>1, <1>4, <1>6, <1>7, <1>8, <1>10, <1>11 DEF Chained

LEMMA GcRootChain ==
  ASSUME ChunkInv, ChunkInv', Chained, GcRoot
  PROVE  Chained'
<1>1. /\ lock = "none" /\ at' = "first" /\ TakeChunk(NewChunk, Unborn)
      /\ nxt' = [nxt EXCEPT ![NewChunk] = Nil]
      /\ new'.tail = NewChunk /\ new'.nextId = 1
      /\ root' = root /\ vlog' = vlog
  BY DEF GcRoot, Unborn, NoLog, Goto, headVars
<1>2. /\ at = "out" /\ vlog.tree \subseteq Chunks /\ vlog.tail \in vlog.tree
      /\ root[vlog.side] \in Chunks /\ nxt \in [Chunks -> Chunks \cup {Nil}]
  BY <1>1, ChunkFacts
<1>3. Unborn.nextId = 0
  BY DEF Unborn, NoLog
<1>4. /\ NewChunk \in Chunks /\ NewChunk \notin vlog.tree /\ NewChunk # root[vlog.side]
      /\ \A c \in Chunks \ {NewChunk} : id'[c] = id[c]
      /\ id'[NewChunk] = 0
  BY <1>1, <1>3, TakenApart
<1>5. Path = nxt /\ Path' = nxt' /\ Alive(vlog) = vlog.tree
  BY <1>1, <1>2, PathIs, PathNext
<1>6. /\ Linked(id, nxt, vlog.tree, vlog.tail, vlog.nextId, root[vlog.side])
      /\ nxt[vlog.tail] = Nil
  BY <1>5 DEF Chained
<1>7. Alive(vlog)' = vlog.tree
  BY <1>1 DEF ChunkInv, Marking, Alive
<1>8. \A c \in vlog.tree \cup {root[vlog.side]} : id'[c] = id[c] /\ nxt'[c] = nxt[c]
  BY <1>1, <1>2, <1>4
<1>9. Linked(id', nxt', vlog.tree, vlog.tail, vlog.nextId, root[vlog.side])
  BY <1>6, <1>8, LinkedSame
<1>10. nxt'[vlog.tail] = Nil
  BY <1>2, <1>6, <1>8
<1>11. QED BY <1>1, <1>4, <1>5, <1>7, <1>9, <1>10 DEF Chained

LEMMA GcFirstChain ==
  ASSUME ChunkInv, ChunkInv', Chained, GcFirst
  PROVE  Chained'
<1>1. /\ at = "first" /\ at' = "visit" /\ TakeChunk(NewChunk, new) /\ new' = Extended(new)
      /\ nxt' = [nxt EXCEPT ![NewChunk] = Nil, ![new.tail] = NewChunk]
      /\ root' = [root EXCEPT ![new.side] = new.tail] /\ vlog' = vlog
  BY DEF GcFirst, Extend, Goto
<1>2. /\ new \in Logs /\ vlog \in Logs /\ lock = "gc" /\ new.tree = {}
      /\ vlog.tree \subseteq Chunks /\ vlog.tail \in vlog.tree /\ root[vlog.side] \in Chunks
      /\ nxt \in [Chunks -> Chunks \cup {Nil}] /\ id \in [Chunks -> Nat]
  BY <1>1, ChunkFacts
<1>3. /\ new.tail \in Chunks /\ new.side # vlog.side /\ new.side \in {0, 1} /\ vlog.side \in {0, 1}
      /\ root \in [{0, 1} -> Chunks \cup {Nil}]
  <2>1. new.tail \in Chunks /\ new.side = 1 - vlog.side
    BY <1>1, <1>2 DEF ChunkInv, Logs1, Sides
  <2>2. new.side \in {0, 1} /\ vlog.side \in {0, 1}
    BY <1>2 DEF Logs
  <2>3. root \in [{0, 1} -> Chunks \cup {Nil}]
    BY DEF ChunkInv, TypeOK
  <2>4. QED BY <2>1, <2>2, <2>3
<1>4. id[new.tail] = 0 /\ new.nextId = 1
  BY <1>1 DEF Chained
<1>5. /\ NewChunk \in Chunks /\ NewChunk \notin vlog.tree /\ NewChunk # root[vlog.side]
      /\ NewChunk # new.tail
      /\ \A c \in Chunks \ {NewChunk} : id'[c] = id[c]
      /\ id'[NewChunk] = 1
  BY <1>1, <1>2, <1>4, TakenApart
<1>6. Path = nxt /\ Path' = nxt' /\ Alive(vlog) = vlog.tree
  BY <1>1, PathIs, PathNext
<1>7. /\ Linked(id, nxt, vlog.tree, vlog.tail, vlog.nextId, root[vlog.side])
      /\ nxt[vlog.tail] = Nil
  BY <1>6 DEF Chained
<1>8. Alive(vlog)' = vlog.tree
  BY <1>1 DEF ChunkInv, Marking, Alive
<1>9. \A c \in vlog.tree \cup {root[vlog.side]} : id'[c] = id[c] /\ nxt'[c] = nxt[c]
  <2>1. new.tail \notin vlog.tree /\ new.tail # root[vlog.side]
    BY <1>1, LogsApart
  <2>2. QED BY <1>1, <1>2, <1>3, <1>5, <2>1
<1>10. Linked(id', nxt', vlog.tree, vlog.tail, vlog.nextId, root[vlog.side])
  BY <1>7, <1>9, LinkedSame
<1>11. nxt'[vlog.tail] = Nil /\ root'[vlog.side] = root[vlog.side] /\ root'[new.side] = new.tail
  BY <1>1, <1>2, <1>3, <1>7, <1>9
<1>12. /\ new'.side = new.side /\ new'.tree = {NewChunk}
       /\ new'.tail = NewChunk /\ new'.nextId = 2
  BY <1>1, <1>2, <1>4, <1>5, ExtendedIs
<1>13. Linked(id', nxt', {NewChunk}, NewChunk, 2, new.tail) /\ nxt'[NewChunk] = Nil
  <2> DEFINE n == NewChunk
             t == new.tail
  <2>1. /\ n \in Chunks /\ t \in Chunks /\ n # t /\ n # Nil
        /\ id'[n] = 1 /\ id'[t] = 0 /\ nxt'[n] = Nil /\ nxt'[t] = n
    BY <1>1, <1>2, <1>3, <1>4, <1>5, ChunkRange
  <2> HIDE DEF n, t
  <2>2. QED BY <2>1 DEF Linked, Follows, n, t
<1>14. QED BY <1>1, <1>6, <1>8, <1>10, <1>11, <1>12, <1>13 DEF Chained

LEMMA GcSwapChain ==
  ASSUME ChunkInv, ChunkInv', Chained, GcSwap
  PROVE  Chained'
<1>1. /\ at = "swap" /\ at' = "out" /\ vlog' = new /\ UNCHANGED <<nxt, id, root>>
  BY DEF GcSwap, Leave, chunkVars, headVars
<1>2. Path' = nxt'
  BY <1>1, PathNext
<1>3. Alive(vlog)' = new.tree
  BY <1>1 DEF ChunkInv, Marking, Alive
<1>4. QED BY <1>1, <1>2, <1>3 DEF Chained

(* fast_GC marks the highest empty chunk free; the path already passes it.  *)
LEMMA RetireChain ==
  ASSUME ChunkInv, ChunkInv', Chained, Retire
  PROVE  Chained'
<1> DEFINE x == Highest(Empty \ Retired)
           r == root[vlog.side]
<1>1. /\ at = "retire" /\ at' = "unlink" /\ Empty # Retired /\ id' = [id EXCEPT ![x] = 0]
      /\ UNCHANGED <<nxt, bits, root, vlog>>
  BY DEF Retire, Goto, headVars
<1>2. /\ vlog.tree \subseteq Chunks /\ vlog.nextId \in Nat /\ r \in Chunks \ vlog.tree
      /\ nxt \in [Chunks -> Chunks \cup {Nil}] /\ id \in [Chunks -> Nat]
  BY ChunkFacts
<1>3. x \in Empty \ Retired /\ x \in vlog.tree /\ bits[x] = {} /\ id[x] # 0
  <2>1. Retired \subseteq Empty /\ Empty \subseteq vlog.tree
    BY DEF Retired, Empty
  <2>2. (Empty \ Retired) \in SUBSET Chunks /\ Empty \ Retired # {}
    BY <1>1, <1>2, <2>1
  <2>3. x \in Empty \ Retired
    BY <2>2, HighestIn
  <2>4. QED BY <2>3 DEF Retired, Empty
<1> HIDE DEF x
<1>4. x # vlog.tail
  BY <1>1, <1>3 DEF ChunkInv, TailKept
<1>5. Path = nxt
  BY <1>1, PathIs
<1>6. Linked(id, nxt, Alive(vlog), vlog.tail, vlog.nextId, r) /\ nxt[vlog.tail] = Nil
  BY <1>5 DEF Chained
<1>7. Retired' = Retired \cup {x}
  <2>1. vlog' = vlog /\ bits' = bits /\ \A c \in vlog.tree : id'[c] = IF c = x THEN 0 ELSE id[c]
    BY <1>1, <1>2
  <2>2. Empty' = Empty
    BY <2>1 DEF Empty
  <2>3. QED BY <1>3, <2>1, <2>2 DEF Retired, Empty
<1>8. Going' = x
  <2>1. \A c \in Retired : x < c
    BY <1>3 DEF ChunkInv, Marking
  <2>2. Retired' \in SUBSET Nat /\ x \in Nat /\ x \in Retired'
    <3>1. Retired \subseteq Chunks /\ x \in Chunks
      BY <1>2, <1>3 DEF Retired, Empty
    <3>2. QED BY <1>7, <3>1, ChunkRange
  <2>3. Lowest(Retired') \in Retired' /\ Lowest(Retired') <= x
    BY <2>2, LowestIn
  <2>4. Lowest(Retired') = x
    <3> DEFINE l == Lowest(Retired')
    <3>1. l \in Nat /\ l <= x /\ (l \in Retired \/ l = x)
      BY <1>7, <2>2, <2>3
    <3> HIDE DEF l
    <3>2. l = x
      BY <2>1, <2>2, <3>1
    <3>3. QED BY <3>2 DEF l
  <2>5. QED BY <1>1, <2>4 DEF Going, Lowest
<1>9. Path' = [c \in Chunks |-> IF nxt[c] = x THEN nxt[x] ELSE nxt[c]]
  <2>1. x # Nil
    BY <1>2, <1>3, ChunkRange
  <2>2. QED BY <1>1, <1>8, <2>1 DEF Path
<1>10. Alive(vlog)' = Alive(vlog) \ {x} /\ x \in Alive(vlog) /\ Alive(vlog) \subseteq vlog.tree
  <2>1. vlog' = vlog /\ \A c \in vlog.tree : id'[c] = IF c = x THEN 0 ELSE id[c]
    BY <1>1, <1>2
  <2>2. QED BY <1>3, <2>1 DEF Alive
<1>11. /\ Linked([id EXCEPT ![x] = 0], Path', Alive(vlog) \ {x}, vlog.tail, vlog.nextId, r)
       /\ nxt[x] \in (Alive(vlog) \ {x}) \cup {Nil}
  <2> DEFINE A == Alive(vlog)
             t == vlog.tail
             k == vlog.nextId
  <2>1. /\ A \in SUBSET Chunks /\ k \in Nat /\ r \in Chunks \ A /\ x \in A /\ x # t
        /\ Linked(id, nxt, A, t, k, r) /\ t \in A
    BY <1>2, <1>4, <1>6, <1>10 DEF Linked
  <2> HIDE DEF A, t, k, r
  <2>2. /\ Linked([id EXCEPT ![x] = 0],
                  [c \in Chunks |-> IF nxt[c] = x THEN nxt[x] ELSE nxt[c]], A \ {x}, t, k, r)
        /\ nxt[x] \in (A \ {x}) \cup {Nil}
    BY <1>2, <2>1, LinkedLess
  <2>3. QED BY <1>9, <2>2 DEF A, t, k, r
<1>12. QED BY <1>1, <1>6, <1>8, <1>10, <1>11 DEF Chained

(* pre_lchunk names the predecessor, so that the chain becomes the path.    *)
LEMMA UnlinkChain ==
  ASSUME ChunkInv, ChunkInv', Chained, Unlink, ~astray'
  PROVE  Chained'
<1> DEFINE x == Lowest(Retired)
           p == pre[x]
           r == root[vlog.side]
<1>1. /\ at = "unlink" /\ at' = "retire" /\ nxt' = Relinked(x) /\ Preceded(x)
      /\ UNCHANGED <<id, root, vlog>>
  BY DEF Unlink, Goto, headVars
<1>2. /\ vlog.tree \subseteq Chunks /\ r \in Chunks \ vlog.tree /\ vlog.tail \in vlog.tree
      /\ nxt \in [Chunks -> Chunks \cup {Nil}] /\ id \in [Chunks -> Nat]
  BY ChunkFacts
<1>3. Going = x
  BY <1>1 DEF Going
<1> DEFINE A == Alive(vlog)
<1>4. /\ p \in Chunks /\ p # Nil /\ nxt[p] = x /\ p \in A \cup {r}
  <2>1. p \in InUse \ Retired /\ nxt[p] = x
    BY <1>1 DEF Preceded
  <2>2. p \in vlog.tree \cup {r}
    BY <2>1 DEF InUse
  <2>3. p \in Chunks /\ p # Nil
    BY <1>2, <2>2, ChunkRange
  <2>4. ASSUME p \in vlog.tree PROVE id[p] # 0
    <3>1. \A c \in vlog.tree : id[c] = 0 => bits[c] = {}
      BY DEF ChunkInv, Marking
    <3>2. QED BY <2>1, <2>4, <3>1 DEF Retired, Empty
  <2>5. QED BY <2>1, <2>2, <2>3, <2>4 DEF Alive
<1>5. x \in vlog.tree /\ x \in Chunks /\ x # Nil
  <2>1. Retired # {} /\ Retired \subseteq vlog.tree
    BY <1>1 DEF ChunkInv, Marking, Retired, Empty
  <2>2. Retired \in SUBSET Nat
    BY <1>2, <2>1, ChunkRange
  <2>3. x \in Retired
    BY <2>1, <2>2, LowestIn
  <2>4. QED BY <1>2, <2>1, <2>3, ChunkRange
<1> HIDE DEF x, p
<1>6. nxt' = [nxt EXCEPT ![p] = nxt[x]]
  BY <1>1, <1>4 DEF Relinked, p
<1>7. \A c \in Chunks : Path[c] = IF nxt[c] = x THEN nxt[x] ELSE nxt[c]
  BY <1>3, <1>5 DEF Path
<1>8. /\ Linked(id, Path, A, vlog.tail, vlog.nextId, r) /\ nxt[vlog.tail] = Nil
      /\ A \in SUBSET Chunks /\ r \in Chunks \ A
  BY <1>2 DEF Chained, Alive
<1>9. ASSUME NEW c \in A \cup {r} PROVE nxt'[c] = Path[c]
  <2>1. c \in Chunks
    BY <1>2, <1>8
  <2>2. CASE c = p
    BY <1>2, <1>4, <1>6, <1>7, <2>1, <2>2
  <2>3. CASE c # p
    <3>1. nxt[c] # x
      <4>1. SUFFICES ASSUME nxt[c] = x PROVE FALSE
        OBVIOUS
      <4>2. Path[c] = Path[p]
        BY <1>4, <1>7, <2>1, <4>1
      <4> HIDE DEF A, r
      <4>3. c = p
        BY <1>2, <1>4, <1>8, <4>2, OneBefore
      <4>4. QED BY <2>3, <4>3
    <3>2. QED BY <1>2, <1>4, <1>6, <1>7, <2>1, <2>3, <3>1
  <2>4. QED BY <2>2, <2>3
<1>10. Linked(id, nxt', A, vlog.tail, vlog.nextId, r)
  <2> HIDE DEF A, r
  <2>1. QED BY <1>8, <1>9, LinkedSame
<1>11. Path' = nxt'
  BY <1>1, PathNext
<1>12. nxt'[vlog.tail] = Nil
  BY <1>2, <1>4, <1>5, <1>6, <1>8
<1>13. Alive(vlog)' = A
  BY <1>1 DEF Alive
<1>14. QED BY <1>1, <1>10, <1>11, <1>12, <1>13 DEF Chained

(* The chunks that fast_GC takes out of the tree are those marked free.     *)
LEMMA FastDoneChain ==
  ASSUME ChunkInv, ChunkInv', Chained, FastDone
  PROVE  Chained'
<1>1. /\ at = "retire" /\ at' \in {"item", "out"} /\ Empty = Retired
      /\ UNCHANGED <<nxt, id, root>>
      /\ vlog' = [vlog EXCEPT !.tree = @ \ Empty,
                              !.chunks = @ - Cardinality(Empty),
                              !.items = Fewer(NItems * Cardinality(Empty))]
  BY DEF FastDone, Finish, Leave, chunkVars, headVars
<1>2. vlog \in Logs
  BY ChunkFacts
<1>3. /\ vlog'.tree = vlog.tree \ Empty /\ vlog'.tail = vlog.tail /\ vlog'.side = vlog.side
      /\ vlog'.nextId = vlog.nextId
  BY <1>1, <1>2 DEF Logs
<1>4. Path = nxt /\ Path' = nxt'
  BY <1>1, PathIs, PathNext
<1>5. Alive(vlog)' = Alive(vlog)
  BY <1>1, <1>3 DEF Alive, Retired
<1>6. QED BY <1>1, <1>3, <1>4, <1>5 DEF Chained

-----------------------------------------------------------------------------
(* The records: one lemma per action that touches one *)

Records3 == Recorded' /\ Ending' /\ Waiting'

LEMMA FreeBeginRecords ==
  ASSUME ChunkInv, Sound, NEW t \in Threads, NEW a \in Addrs, FreeBegin(t, a)
  PROVE  Records3
<1>1. /\ freeing[t] = NoRef /\ a \in held /\ held' = held \ {a}
      /\ freeing' = [freeing EXCEPT ![t] = extLog[a]]
      /\ \A b \in Addrs \ {a} : extLog'[b] = extLog[b]
      /\ UNCHANGED <<item, bits, vlog, new, moved>>
  <2>1. extLog' \in {extLog, [extLog EXCEPT ![a] = NoRef]} /\ extLog \in [Addrs -> Refs \cup {NoRef}]
    BY ChunkFacts DEF FreeBegin
  <2>2. \A b \in Addrs \ {a} : extLog'[b] = extLog[b]
    BY <2>1
  <2>3. QED BY <2>2 DEF FreeBegin, fileVars, chunkVars, gcVars, walkVars
<1>2. /\ Recorded /\ Ending /\ Waiting
      /\ freeing \in [Threads -> Refs \cup {NoRef}] /\ held \subseteq Addrs /\ moved \subseteq Threads
  BY ChunkFacts DEF Sound
<1>3. \A r : Kept(r)' <=> Kept(r)
  BY <1>1 DEF Kept
<1>4. t \notin moved
  BY <1>1, <1>2 DEF Waiting
<1>5. Kept(extLog[a]) /\ extLog[a] # NoRef /\ item[extLog[a][1]][extLog[a][2]] = Normal(a)
  BY <1>1, <1>2, HeldPlace
<1>6. \A b \in held' : b \in held /\ extLog'[b] = extLog[b] /\ b # a
  BY <1>1, <1>2
<1>7. Recorded'
  BY <1>1, <1>2, <1>3, <1>6 DEF Recorded
<1>8. \A b \in held' : extLog'[b] # extLog[a]
  <2>1. \A b \in held' : item[extLog[b][1]][extLog[b][2]] = Normal(b) /\ b # a /\ extLog'[b] = extLog[b]
    BY <1>2, <1>6 DEF Recorded
  <2>2. \A b \in held' : Normal(b).addr = b
    BY DEF Normal
  <2>3. Normal(a).addr = a
    BY DEF Normal
  <2>4. QED BY <1>5, <2>1, <2>2, <2>3
<1>9. Ending'
  <2>1. ASSUME NEW u \in Threads \ moved', freeing'[u] # NoRef
        PROVE  /\ Kept(freeing[u])'
               /\ \A b \in held' : extLog'[b] # freeing'[u]
               /\ \A w \in Threads \ moved' : w # u => freeing'[w] # freeing'[u]
    <3>1. CASE u = t
      <4>1. freeing'[u] = extLog[a] /\ \A w \in Threads : w # u => freeing'[w] = freeing[w]
        BY <1>1, <1>2, <3>1
      <4>2. \A w \in Threads \ moved : w # u => freeing[w] # extLog[a]
        BY <1>1, <1>2, <1>5 DEF Ending
      <4>3. QED BY <1>1, <1>3, <1>5, <1>8, <4>1, <4>2
    <3>2. CASE u # t
      <4>1. /\ freeing'[u] = freeing[u] /\ freeing[u] # NoRef
            /\ freeing'[t] = extLog[a]
            /\ \A w \in Threads : w # t => freeing'[w] = freeing[w]
        BY <1>1, <1>2, <2>1, <3>2
      <4>2. /\ Kept(freeing[u]) /\ \A b \in held : extLog[b] # freeing[u]
            /\ \A w \in Threads \ moved : w # u => freeing[w] # freeing[u]
        BY <1>1, <1>2, <2>1, <4>1 DEF Ending
      <4>3. QED BY <1>1, <1>3, <1>6, <4>1, <4>2
    <3>3. QED BY <3>1, <3>2
  <2>2. QED BY <2>1 DEF Ending
<1>10. Waiting'
  BY <1>1, <1>2, <1>4 DEF Waiting
<1>11. QED BY <1>7, <1>9, <1>10 DEF Records3

(* A thread has ended the item it was to end: the bits of all others stay.  *)
LEMMA EndedRecords ==
  ASSUME ChunkInv, Sound, NEW t \in Threads \ moved, freeing[t] # NoRef,
         freeing' = [freeing EXCEPT ![t] = NoRef],
         UNCHANGED <<extLog, held, moved>>,
         \A r \in Refs : Kept(r) /\ r # freeing[t] =>
           Kept(r)' /\ item'[r[1]][r[2]] = item[r[1]][r[2]]
  PROVE  Records3
<1>1. /\ Recorded /\ Ending /\ Waiting
      /\ freeing \in [Threads -> Refs \cup {NoRef}] /\ held \subseteq Addrs /\ moved \subseteq Threads
  BY ChunkFacts DEF Sound
<1>2. \A a \in held : extLog[a] # freeing[t]
  BY <1>1 DEF Ending
<1>3. Recorded'
  <2>1. \A a \in held : extLog[a] \in Refs /\ Kept(extLog[a])
    BY <1>1, HeldPlace
  <2>2. QED BY <1>1, <1>2, <2>1 DEF Recorded
<1>4. Ending'
  <2>1. ASSUME NEW u \in Threads \ moved', freeing'[u] # NoRef
        PROVE  /\ Kept(freeing[u])'
               /\ \A b \in held' : extLog'[b] # freeing'[u]
               /\ \A w \in Threads \ moved' : w # u => freeing'[w] # freeing'[u]
    <3>1. u # t /\ freeing'[u] = freeing[u] /\ u \in Threads \ moved /\ freeing'[t] = NoRef
      BY <1>1, <2>1
    <3>2. /\ Kept(freeing[u]) /\ \A b \in held : extLog[b] # freeing[u]
          /\ \A w \in Threads \ moved : w # u => freeing[w] # freeing[u]
      BY <1>1, <2>1, <3>1 DEF Ending
    <3>3. freeing[u] \in Refs
      BY <1>1, <2>1, <3>1
    <3>4. Kept(freeing[u])'
      BY <3>1, <3>2, <3>3
    <3>5. \A w \in Threads \ moved : w # u => freeing'[w] # freeing'[u]
      BY <1>1, <2>1, <3>1, <3>2
    <3>6. QED BY <3>1, <3>2, <3>4, <3>5
  <2>2. QED BY <2>1 DEF Ending
<1>5. Waiting'
  BY <1>1 DEF Waiting
<1>6. QED BY <1>3, <1>4, <1>5 DEF Records3

LEMMA FreeRemoteRecords ==
  ASSUME ChunkInv, Sound, NEW t \in Threads, FreeRemote(t)
  PROVE  Records3
<1>1. /\ freeing[t] # NoRef /\ t \notin moved /\ bits' = Cleared(freeing[t])
      /\ freeing' = [freeing EXCEPT ![t] = NoRef]
      /\ UNCHANGED <<extLog, held, moved, item, vlog, new>>
  BY DEF FreeRemote, Misses, gcVars, walkVars
<1>2. freeing[t] \in Refs /\ TypeChunk
  BY <1>1, ChunkFacts, TypeParts DEF ChunkInv
<1>3. \A c \in Chunks : bits'[c] = IF c = freeing[t][1] THEN bits[c] \ {freeing[t][2]} ELSE bits[c]
  BY <1>1, <1>2, ClearTypes
<1>4. ASSUME NEW r \in Refs, Kept(r), r # freeing[t]
      PROVE  Kept(r)' /\ item'[r[1]][r[2]] = item[r[1]][r[2]]
  <2>1. r[1] \in Chunks /\ ~(r[1] = freeing[t][1] /\ r[2] = freeing[t][2])
    BY <1>2, <1>4 DEF Refs
  <2>2. QED BY <1>1, <1>3, <1>4, <2>1 DEF Kept
<1>5. QED BY <1>1, <1>4, EndedRecords

LEMMA WriteFreeRecords ==
  ASSUME ChunkInv, Sound, WriteFree
  PROVE  Records3
<1> DEFINE t == lock
           c == vlog.tail
           x == Tomb(job.ref, Version(job.ref[1]))
<1>1. /\ at = "item" /\ ~Full(c) /\ t \in Threads \ moved /\ job.type = "free"
      /\ Append1(c, x) /\ bits' = SetBit(Cleared(job.ref), Place(c))
      /\ freeing' = [freeing EXCEPT ![t] = NoRef]
      /\ UNCHANGED <<extLog, held, moved, vlog, new>>
  BY DEF WriteFree, Misses, gcVars, walkVars
<1>2. freeing[t] # NoRef /\ job.ref = freeing[t] /\ freeing[t] \in Refs /\ TypeChunk
  BY <1>1, ChunkFacts, TypeParts DEF ChunkInv, Holder
<1>3. x \in Items
  <2>1. Version(job.ref[1]) \in 0 .. VersionMod - 1
    BY <1>2, BookLogAssumption DEF Refs, TypeChunk, Version
  <2>2. QED BY <1>2, <2>1 DEF Items, Tomb
<1>4. c \in Chunks /\ Place(c) \in Refs
  BY <1>1, <1>2, ChunkFacts, PlaceIn
<1> HIDE DEF c, x, t
<1>5. \A r \in Refs : item[r[1]][r[2]] # Blank => item'[r[1]][r[2]] = item[r[1]][r[2]]
  BY <1>1, <1>3, <1>4, AppendPlace
<1>6. \A d \in Chunks : Cleared(freeing[t])[d] \subseteq bits'[d]
  <2>1. Cleared(freeing[t]) \in [Chunks -> SUBSET Slots] /\ bits' = SetBit(Cleared(freeing[t]), Place(c))
    BY <1>1, <1>2, ClearTypes
  <2>2. \A d \in Chunks : bits'[d] = IF d = Place(c)[1] THEN Cleared(freeing[t])[d] \cup {Place(c)[2]}
                                   ELSE Cleared(freeing[t])[d]
    <3> DEFINE f == Cleared(freeing[t])
               q == Place(c)
    <3>1. f \in [Chunks -> SUBSET Slots] /\ bits' = SetBit(f, q) /\ q[1] \in Chunks
      BY <1>4, <2>1 DEF Refs
    <3> HIDE DEF f, q
    <3>2. bits' = [f EXCEPT ![q[1]] = f[q[1]] \cup {q[2]}]
      BY <3>1 DEF SetBit
    <3>3. \A d \in Chunks : bits'[d] = IF d = q[1] THEN f[d] \cup {q[2]} ELSE f[d]
      BY <3>1, <3>2
    <3>4. QED BY <3>3 DEF f, q
  <2>3. QED BY <2>2
<1>7. ASSUME NEW r \in Refs, Kept(r), r # freeing[t]
      PROVE  Kept(r)' /\ item'[r[1]][r[2]] = item[r[1]][r[2]]
  <2>1. r[1] \in Chunks /\ ~(r[1] = freeing[t][1] /\ r[2] = freeing[t][2])
    BY <1>2, <1>7 DEF Refs
  <2>2. r[2] \in Cleared(freeing[t])[r[1]]
    BY <1>2, <1>7, <2>1, ClearTypes DEF Kept
  <2>3. r[2] \in bits'[r[1]] /\ item'[r[1]][r[2]] = item[r[1]][r[2]]
    BY <1>5, <1>6, <1>7, <2>1, <2>2 DEF Kept
  <2>4. QED BY <1>1, <1>7, <2>3 DEF Kept
<1>8. QED BY <1>1, <1>2, <1>7, EndedRecords

(* An item goes to the next place of a chunk c of a log in use; the extent  *)
(* a, if it is one's record, points there.                                  *)
LEMMA PlacedKeeps ==
  ASSUME ChunkInv, NEW c \in vlog.tree \cup new.tree, ~Full(c), NEW x \in Items, x # Blank,
         Append1(c, x), bits' = SetBit(bits, Place(c)),
         vlog'.tree \cup new'.tree = vlog.tree \cup new.tree, NEW p, p = Place(c)
  PROVE  /\ p \in Refs /\ Kept(p)' /\ item'[p[1]][p[2]] = x
         /\ \A r \in Refs : Kept(r) =>
              r # p /\ Kept(r)' /\ item'[r[1]][r[2]] = item[r[1]][r[2]]
<1>1. c \in Chunks /\ TypeChunk /\ bits \in [Chunks -> SUBSET Slots]
  BY ChunkFacts, TypeParts DEF ChunkInv
<1>2. p \in Refs /\ p[1] = c /\ p[2] = Index(cnt[c])
  BY <1>1, PlaceIn DEF Place
<1>3. /\ item'[c][Index(cnt[c])] = x
      /\ \A r \in Refs : item[r[1]][r[2]] # Blank =>
           r # p /\ item'[r[1]][r[2]] = item[r[1]][r[2]]
  BY <1>1, AppendPlace
<1>4. \A d \in Chunks : bits'[d] = IF d = p[1] THEN bits[d] \cup {p[2]} ELSE bits[d]
  <2>1. bits' = SetBit(bits, p)
    OBVIOUS
  <2>2. QED BY <1>1, <1>2, <2>1 DEF SetBit
<1>5. item'[p[1]][p[2]] = x
  BY <1>2, <1>3
<1>6. Kept(p)'
  BY <1>1, <1>2, <1>4, <1>5 DEF Kept
<1>7. ASSUME NEW r \in Refs, Kept(r)
      PROVE  r # p /\ Kept(r)' /\ item'[r[1]][r[2]] = item[r[1]][r[2]]
  <2>1. r[1] \in Chunks /\ r[2] \in bits'[r[1]]
    BY <1>4, <1>7 DEF Kept, Refs
  <2>2. QED BY <1>3, <1>7, <2>1 DEF Kept
<1>8. QED BY <1>2, <1>5, <1>6, <1>7

LEMMA WriteTombRecords ==
  ASSUME ChunkInv, Sound, WriteTomb
  PROVE  Records3
<1>1. /\ at = "item" /\ lock = "flusher" /\ ~Full(vlog.tail) /\ Append1(vlog.tail, job)
      /\ bits' = SetBit(bits, Place(vlog.tail))
      /\ UNCHANGED <<extLog, held, freeing, moved, vlog, new>>
  BY DEF WriteTomb, userVars, gcVars, walkVars
<1>2. vlog.tail \in vlog.tree /\ job \in Items /\ job # Blank
  <2>1. job \in Items /\ vlog.tail \in vlog.tree
    BY ChunkFacts DEF ChunkInv, TypeOK
  <2>2. job.type \in {"normal", "free"}
    BY <1>1 DEF ChunkInv, Holder
  <2>3. QED BY <2>1, <2>2 DEF Blank
<1>3. \A r \in Refs : Kept(r) => Kept(r)' /\ item'[r[1]][r[2]] = item[r[1]][r[2]]
  BY <1>1, <1>2, PlacedKeeps
<1>4. /\ Recorded /\ Ending /\ Waiting
      /\ freeing \in [Threads -> Refs \cup {NoRef}] /\ held \subseteq Addrs
  BY ChunkFacts DEF Sound
<1>5. Recorded'
  <2>1. \A a \in held : extLog[a] \in Refs /\ Kept(extLog[a])
    BY <1>4, HeldPlace
  <2>2. QED BY <1>1, <1>3, <1>4, <2>1 DEF Recorded
<1>6. Ending' /\ Waiting'
  BY <1>1, <1>3, <1>4 DEF Ending, Waiting
<1>7. QED BY <1>5, <1>6 DEF Records3

(* Extent a's record is the item just placed.                               *)
LEMMA PlacedRecords ==
  ASSUME ChunkInv, Sound, NEW c \in vlog.tree \cup new.tree, ~Full(c), NEW a \in Addrs,
         Append1(c, Normal(a)), bits' = SetBit(bits, Place(c)),
         extLog' = [extLog EXCEPT ![a] = Place(c)], held' \subseteq held \cup {a},
         vlog'.tree \cup new'.tree = vlog.tree \cup new.tree,
         UNCHANGED <<freeing, moved>>
  PROVE  Records3
<1>1. Normal(a) \in Items /\ Normal(a) # Blank
  BY DEF Normal, Items, Blank
<1>0. PICK p : p = Place(c)
  OBVIOUS
<1>2. /\ Kept(p)' /\ item'[p[1]][p[2]] = Normal(a) /\ p \in Refs
      /\ \A r \in Refs : Kept(r) =>
           r # p /\ Kept(r)' /\ item'[r[1]][r[2]] = item[r[1]][r[2]]
  BY <1>0, <1>1, PlacedKeeps
<1>3. /\ Recorded /\ Ending /\ Waiting
      /\ extLog \in [Addrs -> Refs \cup {NoRef}]
      /\ freeing \in [Threads -> Refs \cup {NoRef}] /\ held \subseteq Addrs
  BY ChunkFacts DEF Sound
<1>4. \A b \in held : extLog[b] \in Refs /\ Kept(extLog[b]) /\ item[extLog[b][1]][extLog[b][2]] = Normal(b)
  BY <1>3, HeldPlace
<1>5. \A b \in held' : IF b = a THEN extLog'[b] = p ELSE extLog'[b] = extLog[b] /\ b \in held
  BY <1>0, <1>3
<1>6. Recorded'
  BY <1>2, <1>4, <1>5 DEF Recorded
<1>7. Ending'
  BY <1>2, <1>3, <1>5 DEF Ending
<1>8. Waiting'
  BY <1>3 DEF Waiting
<1>9. QED BY <1>6, <1>7, <1>8 DEF Records3

LEMMA WriteNormalRecords ==
  ASSUME ChunkInv, Sound, WriteNormal
  PROVE  Records3
<1>1. /\ at = "item" /\ ~Full(vlog.tail) /\ job.type = "normal" /\ Append1(vlog.tail, job)
      /\ bits' = SetBit(bits, Place(vlog.tail))
      /\ vlog' = [vlog EXCEPT !.items = (@ + 1) % SizeMod]
      /\ extLog' = [extLog EXCEPT ![job.addr] = Place(vlog.tail)]
      /\ held' = held \cup {job.addr}
      /\ UNCHANGED <<freeing, moved, new>>
  BY DEF WriteNormal, gcVars, walkVars
<1>2. vlog \in Logs /\ vlog.tail \in vlog.tree /\ job \in Items
  BY ChunkFacts DEF ChunkInv, TypeOK
<1>3. vlog'.tree = vlog.tree
  BY <1>1, <1>2 DEF Logs
<1>4. job.addr \in Addrs /\ job = Normal(job.addr)
  BY <1>1, <1>2 DEF Items, Blank, Normal
<1> DEFINE a == job.addr
<1>5. a \in Addrs /\ Append1(vlog.tail, Normal(a)) /\ extLog' = [extLog EXCEPT ![a] = Place(vlog.tail)]
      /\ held' \subseteq held \cup {a}
  BY <1>1, <1>4
<1> HIDE DEF a
<1>6. vlog'.tree \cup new'.tree = vlog.tree \cup new.tree
  BY <1>1, <1>3
<1>7. QED BY <1>1, <1>2, <1>5, <1>6, PlacedRecords

(* The item slow_GC is about to copy.                                       *)
LEMMA MarkedItem ==
  ASSUME ChunkInv, at = "copy", marks # {}
  PROVE  /\ cursor \in vlog.tree /\ Lowest(marks) \in marks
         /\ Owner \in Addrs /\ item[cursor][Lowest(marks)] = Normal(Owner)
<1>1. /\ cursor \in vlog.tree /\ \A i \in marks : item[cursor][i].type = "normal"
      /\ cursor \in Chunks
  BY ChunkFacts DEF ChunkInv, Looking
<1>2. marks \subseteq Slots /\ Slots \subseteq Nat
  BY ChunkFacts DEF Slots
<1>3. Lowest(marks) \in marks
  BY <1>2, LowestIn
<1>4. item[cursor][Lowest(marks)] \in Items
  BY <1>1, <1>2, <1>3, ChunkFacts
<1>5. QED BY <1>1, <1>3, <1>4 DEF Items, Blank, Owner, Normal

LEMMA GcCopyRecords ==
  ASSUME ChunkInv, Sound, GcCopy
  PROVE  Records3
<1>1. /\ at = "copy" /\ marks # {} /\ ~Full(new.tail) /\ Append1(new.tail, Normal(Owner))
      /\ bits' = SetBit(bits, Place(new.tail))
      /\ new' = [new EXCEPT !.items = (@ + 1) % SizeMod]
      /\ extLog' = [extLog EXCEPT ![Owner] = Place(new.tail)]
      /\ UNCHANGED <<held, freeing, moved, vlog>>
  BY DEF GcCopy, Redirected
<1>2. new \in Logs /\ new.tail \in new.tree
  BY <1>1, ChunkFacts
<1>3. new'.tree = new.tree
  BY <1>1, <1>2 DEF Logs
<1>4. Owner \in Addrs
  BY <1>1, MarkedItem
<1> DEFINE a == Owner
<1> HIDE DEF a
<1>5. a \in Addrs /\ Append1(new.tail, Normal(a)) /\ extLog' = [extLog EXCEPT ![a] = Place(new.tail)]
  BY <1>1, <1>4 DEF a
<1>6. vlog'.tree \cup new'.tree = vlog.tree \cup new.tree /\ held' \subseteq held \cup {a}
  BY <1>1, <1>3
<1>7. QED BY <1>1, <1>2, <1>5, <1>6, PlacedRecords

LEMMA GcSwapRecords ==
  ASSUME ChunkInv, Sound, GcSwap
  PROVE  Records3
<1>1. /\ at = "swap" /\ vlog' = new /\ new' = NoLog
      /\ moved' = moved \cup {t \in Threads : freeing[t] # NoRef /\ freeing[t][1] \in vlog.tree}
      /\ UNCHANGED <<item, bits, extLog, held, freeing>>
  BY DEF GcSwap, chunkVars
<1>2. Recorded /\ Ending /\ Waiting /\ lock = "gc" /\ moved \subseteq Threads
  BY <1>1, ChunkFacts DEF Sound
<1>3. \A a \in held : extLog[a][1] \in new.tree
  BY <1>1, <1>2 DEF Sound, Walking, Ahead
<1>4. Recorded'
  BY <1>1, <1>2, <1>3 DEF Recorded, Kept
<1>5. Ending'
  BY <1>1, <1>2 DEF Ending, Kept
<1>6. Waiting'
  BY <1>1, <1>2 DEF Waiting
<1>7. QED BY <1>4, <1>5, <1>6 DEF Records3

-----------------------------------------------------------------------------
(* The walk of slow_GC: one lemma per action of it *)

LEMMA AwayWalks ==
  ASSUME ChunkInv', lock' # "gc"
  PROVE  Walking'
BY DEF ChunkInv, Holder, Walking

LEMMA FreeBeginWalks ==
  ASSUME ChunkInv, Walking, NEW t \in Threads, NEW a \in Addrs, FreeBegin(t, a)
  PROVE  Walking'
<1>1. /\ held' = held \ {a} /\ UNCHANGED <<lock, at, cursor, marks, id, vlog, new>>
      /\ \A b \in Addrs \ {a} : extLog'[b] = extLog[b]
  <2>1. extLog' \in {extLog, [extLog EXCEPT ![a] = NoRef]} /\ extLog \in [Addrs -> Refs \cup {NoRef}]
    BY ChunkFacts DEF FreeBegin
  <2>2. \A b \in Addrs \ {a} : extLog'[b] = extLog[b]
    BY <2>1
  <2>3. QED BY <2>2 DEF FreeBegin, fileVars, chunkVars, gcVars, walkVars, procVars
<1>2. \A b \in held' : b \in held /\ extLog'[b] = extLog[b]
  BY <1>1, ChunkFacts
<1>3. QED BY <1>1, <1>2 DEF Walking, Ahead

LEMMA GcRootWalks ==
  ASSUME GcRoot
  PROVE  Walking'
BY DEF GcRoot, Goto, Walking, Ahead

LEMMA GcFirstWalks ==
  ASSUME ChunkInv, ChunkInv', Sound, GcFirst
  PROVE  Walking'
<1>1. /\ at = "first" /\ at' = "visit" /\ TakeChunk(NewChunk, new)
      /\ cursor' = nxt[root[alt]] /\ UNCHANGED <<extLog, held, vlog>>
  BY DEF GcFirst, Extend, Goto, userVars
<1>2. /\ new \in Logs /\ vlog.tree \subseteq Chunks /\ new.tree = {} /\ vlog.side = alt
      /\ id \in [Chunks -> Nat]
  BY <1>1, ChunkFacts DEF ChunkInv, Sides
<1>3. \A c \in vlog.tree : id'[c] = id[c]
  <2>1. new.nextId \in Nat
    BY <1>2 DEF Logs
  <2>2. QED BY <1>1, <1>2, <2>1, TakenApart
<1>4. Linked(id, nxt, vlog.tree, vlog.tail, vlog.nextId, root[alt])
  BY <1>1, <1>2, PathIs DEF Sound, Chained
<1>5. /\ Follows(id, vlog.tree, root[alt], cursor')
      /\ \A c \in vlog.tree : id[root[alt]] < id[c]
  BY <1>1, <1>4 DEF Linked
<1>6. cursor' \in vlog.tree \cup {Nil}
  BY <1>5 DEF Follows
<1>7. \A c \in vlog.tree : cursor' # Nil /\ id[cursor'] <= id[c]
  BY <1>5 DEF Follows
<1>8. \A a \in held : extLog[a][1] \in vlog.tree
  BY <1>2 DEF Sound, Recorded, Kept
<1>9. \A c \in vlog.tree : cursor' # Nil /\ id'[cursor'] <= id'[c]
  BY <1>3, <1>6, <1>7
<1>10. QED BY <1>1, <1>6, <1>8, <1>9 DEF Walking, Ahead

LEMMA GcVisitWalks ==
  ASSUME ChunkInv, Sound, GcVisit
  PROVE  Walking'
<1>1. /\ at = "visit" /\ at' = "copy" /\ cursor \in vlog.tree /\ marks' = Counting(cursor)
      /\ UNCHANGED <<extLog, held, vlog, new, id, cursor, lock>>
  BY DEF GcVisit, Goto, userVars, fileVars, chunkVars
<1>2. /\ vlog.tree \subseteq Chunks /\ id \in [Chunks -> Nat] /\ lock = "gc"
      /\ Linked(id, nxt, vlog.tree, vlog.tail, vlog.nextId, root[vlog.side])
  BY <1>1, ChunkFacts, PathIs DEF Sound, Chained
<1>3. \A c, d \in vlog.tree : id[c] = id[d] => c = d
  BY <1>2 DEF Linked
<1>4. ASSUME NEW a \in held, extLog[a][1] \notin new.tree
      PROVE  \/ id[cursor] < id[extLog[a][1]]
             \/ extLog[a][1] = cursor /\ extLog[a][2] \in marks'
  <2>1. id[cursor] <= id[extLog[a][1]]
    BY <1>1, <1>2, <1>4 DEF Sound, Walking, Ahead
  <2>2. /\ extLog[a][1] \in vlog.tree /\ extLog[a][2] \in bits[extLog[a][1]]
        /\ item[extLog[a][1]][extLog[a][2]].type = "normal"
    <3>1. Kept(extLog[a]) /\ item[extLog[a][1]][extLog[a][2]] = Normal(a)
      BY DEF Sound, Recorded
    <3>2. Normal(a).type = "normal"
      BY DEF Normal
    <3>3. QED BY <1>4, <3>1, <3>2 DEF Kept
  <2>3. id[cursor] < id[extLog[a][1]] \/ extLog[a][1] = cursor
    BY <1>1, <1>2, <1>3, <2>1, <2>2
  <2>4. extLog[a][1] = cursor => extLog[a][2] \in marks'
    BY <1>1, <2>2 DEF Counting
  <2>5. QED BY <2>3, <2>4
<1>5. QED BY <1>1, <1>4 DEF Walking, Ahead

LEMMA GcGrowWalks ==
  ASSUME ChunkInv, Sound, GcGrow
  PROVE  Walking'
<1>1. /\ at = "copy" /\ TakeChunk(NewChunk, new) /\ new' = Extended(new)
      /\ UNCHANGED <<extLog, held, vlog, cursor, marks, lock, at>>
  BY DEF GcGrow, Extend, userVars, procVars
<1>2. /\ vlog.tree \subseteq Chunks /\ lock = "gc" /\ new \in Logs /\ cursor \in vlog.tree
  BY <1>1, ChunkFacts DEF ChunkInv, Looking
<1>3. NewChunk \in Chunks /\ \A c \in vlog.tree : id'[c] = id[c]
  <2>1. new.nextId \in Nat
    BY <1>2 DEF Logs
  <2>2. QED BY <1>1, <1>2, <2>1, TakenApart
<1>4. new.tree \subseteq new'.tree
  BY <1>1, <1>2, <1>3, ExtendedIs
<1>5. \A a \in held : extLog[a][1] \notin new.tree => extLog[a][1] \in vlog.tree
  BY DEF Sound, Recorded, Kept
<1>6. QED BY <1>1, <1>2, <1>3, <1>4, <1>5 DEF Sound, Walking, Ahead

LEMMA GcCopyWalks ==
  ASSUME ChunkInv, Sound, GcCopy
  PROVE  Walking'
<1> DEFINE o == Owner
           l == Lowest(marks)
<1>1. /\ at = "copy" /\ marks # {} /\ extLog[o] = <<cursor, l>>
      /\ new' = [new EXCEPT !.items = (@ + 1) % SizeMod]
      /\ extLog' = [extLog EXCEPT ![o] = Place(new.tail)] /\ marks' = marks \ {l}
      /\ UNCHANGED <<id, held, vlog, cursor, lock, at>>
  BY DEF GcCopy, Redirected, Marked, Append1, procVars
<1>2. /\ new \in Logs /\ new.tail \in new.tree /\ lock = "gc" /\ held \subseteq Addrs
      /\ extLog \in [Addrs -> Refs \cup {NoRef}]
  BY <1>1, ChunkFacts
<1>3. o \in Addrs /\ item[cursor][l] = Normal(o)
  BY <1>1, MarkedItem
<1>4. new'.tree = new.tree
  BY <1>1, <1>2 DEF Logs
<1> HIDE DEF o, l
<1>5. ASSUME NEW a \in held, extLog'[a][1] \notin new.tree
      PROVE  \/ id[cursor] < id[extLog'[a][1]]
             \/ extLog'[a][1] = cursor /\ extLog'[a][2] \in marks'
  <2>1. a # o
    <3>1. extLog'[o][1] = new.tail
      BY <1>1, <1>2, <1>3 DEF Place
    <3>2. QED BY <1>2, <1>5, <3>1
  <2>2. extLog'[a] = extLog[a]
    BY <1>1, <1>2, <2>1
  <2>3. \/ id[cursor] < id[extLog[a][1]]
        \/ extLog[a][1] = cursor /\ extLog[a][2] \in marks
    BY <1>1, <1>2, <1>5, <2>2 DEF Sound, Walking, Ahead
  <2>4. ~(extLog[a][1] = cursor /\ extLog[a][2] = l)
    <3>1. item[extLog[a][1]][extLog[a][2]] = Normal(a)
      BY DEF Sound, Recorded
    <3>2. Normal(a).addr = a /\ Normal(o).addr = o
      BY DEF Normal
    <3>3. QED BY <1>3, <2>1, <3>1, <3>2
  <2>5. QED BY <1>1, <2>2, <2>3, <2>4
<1>6. QED BY <1>1, <1>4, <1>5 DEF Walking, Ahead

LEMMA GcAdvanceWalks ==
  ASSUME ChunkInv, Sound, GcAdvance
  PROVE  Walking'
<1>1. /\ at = "copy" /\ at' = "visit" /\ marks = {} /\ cursor' = nxt[cursor]
      /\ UNCHANGED <<extLog, held, vlog, new, id, lock>>
  BY DEF GcAdvance, Goto, userVars, fileVars, chunkVars
<1>2. /\ vlog.tree \subseteq Chunks /\ lock = "gc" /\ cursor \in vlog.tree
      /\ Linked(id, nxt, vlog.tree, vlog.tail, vlog.nextId, root[vlog.side])
  BY <1>1, ChunkFacts, PathIs DEF Sound, Chained, ChunkInv, Looking
<1>3. Follows(id, vlog.tree, cursor, cursor')
  BY <1>1, <1>2 DEF Linked
<1>4. cursor' \in vlog.tree \cup {Nil}
  BY <1>3 DEF Follows
<1>5. ASSUME NEW a \in held, extLog[a][1] \notin new.tree
      PROVE  cursor' # Nil /\ id[cursor'] <= id[extLog[a][1]]
  <2>1. id[cursor] < id[extLog[a][1]] /\ extLog[a][1] \in vlog.tree
    BY <1>1, <1>2, <1>5 DEF Sound, Walking, Ahead, Recorded, Kept
  <2>2. QED BY <1>3, <2>1 DEF Follows
<1>6. QED BY <1>1, <1>4, <1>5 DEF Walking, Ahead

LEMMA GcFlipWalks ==
  ASSUME ChunkInv, Sound, GcFlip
  PROVE  Walking'
<1>1. /\ at = "visit" /\ at' = "swap" /\ cursor = Nil
      /\ UNCHANGED <<extLog, held, new, lock>>
  BY DEF GcFlip, Goto, userVars, gcVars, walkVars
<1>2. lock = "gc"
  BY <1>1, ChunkFacts
<1>3. \A a \in held : extLog[a][1] \in new.tree
  BY <1>1, <1>2 DEF Sound, Walking, Ahead
<1>4. QED BY <1>1, <1>3 DEF Walking

-----------------------------------------------------------------------------
(* The steps of the program *)

SoundStep == Chained' /\ Recorded' /\ Ending' /\ Waiting' /\ Walking'

(* Steps that change neither chunks nor records.                            *)
LEMMA QuietSound ==
  ASSUME ChunkInv, ChunkInv', Sound, UNCHANGED <<chunkVars, root, userVars>>,
         SameShape(vlog', vlog), new' = new, lock # "gc", lock' # "gc",
         at # "unlink", at' # "unlink"
  PROVE  SoundStep
<1>1. UNCHANGED <<nxt, id, root, item, bits, held, extLog, freeing, moved>>
  BY DEF chunkVars, userVars
<1>2. at \notin {"first", "visit", "copy", "swap"} /\ at' \notin {"first", "visit", "copy", "swap"}
  BY DEF ChunkInv, Holder
<1>3. Chained'
  BY <1>1, <1>2, ChainedFrame DEF Sound, SameShape
<1>4. \A r : Kept(r) => Kept(r)' /\ item'[r[1]][r[2]] = item[r[1]][r[2]]
  BY <1>1 DEF Kept, SameShape
<1>5. Recorded' /\ Ending' /\ Waiting'
  BY <1>1, <1>4, RecordFrame DEF Sound
<1>6. Walking'
  BY AwayWalks
<1>7. QED BY <1>3, <1>5, <1>6 DEF SoundStep

LEMMA QuietSteps ==
  ASSUME ChunkInv, ChunkInv', Sound,
         \/ \E t \in Threads : (\E a \in Addrs : AllocBegin(t, a)) \/ FreeLocal(t)
         \/ FlushBegin \/ Tick \/ TickLoose \/ GcWake \/ GcDrop
  PROVE  SoundStep
<1>1. vlog \in Logs /\ (lock = "none" <=> at = "out")
      /\ (lock = "gc" <=> at \in {"first", "visit", "copy", "swap"}) /\ (lock = "gc" => gc = "lock")
  BY ChunkFacts DEF ChunkInv, Holder
<1>2. ASSUME NEW t \in Threads, (\E a \in Addrs : AllocBegin(t, a)) \/ FreeLocal(t)
      PROVE  SoundStep
  <2>1. /\ lock = "none" /\ lock' = t /\ at' = "item"
        /\ UNCHANGED <<fileVars, userVars, vlog, gcVars>>
    BY <1>2 DEF AllocBegin, FreeLocal
  <2>2. t # "gc"
    BY BookLogAssumption
  <2>3. QED BY <1>1, <2>1, <2>2, QuietSound DEF fileVars, headVars, gcVars, walkVars, SameShape
<1>3. CASE FlushBegin
  <2>1. /\ lock = "none" /\ lock' = "flusher" /\ at' = "item"
        /\ UNCHANGED <<fileVars, userVars, vlog, gcVars>>
    BY <1>3 DEF FlushBegin
  <2>2. QED BY <1>1, <2>1, QuietSound DEF fileVars, headVars, gcVars, walkVars, SameShape
<1>4. CASE Tick \/ TickLoose
  <2>1. at = "tick" /\ (\E k : vlog' = [vlog EXCEPT !.timer = k])
        /\ UNCHANGED <<fileVars, userVars, new>>
    BY <1>4 DEF Tick, TickLoose, Due, gcVars, walkVars
  <2>2. lock # "gc" /\ lock' # "gc" /\ at' # "unlink"
    BY <1>1, <1>4, <2>1 DEF Tick, TickLoose, Finish, Leave, Goto
  <2>3. SameShape(vlog', vlog)
    BY <1>1, <2>1 DEF Logs, SameShape
  <2>4. QED BY <2>1, <2>2, <2>3, QuietSound DEF fileVars, headVars
<1>5. CASE GcDrop
  <2>1. lock = "none" /\ UNCHANGED <<lock, at, fileVars, userVars, vlog, new>>
    BY <1>5 DEF GcDrop, walkVars, procVars
  <2>2. QED BY <1>1, <2>1, QuietSound DEF fileVars, headVars, SameShape
<1>6. CASE GcWake
  <2>1. gc = "wait" /\ UNCHANGED <<lock, at, fileVars, userVars, vlog, new>>
    BY <1>6 DEF GcWake, walkVars, procVars
  <2>2. UNCHANGED <<nxt, id, root, item, bits, held, extLog, freeing, moved>>
    BY <2>1 DEF fileVars, headVars, chunkVars, userVars
  <2>3. CASE at # "unlink"
    BY <1>1, <2>1, <2>3, QuietSound DEF fileVars, headVars, SameShape
  <2>4. CASE at = "unlink"
    <3>1. Chained'
      BY <2>1, <2>2 DEF Sound, Chained, Alive, Path, Going, Retired, Empty
    <3>2. Recorded' /\ Ending' /\ Waiting'
      BY <2>1, <2>2 DEF Sound, Recorded, Ending, Waiting, Kept
    <3>3. Walking'
      BY <1>1, <2>1, AwayWalks
    <3>4. QED BY <3>1, <3>2, <3>3 DEF SoundStep
  <2>5. QED BY <2>3, <2>4
<1>7. QED BY <1>2, <1>3, <1>4, <1>5, <1>6

LEMMA ClientSound ==
  ASSUME ChunkInv, ChunkInv', Sound, NEW t \in Threads,
         \/ \E a \in Addrs : FreeBegin(t, a)
         \/ FreeRemote(t)
  PROVE  SoundStep
<1>1. CASE \E a \in Addrs : FreeBegin(t, a)
  <2>1. PICK a \in Addrs : FreeBegin(t, a)
    BY <1>1
  <2>2. Chained'
    BY <2>1 DEF FreeBegin, fileVars, headVars, chunkVars, gcVars, walkVars, procVars, Sound,
       Chained, Alive, Path, Going, Retired, Empty
  <2>3. Walking'
    BY <2>1, FreeBeginWalks DEF Sound
  <2>4. QED BY <2>1, <2>2, <2>3, FreeBeginRecords DEF SoundStep, Records3
<1>2. CASE FreeRemote(t)
  <2>1. lock = "none" /\ UNCHANGED <<nxt, id, root, vlog, new, at, lock>>
    BY <1>2 DEF FreeRemote, headVars, gcVars, walkVars, procVars
  <2>2. at = "out"
    BY <2>1, ChunkFacts
  <2>3. Chained'
    BY <2>1, <2>2, ChainedFrame DEF Sound, SameShape
  <2>4. Walking'
    BY <2>1, AwayWalks
  <2>5. QED BY <1>2, <2>3, <2>4, FreeRemoteRecords DEF SoundStep, Records3
<1>3. QED BY <1>1, <1>2

LEMMA WriteSound ==
  ASSUME ChunkInv, ChunkInv', Sound, WriteNormal \/ WriteFree \/ WriteTomb
  PROVE  SoundStep
<1>1. /\ at = "item" /\ at' \in {"tick", "out"} /\ UNCHANGED <<nxt, id, root, new>>
      /\ vlog' = vlog \/ vlog' = [vlog EXCEPT !.items = (@ + 1) % SizeMod]
  BY DEF WriteNormal, WriteFree, WriteTomb, Append1, headVars, gcVars, walkVars, Leave, Goto
<1>2. SameShape(vlog', vlog)
  BY <1>1, ChunkFacts DEF Logs, SameShape
<1>3. Chained'
  BY <1>1, <1>2, ChainedFrame DEF Sound, SameShape
<1>4. lock' # "gc"
  BY <1>1 DEF ChunkInv, Holder
<1>5. Walking'
  BY <1>4, AwayWalks
<1>6. Records3
  BY WriteNormalRecords, WriteFreeRecords, WriteTombRecords
<1>7. QED BY <1>3, <1>5, <1>6 DEF SoundStep, Records3

LEMMA GrowSound ==
  ASSUME ChunkInv, ChunkInv', Sound, Grow
  PROVE  SoundStep
<1>1. /\ at = "item" /\ at' = "item" /\ lock' = lock /\ TakeChunk(NewChunk, vlog)
      /\ vlog' = Extended(vlog) /\ UNCHANGED <<held, extLog, freeing, moved, new>>
  BY DEF Grow, Extend, procVars, userVars, gcVars, walkVars
<1>2. vlog \in Logs /\ vlog.nextId \in Nat /\ lock # "gc"
  BY <1>1, ChunkFacts DEF Logs
<1>3. vlog.tree \cup new.tree \subseteq vlog'.tree \cup new'.tree
  BY <1>1, <1>2, TakenApart, ExtendedIs
<1>4. \A r : Kept(r) => Kept(r)' /\ item'[r[1]][r[2]] = item[r[1]][r[2]]
  BY <1>1, <1>2, <1>3, TakenKeeps
<1>5. Recorded' /\ Ending' /\ Waiting'
  BY <1>1, <1>4, RecordFrame DEF Sound
<1>6. Walking'
  BY <1>1, <1>2, AwayWalks
<1>7. QED BY <1>5, <1>6, GrowChain DEF SoundStep, Sound

LEMMA FastSound ==
  ASSUME ChunkInv, ChunkInv', Sound, Retire \/ Unlink \/ FastDone, ~astray'
  PROVE  SoundStep
<1>1. /\ at \in {"retire", "unlink"} /\ at' \in {"retire", "unlink", "item", "out"}
      /\ UNCHANGED <<item, bits, new, held, extLog, freeing, moved>>
      /\ (Retire \/ Unlink => vlog' = vlog)
      /\ (FastDone => vlog' = [vlog EXCEPT !.tree = @ \ Empty,
                                           !.chunks = @ - Cardinality(Empty),
                                           !.items = Fewer(NItems * Cardinality(Empty))])
  BY DEF Retire, Unlink, FastDone, Finish, Leave, Goto, chunkVars, userVars, gcVars, walkVars
<1>2. vlog \in Logs
  BY ChunkFacts
<1>3. ASSUME NEW r, Kept(r) PROVE Kept(r)' /\ item'[r[1]][r[2]] = item[r[1]][r[2]]
  <2>1. CASE vlog' = vlog
    BY <1>1, <1>3, <2>1 DEF Kept
  <2>2. CASE FastDone
    <3>1. vlog'.tree = vlog.tree \ Empty
      BY <1>1, <1>2, <2>2 DEF Logs
    <3>2. r[1] \notin Empty
      BY <1>3 DEF Kept, Empty
    <3>3. QED BY <1>1, <1>3, <3>1, <3>2 DEF Kept
  <2>3. QED BY <1>1, <2>1, <2>2
<1>4. Recorded' /\ Ending' /\ Waiting'
  BY <1>1, <1>3, RecordFrame DEF Sound
<1>5. lock' # "gc"
  BY <1>1 DEF ChunkInv, Holder
<1>6. Walking'
  BY <1>5, AwayWalks
<1>7. Chained'
  BY RetireChain, UnlinkChain, FastDoneChain DEF Sound
<1>8. QED BY <1>4, <1>6, <1>7 DEF SoundStep

LEMMA GcTakeSound ==
  ASSUME ChunkInv, ChunkInv', Sound, GcRoot \/ GcFirst \/ GcGrow
  PROVE  SoundStep
<1>1. /\ UNCHANGED <<held, extLog, freeing, moved, vlog>>
      /\ \E v : v.nextId \in Nat /\ TakeChunk(NewChunk, v)
      /\ GcRoot => at = "out"
      /\ GcFirst => at = "first"
      /\ GcFirst \/ GcGrow => new' = Extended(new) /\ NewChunk \in Chunks
  <2>1. UNCHANGED <<held, extLog, freeing, moved, vlog>>
    BY DEF GcRoot, GcFirst, GcGrow, userVars
  <2>2. new \in Logs /\ new.nextId \in Nat /\ Unborn.nextId \in Nat /\ (lock = "none" <=> at = "out")
    BY ChunkFacts DEF Logs, Unborn, NoLog
  <2>3. TakeChunk(NewChunk, new) \/ TakeChunk(NewChunk, Unborn)
    BY DEF GcRoot, GcFirst, GcGrow, Extend
  <2>4. NewChunk \in Chunks
    BY <2>2, <2>3, TakenApart
  <2>5. QED BY <2>1, <2>2, <2>3, <2>4 DEF GcRoot, GcFirst, GcGrow
<1>2. vlog.tree \cup new.tree \subseteq vlog'.tree \cup new'.tree
  <2>1. new \in Logs /\ (at \in {"out", "first"} => new.tree = {})
    BY ChunkFacts
  <2>2. CASE GcRoot
    BY <1>1, <2>1, <2>2
  <2>3. CASE GcFirst \/ GcGrow
    BY <1>1, <2>1, <2>3, ExtendedIs
  <2>4. QED BY <2>2, <2>3
<1>3. \A r : Kept(r) => Kept(r)' /\ item'[r[1]][r[2]] = item[r[1]][r[2]]
  BY <1>1, <1>2, TakenKeeps
<1>4. Recorded' /\ Ending' /\ Waiting'
  BY <1>1, <1>3, RecordFrame DEF Sound
<1>5. Walking'
  BY GcRootWalks, GcFirstWalks, GcGrowWalks
<1>6. Chained'
  BY GcRootChain, GcFirstChain, GcGrowChain DEF Sound
<1>7. QED BY <1>4, <1>5, <1>6 DEF SoundStep

LEMMA GcWalkSound ==
  ASSUME ChunkInv, ChunkInv', Sound, GcVisit \/ GcAdvance \/ GcFlip
  PROVE  SoundStep
<1>1. /\ UNCHANGED <<held, extLog, freeing, moved, vlog, new, item, bits, nxt, id, root>>
      /\ at \in {"visit", "copy"} /\ at' \in {"visit", "copy", "swap"}
  BY DEF GcVisit, GcAdvance, GcFlip, Goto, fileVars, headVars, chunkVars, userVars, gcVars,
     walkVars
<1>2. Chained'
  BY <1>1, ChainedFrame DEF Sound, SameShape
<1>3. Recorded' /\ Ending' /\ Waiting'
  BY <1>1 DEF Sound, Recorded, Ending, Waiting, Kept
<1>4. Walking'
  BY GcVisitWalks, GcAdvanceWalks, GcFlipWalks
<1>5. QED BY <1>2, <1>3, <1>4 DEF SoundStep

LEMMA GcCopySound ==
  ASSUME ChunkInv, ChunkInv', Sound, GcCopy
  PROVE  SoundStep
<1>1. /\ at = "copy" /\ at' = "copy" /\ UNCHANGED <<nxt, id, root, vlog>>
      /\ new' = [new EXCEPT !.items = (@ + 1) % SizeMod]
  BY DEF GcCopy, Append1, headVars, procVars
<1>2. SameShape(new', new)
  BY <1>1, ChunkFacts DEF Logs, SameShape
<1>3. Chained'
  BY <1>1, <1>2, ChainedFrame DEF Sound, SameShape
<1>4. QED BY <1>3, GcCopyRecords, GcCopyWalks DEF SoundStep, Records3

LEMMA GcSwapSound ==
  ASSUME ChunkInv, ChunkInv', Sound, GcSwap
  PROVE  SoundStep
<1>1. lock' = "none"
  BY DEF GcSwap, Leave
<1>2. Walking'
  BY <1>1, AwayWalks
<1>3. QED BY <1>2, GcSwapChain, GcSwapRecords DEF SoundStep, Records3, Sound

LEMMA StopSound ==
  ASSUME Sound, NEW why, Stop(why)
  PROVE  SoundStep
<1>1. UNCHANGED <<nxt, id, root, item, bits, vlog, new, held, extLog, freeing, moved, lock, at,
                  cursor, marks>>
  BY DEF Stop, fileVars, headVars, chunkVars, userVars, gcVars, walkVars, procVars
<1>2. Chained'
  BY <1>1 DEF Sound, Chained, Alive, Path, Going, Retired, Empty
<1>3. Recorded' /\ Ending' /\ Waiting' /\ Walking'
  BY <1>1 DEF Sound, Recorded, Ending, Waiting, Walking, Ahead, Kept
<1>4. QED BY <1>2, <1>3 DEF SoundStep

(* slow_GC has no chunk of the chain to miss.                               *)
LEMMA FailureSound ==
  ASSUME Sound, Failure
  PROVE  SoundStep /\ failed' # "chain"
<1>1. ~GcVisitFails
  BY DEF GcVisitFails, Sound, Walking
<1>2. PICK why \in {"no chunk", "moved", "division by zero", "no extent", "extent log"} : Stop(why)
  BY <1>1 DEF Failure, FreeRemoteFails, WriteFreeFails, TickDivides, GcDivides, GcCopyFails,
     Misses
<1>3. QED BY <1>2, StopSound DEF Stop

LEMMA AstrayStays ==
  ASSUME [Next]_vars, astray
  PROVE  astray'
<1>1. CASE UNCHANGED vars
  BY <1>1 DEF vars, fastVars
<1>2. CASE ClientStep
  BY <1>2 DEF ClientStep, AllocBegin, FreeBegin, FreeLocal, FreeRemote, fastVars
<1>3. CASE LogStep
  BY <1>3 DEF LogStep, FlushBegin, Grow, WriteNormal, WriteFree, WriteTomb, Tick, TickLoose,
     Retire, Unlink, FastDone, fastVars
<1>4. CASE GcStep
  BY <1>4 DEF GcStep, GcWake, GcDrop, GcRoot, GcFirst, GcVisit, GcGrow, GcCopy, GcAdvance,
     GcFlip, GcSwap, fastVars
<1>5. CASE Failure
  BY <1>5 DEF Failure, FreeRemoteFails, WriteFreeFails, TickDivides, GcDivides, GcVisitFails,
     GcCopyFails, Stop, fastVars
<1>6. QED BY <1>1, <1>2, <1>3, <1>4, <1>5 DEF Next

LEMMA ChainKeeps == ChunkInv /\ ChunkInv' /\ ChainInv /\ [Next]_vars => ChainInv'
<1> SUFFICES ASSUME ChunkInv, ChunkInv', ChainInv, [Next]_vars, ~astray' PROVE Sound'
  BY DEF ChainInv
<1>1. Sound
  BY AstrayStays DEF ChainInv
<1>2. CASE UNCHANGED vars
  <2>1. Stop(failed) /\ failed' = failed
    BY <1>2 DEF Stop, vars
  <2>2. SoundStep
    BY <1>1, <2>1, StopSound
  <2>3. QED BY <1>1, <2>1, <2>2 DEF SoundStep, Sound
<1>3. CASE ClientStep /\ UNCHANGED failed
  <2>1. SoundStep
    BY <1>1, <1>3, QuietSteps, ClientSound DEF ClientStep
  <2>2. QED BY <1>1, <1>3, <2>1 DEF SoundStep, Sound
<1>4. CASE LogStep /\ UNCHANGED failed
  <2>1. SoundStep
    BY <1>1, <1>4, QuietSteps, WriteSound, GrowSound, FastSound DEF LogStep
  <2>2. QED BY <1>1, <1>4, <2>1 DEF SoundStep, Sound
<1>5. CASE GcStep /\ UNCHANGED failed
  <2>1. SoundStep
    BY <1>1, <1>5, QuietSteps, GcTakeSound, GcWalkSound, GcCopySound, GcSwapSound DEF GcStep
  <2>2. QED BY <1>1, <1>5, <2>1 DEF SoundStep, Sound
<1>6. CASE Failure
  BY <1>1, <1>6, FailureSound DEF SoundStep, Sound
<1>7. QED BY <1>2, <1>3, <1>4, <1>5, <1>6 DEF Next

LEMMA ChainAtFirst == Init => ChainInv
<1> SUFFICES ASSUME Init PROVE Sound
  BY DEF ChainInv
<1>1. PICK f \in Files : InitFile(f)
  BY DEF Init
<1>2. ChunkInv
  BY ChunksAtFirst
<1>3. /\ 1 \in Chunks /\ 2 \in Chunks /\ f \in Addrs /\ 0 \in Slots /\ Index(0) = 0
  BY BookLogAssumption, IndexZero DEF Chunks
<1>4. /\ vlog.side = 0 /\ vlog.tree = {2} /\ vlog.tail = 2 /\ vlog.nextId = 3 /\ new.tree = {}
      /\ root[0] = 1 /\ id[1] = 1 /\ id[2] = 2 /\ nxt[1] = 2 /\ nxt[2] = Nil
      /\ at = "out" /\ lock = "none" /\ failed = "no" /\ moved = {}
      /\ \A t \in Threads : freeing[t] = NoRef
  BY <1>3 DEF Init, NoLog, Nil
<1>5. held = {f} /\ extLog[f] = <<2, 0>> /\ item[2][0] = Normal(f) /\ bits[2] = {0}
  BY <1>1, <1>3 DEF InitFile
<1>6. Chained
  <2>1. Path = nxt /\ Alive(vlog) = {2}
    BY <1>2, <1>4, PathIs
  <2>2. Linked(id, nxt, {2}, 2, 3, 1)
    BY <1>4 DEF Linked, Follows, Nil
  <2>3. QED BY <1>4, <2>1, <2>2 DEF Chained
<1>7. Recorded
  <2>1. Normal(f) # Blank
    BY DEF Normal, Blank
  <2>2. QED BY <1>4, <1>5, <2>1 DEF Recorded, Kept
<1>8. Ending /\ Waiting /\ Walking
  BY <1>4 DEF Ending, Waiting, Walking
<1>9. QED BY <1>4, <1>6, <1>7, <1>8 DEF Sound

LEMMA ChainAlways == Spec => []ChainInv
<1>1. QED BY ChunksAlways, ChainAtFirst, ChainKeeps, PTL DEF Spec

(* No record of an extent in a client's hands is lost: the item it points   *)
(* at is its own, in a log in use, and counts, whatever fast_GC unlinks and *)
(* slow_GC copies, as long as no pre_lchunk out of date has been followed.  *)
THEOREM NoRecordLost == Spec => []HeldRecorded
<1>1. ChainInv => HeldRecorded
  BY DEF ChainInv, Sound, Recorded, Kept, HeldRecorded
<1>2. QED BY <1>1, ChainAlways, PTL

(* The assertion of log.c:386, that slow_GC finds every chunk of the chain  *)
(* in the tree, can fail only after fast_GC has followed a pre_lchunk out   *)
(* of date: nothing else breaks the chain.                                  *)
THEOREM OnlyStrayBreaksChain == Spec => []StrayFirst
<1>1. ChainInv => StrayFirst
  BY DEF ChainInv, Sound, StrayFirst
<1>2. QED BY <1>1, ChainAlways, PTL

-----------------------------------------------------------------------------
(* The chain in persistent memory, as Reached follows it *)

(* The chunks one step further on, and what f says of n steps from r.       *)
Further(nx, S) == UNION {{c, nx[c]} \ {Nil} : c \in S}
Follower(nx, r, f) == f = [n \in Nat |-> IF n = 0 THEN {r} ELSE Further(nx, f[n - 1])]

(* The walks of n steps from r, which give such an f without a recursion.   *)
Walks(nx, r, n) ==
  {q \in [0 .. n -> Chunks] :
     q[0] = r /\ \A i \in 0 .. n - 1 : q[i + 1] \in {q[i], nx[q[i]]}}

LEMMA WalkEnds ==
  ASSUME NEW nx \in [Chunks -> Chunks \cup {Nil}], NEW r \in Chunks, NEW n \in Nat \ {0}
  PROVE  {q[n] : q \in Walks(nx, r, n)} = Further(nx, {q[n - 1] : q \in Walks(nx, r, n - 1)})
<1>1. n - 1 \in Nat /\ n - 1 \in 0 .. n - 1 /\ n - 1 + 1 = n /\ n \in 0 .. n /\ 0 \in 0 .. n - 1
  OBVIOUS
<1>2. ASSUME NEW q \in Walks(nx, r, n)
      PROVE  q[n] \in Further(nx, {p[n - 1] : p \in Walks(nx, r, n - 1)})
  <2> DEFINE p == [i \in 0 .. n - 1 |-> q[i]]
  <2>1. /\ q \in [0 .. n -> Chunks] /\ q[0] = r
        /\ \A i \in 0 .. n - 1 : q[i + 1] \in {q[i], nx[q[i]]}
    BY DEF Walks
  <2>2. \A i \in 0 .. n - 1 : i \in 0 .. n
    BY <1>1
  <2>3. p \in [0 .. n - 1 -> Chunks] /\ p[0] = r /\ p[n - 1] = q[n - 1]
    BY <1>1, <2>1, <2>2
  <2>4. ASSUME NEW i \in 0 .. (n - 1) - 1 PROVE p[i + 1] \in {p[i], nx[p[i]]}
    <3>1. i \in 0 .. n - 1 /\ i + 1 \in 0 .. n - 1
      BY <1>1
    <3>2. QED BY <2>1, <3>1
  <2> HIDE DEF p
  <2>5. p \in Walks(nx, r, n - 1)
    BY <2>3, <2>4 DEF Walks
  <2>6. q[n] \in {p[n - 1], nx[p[n - 1]]} /\ q[n] # Nil
    <3>1. q[n] \in Chunks /\ q[(n - 1) + 1] \in {q[n - 1], nx[q[n - 1]]}
      BY <1>1, <2>1
    <3>2. QED BY <1>1, <2>3, <3>1, ChunkRange
  <2>7. QED BY <2>5, <2>6 DEF Further
<1>3. ASSUME NEW p \in Walks(nx, r, n - 1), NEW e \in {p[n - 1], nx[p[n - 1]]}, e # Nil
      PROVE  \E q \in Walks(nx, r, n) : q[n] = e
  <2> DEFINE q == [i \in 0 .. n |-> IF i = n THEN e ELSE p[i]]
  <2>1. /\ p \in [0 .. n - 1 -> Chunks] /\ p[0] = r
        /\ \A i \in 0 .. (n - 1) - 1 : p[i + 1] \in {p[i], nx[p[i]]}
    BY DEF Walks
  <2>2. e \in Chunks
    BY <1>1, <1>3, <2>1
  <2>3. \A i \in 0 .. n : i # n => i \in 0 .. n - 1
    BY <1>1
  <2>4. q \in [0 .. n -> Chunks] /\ q[0] = r /\ q[n] = e
    BY <1>1, <2>1, <2>2, <2>3
  <2>5. ASSUME NEW i \in 0 .. n - 1 PROVE q[i + 1] \in {q[i], nx[q[i]]}
    <3>1. i \in 0 .. n /\ i + 1 \in 0 .. n /\ i # n /\ q[i] = p[i]
      BY <1>1
    <3>2. CASE i = n - 1
      BY <1>1, <1>3, <3>1, <3>2
    <3>3. CASE i # n - 1
      <4>1. i \in 0 .. (n - 1) - 1 /\ i + 1 # n
        BY <1>1, <3>3
      <4>2. QED BY <2>1, <3>1, <4>1
    <3>4. QED BY <3>2, <3>3
  <2> HIDE DEF q
  <2>6. q \in Walks(nx, r, n)
    BY <2>4, <2>5 DEF Walks
  <2>7. QED BY <2>4, <2>6
<1>4. QED BY <1>2, <1>3 DEF Further

LEMMA FollowerExists ==
  ASSUME NEW nx \in [Chunks -> Chunks \cup {Nil}], NEW r \in Chunks
  PROVE  \E f : Follower(nx, r, f)
<1> DEFINE f == [n \in Nat |-> {q[n] : q \in Walks(nx, r, n)}]
<1>1. f[0] = {r}
  <2> DEFINE p == [i \in 0 .. 0 |-> r]
  <2>1. p \in [0 .. 0 -> Chunks] /\ p[0] = r /\ 0 .. 0 - 1 = {}
    OBVIOUS
  <2> HIDE DEF p
  <2>2. p \in Walks(nx, r, 0)
    BY <2>1 DEF Walks
  <2>3. \A q \in Walks(nx, r, 0) : q[0] = r
    BY DEF Walks
  <2>4. QED BY <2>1, <2>2, <2>3
<1>2. ASSUME NEW n \in Nat \ {0} PROVE f[n] = Further(nx, f[n - 1])
  <2>1. n \in Nat /\ n - 1 \in Nat
    OBVIOUS
  <2>2. f[n] = {q[n] : q \in Walks(nx, r, n)} /\ f[n - 1] = {q[n - 1] : q \in Walks(nx, r, n - 1)}
    BY <2>1
  <2>3. QED BY <2>2, WalkEnds
<1>3. \A n \in Nat : f[n] = IF n = 0 THEN {r} ELSE Further(nx, f[n - 1])
  BY <1>1, <1>2
<1>4. f = [n \in Nat |-> IF n = 0 THEN {r} ELSE Further(nx, f[n - 1])]
  <2>1. f = [n \in Nat |-> f[n]]
    OBVIOUS
  <2> HIDE DEF f
  <2>2. QED BY <1>3, <2>1
<1> HIDE DEF f
<1>5. QED BY <1>4 DEF Follower

LEMMA ReachedIs ==
  ASSUME nxt \in [Chunks -> Chunks \cup {Nil}], root[alt] \in Chunks
  PROVE  Follower(nxt, root[alt], Reached)
<1>1. PICK f : Follower(nxt, root[alt], f)
  BY FollowerExists
<1>2. f = [n \in Nat |-> IF n = 0 THEN {root[alt]}
                         ELSE UNION {{c, nxt[c]} \ {Nil} : c \in f[n - 1]}]
  BY <1>1 DEF Follower, Further
<1>3. Reached = [n \in Nat |-> IF n = 0 THEN {root[alt]}
                               ELSE UNION {{c, nxt[c]} \ {Nil} : c \in Reached[n - 1]}]
  BY <1>2 DEF Reached
<1>4. QED BY <1>3 DEF Follower, Further

(* All that is reached lies in a set B that leads nowhere else.             *)
LEMMA FollowerWithin ==
  ASSUME NEW nx \in [Chunks -> Chunks \cup {Nil}], NEW r, NEW f, Follower(nx, r, f),
         NEW B \in SUBSET Chunks, r \in B, \A c \in B : nx[c] \in B \cup {Nil}
  PROVE  \A n \in Nat : f[n] \subseteq B
<1>1. f[0] = {r} /\ \A n \in Nat \ {0} : f[n] = Further(nx, f[n - 1])
  BY DEF Follower
<1> DEFINE Bad == {n \in Nat : ~(f[n] \subseteq B)}
<1>2. SUFFICES ASSUME Bad # {} PROVE FALSE
  OBVIOUS
<1>3. PICK m \in Bad : \A n \in Bad : m <= n
  BY <1>2, LeastNat
<1>4. m \in Nat \ {0} /\ m - 1 \in Nat /\ ~(m <= m - 1)
  BY <1>1, <1>3
<1>5. f[m - 1] \subseteq B
  BY <1>3, <1>4
<1>6. f[m] \subseteq B
  BY <1>1, <1>4, <1>5 DEF Further
<1>7. QED BY <1>3, <1>6

(* After as many steps as the file has chunks there are no new ones.        *)
LEMMA FollowerCloses ==
  ASSUME NEW nx \in [Chunks -> Chunks \cup {Nil}], NEW r \in Chunks, NEW f, Follower(nx, r, f)
  PROVE  /\ f[FileChunks] \subseteq Chunks /\ r \in f[FileChunks]
         /\ \A c \in f[FileChunks] : nx[c] \in f[FileChunks] \cup {Nil}
<1>1. f[0] = {r} /\ \A n \in Nat : f[n + 1] = Further(nx, f[n])
  <2>1. \A n \in Nat : n + 1 \in Nat /\ n + 1 # 0 /\ n + 1 - 1 = n
    OBVIOUS
  <2>2. QED BY <2>1 DEF Follower
<1>2. \A n \in Nat : f[n] \subseteq Chunks
  BY FollowerWithin
<1>3. \A n \in Nat : f[n] \subseteq f[n + 1]
  BY <1>1, <1>2, ChunkRange DEF Further
<1>4. \A n \in Nat : IsFiniteSet(f[n]) /\ Cardinality(f[n]) \in Nat
  BY <1>2, ChunkRange, FS_Subset, FS_CardinalityType
<1> DEFINE Good(n) == f[n + 1] = f[n] \/ Cardinality(f[n]) >= n + 1
           Bad == {n \in Nat : ~Good(n)}
<1>5. Good(0)
  <2>1. Cardinality({r}) = 1
    BY FS_Singleton
  <2>2. QED BY <1>1, <2>1
<1>6. ASSUME NEW n \in Nat, Good(n) PROVE Good(n + 1)
  <2>1. CASE f[n + 1] = f[n]
    BY <1>1, <2>1
  <2>2. CASE f[n + 1] # f[n]
    <3>1. PICK x \in f[n + 1] : x \notin f[n]
      BY <1>3, <2>2
    <3>2. Cardinality(f[n] \cup {x}) = Cardinality(f[n]) + 1
      BY <1>4, <3>1, FS_AddElement
    <3>3. f[n] \cup {x} \in SUBSET f[n + 1]
      BY <1>3, <3>1
    <3>4. IsFiniteSet(f[n + 1]) /\ n + 1 \in Nat
      BY <1>4
    <3>5. Cardinality(f[n]) + 1 <= Cardinality(f[n + 1])
      BY <3>2, <3>3, <3>4, FS_Subset
    <3>6. Cardinality(f[n]) >= n + 1 /\ Cardinality(f[n]) \in Nat /\ Cardinality(f[n + 1]) \in Nat
      BY <1>4, <1>6, <2>2, <3>4
    <3>7. QED BY <3>5, <3>6
  <2>3. QED BY <2>1, <2>2
<1>7. Bad = {}
  <2>1. SUFFICES ASSUME Bad # {} PROVE FALSE
    OBVIOUS
  <2>2. PICK m \in Bad : \A n \in Bad : m <= n
    BY <2>1, LeastNat
  <2>3. m \in Nat /\ m # 0
    BY <1>5, <2>2
  <2>4. m - 1 \in Nat /\ (m - 1) + 1 = m /\ ~(m <= m - 1)
    BY <2>3
  <2>5. Good(m - 1)
    BY <2>2, <2>4
  <2> HIDE DEF Good
  <2>6. Good(m)
    BY <1>6, <2>4, <2>5
  <2>7. QED BY <2>2, <2>6
<1>8. f[FileChunks + 1] = f[FileChunks]
  <2>1. FileChunks \in Nat /\ FileChunks > 3
    BY BookLogAssumption
  <2>2. Cardinality(Chunks) = FileChunks - 1
    <3>1. FileChunks - 1 \in Int /\ 1 \in Int /\ ~(1 > FileChunks - 1)
          /\ FileChunks - 1 - 1 + 1 = FileChunks - 1
      BY <2>1
    <3>2. Cardinality(1 .. FileChunks - 1) = FileChunks - 1 - 1 + 1
      BY <3>1, FS_Interval
    <3>3. QED BY <3>1, <3>2 DEF Chunks
  <2>3. Cardinality(f[FileChunks]) <= Cardinality(Chunks)
    BY <1>2, <2>1, ChunkRange, FS_Subset
  <2>4. Cardinality(f[FileChunks]) \in Nat
    BY <1>4, <2>1
  <2>5. f[FileChunks + 1] = f[FileChunks] \/ Cardinality(f[FileChunks]) >= FileChunks + 1
    BY <1>7, <2>1
  <2> DEFINE n == Cardinality(f[FileChunks])
  <2> HIDE DEF n
  <2>6. n \in Nat /\ n <= FileChunks - 1 /\ (f[FileChunks + 1] = f[FileChunks] \/ n >= FileChunks + 1)
    BY <2>2, <2>3, <2>4, <2>5 DEF n
  <2>7. QED BY <2>1, <2>6
<1>9. \A n \in Nat : r \in f[n]
  <2> DEFINE Off == {n \in Nat : r \notin f[n]}
  <2>1. SUFFICES ASSUME Off # {} PROVE FALSE
    OBVIOUS
  <2>2. PICK m \in Off : \A n \in Off : m <= n
    BY <2>1, LeastNat
  <2>3. m \in Nat /\ m # 0
    BY <1>1, <2>2
  <2>4. m - 1 \in Nat /\ (m - 1) + 1 = m /\ ~(m <= m - 1)
    BY <2>3
  <2>5. r \in f[m - 1]
    BY <2>2, <2>4
  <2>6. r \in f[m]
    BY <1>3, <2>4, <2>5
  <2>7. QED BY <2>2, <2>6
<1>10. QED BY <1>1, <1>2, <1>8, <1>9, ChunkRange DEF Further

(* The path follows nx but passes over chunk g, from which nx leads to A.   *)
Bypass(nx, A, g, path) ==
  /\ g # Nil => nx[g] \in A \cup {Nil}
  /\ \A c \in Chunks : path[c] = IF nx[c] # Nil /\ nx[c] = g THEN nx[g] ELSE nx[c]

(* From the chunks of S, nx leads to A, to chunk g or to no chunk, and to all
   of A.                                                                    *)
Covers(nx, A, g, S) ==
  /\ \A c \in S : nx[c] \in A \cup {g, Nil}
  /\ \A e \in A : \E c \in S : nx[c] = e

(* What the chain leads to, when only chunk g lies on it and not in A.      *)
LEMMA ChainCovers ==
  ASSUME NEW ids \in [Chunks -> Nat], NEW nx \in [Chunks -> Chunks \cup {Nil}],
         NEW A \in SUBSET Chunks, NEW t, NEW k, NEW r \in Chunks \ A,
         NEW g \in Chunks \cup {Nil}, NEW path, Bypass(nx, A, g, path),
         Linked(ids, path, A, t, k, r), NEW f, Follower(nx, r, f)
  PROVE  Covers(nx, A, g, f[FileChunks])
<1> DEFINE M == f[FileChunks]
<1>0. /\ g # Nil => nx[g] \in A \cup {Nil}
      /\ \A c \in Chunks : path[c] = IF nx[c] # Nil /\ nx[c] = g THEN nx[g] ELSE nx[c]
  BY DEF Bypass
<1>1. M \subseteq Chunks /\ r \in M /\ \A c \in M : nx[c] \in M \cup {Nil}
  BY FollowerCloses
<1>2. /\ \A c \in A : ids[r] < ids[c]
      /\ \A c, d \in A : ids[c] = ids[d] => c = d
      /\ \A c \in A \cup {r} : Follows(ids, A, c, path[c])
  BY DEF Linked
<1>3. M \subseteq (A \cup {r, g}) \ {Nil}
  <2> DEFINE B == (A \cup {r, g}) \ {Nil}
  <2>1. B \in SUBSET Chunks /\ r \in B
    BY ChunkRange
  <2>2. ASSUME NEW c \in B PROVE nx[c] \in B \cup {Nil}
    <3>1. CASE c \in A \cup {r}
      BY <1>0, <1>2, <3>1 DEF Follows
    <3>2. CASE c = g
      BY <1>0, <2>2, <3>2
    <3>3. QED BY <2>2, <3>1, <3>2
  <2>3. FileChunks \in Nat
    BY BookLogAssumption
  <2> HIDE DEF B
  <2>4. M \subseteq B
    BY <2>1, <2>2, <2>3, FollowerWithin
  <2>5. QED BY <2>4 DEF B
<1>4. ASSUME NEW c \in M PROVE nx[c] \in A \cup {g, Nil}
  <2>1. c \in Chunks /\ (c \in A \cup {r} \/ (c = g /\ g # Nil))
    BY <1>1, <1>3
  <2>2. CASE c \in A \cup {r}
    <3>1. Follows(ids, A, c, path[c]) /\ (path[c] = nx[c] \/ nx[c] = g)
      BY <1>0, <1>2, <2>1, <2>2
    <3>2. QED BY <3>1 DEF Follows
  <2>3. QED BY <1>0, <2>1, <2>2
<1> HIDE DEF M
<1>5. ASSUME NEW e \in A PROVE \E c \in M : nx[c] = e
  <2>1. SUFFICES ASSUME \A c \in M : nx[c] # e PROVE FALSE
    OBVIOUS
  <2> DEFINE S == {ids[c] : c \in {d \in M \cap (A \cup {r}) : ids[d] < ids[e]}}
  <2>2. S \in SUBSET Nat /\ ids[r] \in S /\ ids[e] \in Nat /\ \A n \in S : n <= ids[e]
    BY <1>1, <1>2
  <2> HIDE DEF S
  <2>3. PICK m \in S : \A n \in S : n <= m
    BY <2>2, GreatestNat
  <2>4. PICK c \in M \cap (A \cup {r}) : ids[c] < ids[e] /\ m = ids[c]
    BY <2>3 DEF S
  <2>5. c \in Chunks /\ path[c] # Nil /\ path[c] \in A /\ ids[c] < ids[path[c]] /\ ids[path[c]] <= ids[e]
    BY <1>1, <1>2, <2>4 DEF Follows
  <2>6. PICK d \in A : d = path[c]
    BY <2>5
  <2>7. \E b \in M : nx[b] = d
    <3>1. CASE nx[c] # Nil /\ nx[c] = g
      <4>1. g \in M /\ nx[g] = d
        BY <1>0, <1>1, <2>4, <2>5, <2>6, <3>1
      <4>2. QED BY <4>1
    <3>2. CASE ~(nx[c] # Nil /\ nx[c] = g)
      BY <1>0, <2>4, <2>5, <2>6, <3>2
    <3>3. QED BY <3>1, <3>2
  <2>8. d \in M /\ d # e /\ ids[c] < ids[d] /\ ids[d] <= ids[e] /\ ids[d] \in Nat /\ ids[c] \in Nat
    BY <1>1, <2>1, <2>5, <2>6, <2>7, ChunkRange
  <2>9. ids[d] < ids[e]
    BY <1>2, <2>2, <2>8
  <2>10. ids[d] \in S
    BY <2>8, <2>9 DEF S
  <2>11. QED BY <2>3, <2>4, <2>8, <2>10
<1>6. QED BY <1>4, <1>5 DEF M, Covers

LEMMA SoundChain ==
  ASSUME ChunkInv, Sound
  PROVE  /\ InFile = {c \in Current.tree : id[c] # 0}
         /\ Current.tail \in InFile /\ nxt[Current.tail] = Nil
<1>1. /\ id \in [Chunks -> Nat] /\ nxt \in [Chunks -> Chunks \cup {Nil}] /\ alt \in {0, 1}
      /\ vlog.tree \subseteq Chunks /\ new.tree \subseteq Chunks
      /\ root[vlog.side] \in Chunks \ vlog.tree
      /\ at \in {"visit", "copy", "swap"} => root[new.side] \in Chunks \ new.tree
      /\ lock = "gc" <=> at \in {"first", "visit", "copy", "swap"}
  BY ChunkFacts DEF ChunkInv, TypeOK
<1> DEFINE A == {c \in Current.tree : id[c] # 0}
           F == Reached[FileChunks]
<1>2. ASSUME NEW r \in Chunks \ A, root[alt] = r, NEW g \in Chunks \cup {Nil},
             g # Nil => id[g] = 0,
             A \subseteq Chunks, NEW t \in A, NEW k, t = Current.tail, nxt[t] = Nil,
             NEW path, Bypass(nxt, A, g, path),
             Linked(id, path, A, t, k, r)
      PROVE  /\ InFile = {c \in Current.tree : id[c] # 0}
             /\ Current.tail \in InFile /\ nxt[Current.tail] = Nil
  <2>1. Follower(nxt, r, Reached)
    BY <1>1, <1>2, ReachedIs
  <2>2. \A c \in A : id[c] # 0
    OBVIOUS
  <2> HIDE DEF A
  <2>3. /\ \A c \in F : nxt[c] \in A \cup {g, Nil}
        /\ \A e \in A : \E c \in F : nxt[c] = e
    <3>1. Covers(nxt, A, g, F)
      BY <1>1, <1>2, <2>1, ChainCovers
    <3>2. QED BY <3>1 DEF Covers
  <2>4. Nil \notin A
    BY <1>2, ChunkRange
  <2>5. InFile = A
    BY <1>2, <2>2, <2>3, <2>4 DEF InFile, Chain
  <2>6. QED BY <1>2, <2>5 DEF A
<1>3. CASE at = "swap"
  <2>1. /\ Linked(id, nxt, new.tree, new.tail, new.nextId, root[new.side])
        /\ nxt[new.tail] = Nil
    BY <1>3 DEF Sound, Chained
  <2>2. Current = new /\ A = new.tree /\ new.tail \in new.tree
    BY <1>3, <2>1 DEF Current, ChunkInv, Marking, Linked
  <2>3. root[alt] = root[new.side]
    <3>1. vlog.side = 1 - alt /\ new.side = 1 - vlog.side
      BY <1>1, <1>3 DEF ChunkInv, Sides
    <3>2. new.side = alt
      BY <1>1, <3>1
    <3>3. QED BY <3>2
  <2>4. Bypass(nxt, new.tree, Nil, nxt)
    BY DEF Bypass
  <2> HIDE DEF A
  <2>5. QED BY <1>1, <1>2, <1>3, <2>1, <2>2, <2>3, <2>4
<1>4. CASE at # "swap"
  <2>1. /\ Linked(id, Path, Alive(vlog), vlog.tail, vlog.nextId, root[vlog.side])
        /\ nxt[vlog.tail] = Nil
        /\ at = "unlink" => nxt[Going] \in Alive(vlog) \cup {Nil}
    BY DEF Sound, Chained
  <2>2. Current = vlog /\ A = Alive(vlog) /\ vlog.tail \in A /\ Alive(vlog) \subseteq vlog.tree
    BY <1>4, <2>1 DEF Current, Linked, Alive
  <2>3. root[alt] = root[vlog.side]
    BY <1>4 DEF ChunkInv, Sides
  <2>4. Going \in Chunks \cup {Nil} /\ (Going # Nil => nxt[Going] \in Alive(vlog) \cup {Nil} /\ id[Going] = 0)
    <3>1. CASE at = "unlink"
      <4>1. Retired # {} /\ Retired \subseteq Chunks
        BY <1>1, <3>1 DEF ChunkInv, Marking, Retired, Empty
      <4>2. Going \in Retired
        <5>1. Retired \in SUBSET Nat
          BY <4>1, ChunkRange
        <5>2. QED BY <3>1, <4>1, <5>1, LowestIn DEF Going
      <4>3. id[Going] = 0
        BY <4>2 DEF Retired
      <4>4. QED BY <2>1, <3>1, <4>1, <4>2, <4>3
    <3>2. CASE at # "unlink"
      BY <3>2 DEF Going
    <3>3. QED BY <3>1, <3>2
  <2>5. Bypass(nxt, Alive(vlog), Going, Path)
    BY <2>4 DEF Bypass, Path
  <2> DEFINE r == root[vlog.side]
             g == Going
             t == vlog.tail
             k == vlog.nextId
             path == Path
  <2>6. /\ r \in Chunks \ A /\ root[alt] = r /\ g \in Chunks \cup {Nil}
        /\ g # Nil => id[g] = 0
        /\ A \subseteq Chunks /\ t \in A /\ t = Current.tail /\ nxt[t] = Nil
        /\ Bypass(nxt, A, g, path)
        /\ Linked(id, path, A, t, k, r)
    <3> HIDE DEF A
    <3>1. QED BY <1>1, <2>1, <2>2, <2>3, <2>4, <2>5
  <2> HIDE DEF A, r, g, t, k, path
  <2>7. QED BY <1>2, <2>6
<1>5. QED BY <1>3, <1>4

(* Whatever fast_GC, slow_GC and add_log do to the chain, in persistent     *)
(* memory it holds at every persist the chunks of the volatile tree and     *)
(* ends at the tail, as long as no pre_lchunk out of date is followed.      *)
THEOREM ChainIsTheTree == Spec => []ChainIsTree
<1>1. ChunkInv /\ ChainInv => ChainIsTree
  BY SoundChain DEF ChainInv, ChainIsTree
<1>2. QED BY <1>1, ChunksAlways, ChainAlways, PTL

-----------------------------------------------------------------------------
(* Tombstones, and what persistent memory says *)

(* The bound on the chunks taken keeps the version from wrapping: a chunk's *)
(* id is its version.  The chunks of arena_new are 2.                       *)
Unwrapped == MaxTaken \in 2 .. VersionMod - 1

(* Ids are given out once for every chunk taken, at most.                   *)
Young ==
  /\ taken <= MaxTaken
  /\ vlog.nextId <= taken + 1 /\ new.nextId <= taken + 1

(* A tombstone is of a chunk's life that has begun; if it is the present    *)
(* one, the item it names is there and does not count.                      *)
Spent(x) ==
  x.type = "free" =>
    /\ x.ver < vlog.nextId
    /\ x.ref[1] \in vlog.tree /\ id[x.ref[1]] # 0 /\ x.ver = id[x.ref[1]] =>
         item[x.ref[1]][x.ref[2]] # Blank /\ x.ref[2] \notin bits[x.ref[1]]
AllSpent ==
  /\ \A k \in DOMAIN tombs : Spent(tombs[k])
  /\ lock = "flusher" => Spent(job)
  /\ \A c \in vlog.tree, i \in Slots : Spent(item[c][i])

(* A chunk with a tombstone is never empty: the tombstone has a bit, which  *)
(* nobody clears.                                                           *)
TombsStay == \A c \in vlog.tree, i \in Slots : item[c][i].type = "free" => i \in bits[c]

(* What a client is about to end, and what one is about to log.             *)
Targets == \A t \in Threads \ moved : freeing[t] # NoRef =>
             item[freeing[t][1]][freeing[t][2]].type = "normal"
Fresh == at = "item" /\ job.type = "normal" => job.addr \notin held

(* The records that the chunks F hold of an extent.                         *)
Dead(F, r) == \E d \in F, j \in Slots : item[d][j] = Tomb(r, Version(r[1]))
Live(F, a) == {r \in F \X Slots : item[r[1]][r[2]] = Normal(a) /\ ~Dead(F, r)}

(* slow_GC copies no tombstone, and of each extent one record that counts.  *)
Copied ==
  /\ at = "copy" => marks \subseteq bits[cursor]
  /\ \A c \in new.tree, i \in Slots : item[c][i].type # "free"
  /\ \A r \in new.tree \X Slots, a \in Addrs : item[r[1]][r[2]] = Normal(a) =>
       /\ extLog[a] \in {r, NoRef}
       /\ Live(vlog.tree, a) # {}
       /\ \A q \in new.tree \X Slots : item[q[1]][q[2]] = Normal(a) => q = r

TombSound == AllSpent /\ TombsStay /\ Targets /\ Fresh /\ Copied
TombInv == Young /\ (astray \/ TombSound)

-----------------------------------------------------------------------------
(* Tombstones: lemmas *)

TombStep == AllSpent' /\ TombsStay' /\ Targets' /\ Fresh' /\ Copied'

(* Every id of the log in force is its own version.                         *)
LEMMA Versions ==
  ASSUME ChunkInv, Sound, Young, Unwrapped, NEW c \in vlog.tree, id[c] # 0
  PROVE  Version(c) = id[c] /\ id[c] < vlog.nextId /\ id[c] \in Nat
<1>1. c \in Alive(vlog) /\ id[c] \in Nat /\ vlog.nextId \in Nat /\ taken \in Nat
  BY ChunkFacts DEF Alive, ChunkInv, TypeOK
<1>2. id[c] < vlog.nextId
  BY <1>1 DEF Sound, Chained, Linked
<1>3. /\ MaxTaken \in Nat /\ VersionMod \in Nat \ {0} /\ MaxTaken < VersionMod
      /\ taken <= MaxTaken /\ vlog.nextId <= taken + 1
  BY BookLogAssumption DEF Unwrapped, Young
<1>4. id[c] < VersionMod
  BY <1>1, <1>2, <1>3
<1>5. id[c] % VersionMod = id[c]
  BY <1>1, <1>3, <1>4
<1>6. QED BY <1>1, <1>2, <1>5 DEF Version

(* What a step may do to the chunks of the log in force: a chunk with an id *)
(* of before keeps its items, and gets bits only for new ones.              *)
Onward ==
  /\ vlog'.nextId >= vlog.nextId
  /\ \A c \in vlog'.tree : id'[c] # 0 =>
       \/ id'[c] >= vlog.nextId
       \/ /\ c \in vlog.tree /\ id'[c] = id[c]
          /\ \A i \in Slots : item[c][i] # Blank =>
               item'[c][i] # Blank /\ (i \in bits'[c] => i \in bits[c])

LEMMA SpentOnward ==
  ASSUME ChunkInv, ChunkInv', Onward, NEW x \in Items, Spent(x)
  PROVE  Spent(x)'
<1>1. SUFFICES ASSUME x.type = "free" PROVE Spent(x)'
  BY DEF Spent
<1>2. x.ref[1] \in Chunks /\ x.ref[2] \in Slots /\ x.ver \in Nat
  BY <1>1, BookLogAssumption DEF Items, Blank, Refs
<1>3. vlog.nextId \in Nat /\ vlog'.nextId \in Nat /\ id' \in [Chunks -> Nat]
  BY DEF ChunkInv, TypeOK, Logs
<1>4. x.ver < vlog.nextId
  BY <1>1 DEF Spent
<1>5. x.ver < vlog'.nextId
  BY <1>2, <1>3, <1>4 DEF Onward
<1>6. ASSUME x.ref[1] \in vlog'.tree, id'[x.ref[1]] # 0, x.ver = id'[x.ref[1]]
      PROVE  item'[x.ref[1]][x.ref[2]] # Blank /\ x.ref[2] \notin bits'[x.ref[1]]
  <2>1. ~(id'[x.ref[1]] >= vlog.nextId)
    BY <1>2, <1>3, <1>4, <1>6
  <2>2. /\ x.ref[1] \in vlog.tree /\ id'[x.ref[1]] = id[x.ref[1]]
        /\ \A i \in Slots : item[x.ref[1]][i] # Blank =>
             item'[x.ref[1]][i] # Blank /\ (i \in bits'[x.ref[1]] => i \in bits[x.ref[1]])
    BY <1>6, <2>1 DEF Onward
  <2>3. item[x.ref[1]][x.ref[2]] # Blank /\ x.ref[2] \notin bits[x.ref[1]]
    BY <1>1, <1>6, <2>2 DEF Spent
  <2>4. QED BY <1>2, <2>2, <2>3
<1>7. QED BY <1>5, <1>6 DEF Spent

(* The tombstones outside the file after a step are those of before, but    *)
(* for one that is made.                                                    *)
HandedOn ==
  /\ \A k \in DOMAIN tombs' : \/ \E m \in DOMAIN tombs : tombs'[k] = tombs[m]
                              \/ Spent(tombs[k])'
  /\ lock' = "flusher" => \/ lock = "flusher" /\ job' = job
                          \/ \E m \in DOMAIN tombs : job' = tombs[m]

LEMMA AllSpentStep ==
  ASSUME ChunkInv, ChunkInv', AllSpent, Onward, HandedOn,
         \A c \in vlog'.tree, i \in Slots : item'[c][i].type = "free" =>
           \/ c \in vlog.tree /\ item'[c][i] = item[c][i]
           \/ Spent(item[c][i])'
  PROVE  AllSpent'
<1>1. tombs \in Seq(Items) /\ job \in Items /\ item \in [Chunks -> [Slots -> Items]]
      /\ vlog.tree \subseteq Chunks
  BY ChunkFacts DEF ChunkInv, TypeOK
<1>2. \A m \in DOMAIN tombs : tombs[m] \in Items /\ Spent(tombs[m])
  BY <1>1 DEF AllSpent
<1>3. \A x \in Items : Spent(x) => Spent(x)'
  BY SpentOnward
<1>4. ASSUME NEW k \in DOMAIN tombs' PROVE Spent(tombs[k])'
  <2>1. SUFFICES ASSUME NEW m \in DOMAIN tombs, tombs'[k] = tombs[m] PROVE Spent(tombs[k])'
    BY <1>4 DEF HandedOn
  <2>2. PICK x \in Items : x = tombs[m]
    BY <1>2
  <2>3. Spent(x)'
    BY <1>2, <1>3, <2>2
  <2>4. QED BY <2>1, <2>2, <2>3
<1>5. lock' = "flusher" => Spent(job)'
  <2>1. SUFFICES ASSUME lock' = "flusher" PROVE Spent(job)'
    OBVIOUS
  <2>2. PICK x \in Items : x = job' /\ Spent(x)
    BY <1>1, <1>2, <2>1 DEF HandedOn, AllSpent
  <2>3. Spent(x)'
    BY <1>3, <2>2
  <2>4. QED BY <2>2, <2>3
<1>6. ASSUME NEW c \in vlog'.tree, NEW i \in Slots PROVE Spent(item[c][i])'
  <2>1. CASE item'[c][i].type # "free"
    BY <2>1 DEF Spent
  <2>2. CASE c \in vlog.tree /\ item'[c][i] = item[c][i]
    <3>1. Spent(item[c][i]) /\ item[c][i] \in Items
      BY <1>1, <2>2 DEF AllSpent
    <3>2. PICK x \in Items : x = item[c][i]
      BY <3>1
    <3>3. Spent(x)'
      BY <1>3, <3>1, <3>2
    <3>4. QED BY <2>2, <3>2, <3>3
  <2>3. QED BY <1>6, <2>1, <2>2
<1>7. QED BY <1>4, <1>5, <1>6 DEF AllSpent

LEMMA LiveSame ==
  ASSUME vlog'.tree = vlog.tree, \A c \in vlog.tree : item'[c] = item[c] /\ id'[c] = id[c], NEW a
  PROVE  Live(vlog.tree, a)' = Live(vlog.tree, a)
<1>1. \A r \in vlog.tree \X Slots : r[1] \in vlog.tree /\ Version(r[1])' = Version(r[1])
  BY DEF Version
<1>2. \A r \in vlog.tree \X Slots : Dead(vlog.tree, r)' <=> Dead(vlog.tree, r)
  BY <1>1 DEF Dead
<1>3. QED BY <1>1, <1>2 DEF Live

(* Steps that touch no chunk and no extent.                                 *)
LEMMA QuietTombs ==
  ASSUME ChunkInv, ChunkInv', TombSound, HandedOn, Fresh',
         UNCHANGED <<id, item, bits, extLog, held, freeing, moved, new>>,
         vlog'.tree = vlog.tree, vlog'.nextId = vlog.nextId,
         at' = "copy" => marks' \subseteq bits[cursor']
  PROVE  TombStep
<1>1. vlog.nextId \in Nat
  BY ChunkFacts DEF Logs
<1>2. Onward
  BY <1>1 DEF Onward
<1>3. AllSpent'
  BY <1>2, AllSpentStep DEF TombSound
<1>4. TombsStay' /\ Targets'
  BY DEF TombSound, TombsStay, Targets
<1>5. Copied'
  <2>1. \A a \in Addrs : Live(vlog.tree, a)' = Live(vlog.tree, a)
    BY LiveSame
  <2>2. QED BY <2>1 DEF TombSound, Copied
<1>6. QED BY <1>3, <1>4, <1>5 DEF TombStep

LEMMA FinishHands ==
  ASSUME ChunkInv, Finish
  PROVE  HandedOn /\ (at' = "item" => job'.type = "free") /\ at' \in {"item", "out"}
<1>1. CASE lock = "flusher" /\ tombs # <<>>
  <2>1. at' = "item" /\ job' = Head(tombs) /\ tombs' = Tail(tombs) /\ lock' = lock
    BY <1>1 DEF Finish, Goto
  <2>0. tombs \in Seq(Items)
    BY DEF ChunkInv, TypeOK
  <2>2. /\ Head(tombs) = tombs[1] /\ 1 \in DOMAIN tombs
        /\ \A k \in DOMAIN Tail(tombs) : k + 1 \in DOMAIN tombs /\ Tail(tombs)[k] = tombs[k + 1]
    BY <1>1, <2>0
  <2>3. job'.type = "free"
    BY <2>1, <2>2 DEF ChunkInv, Holder
  <2>4. QED BY <2>1, <2>2, <2>3 DEF HandedOn
<1>2. CASE ~(lock = "flusher" /\ tombs # <<>>)
  <2>1. lock' = "none" /\ at' = "out" /\ tombs' = tombs
    BY <1>2 DEF Finish, Leave
  <2>2. QED BY <2>1 DEF HandedOn
<1>3. QED BY <1>1, <1>2

LEMMA QuietTombSteps ==
  ASSUME ChunkInv, ChunkInv', TombSound,
         \/ \E t \in Threads : (\E a \in Addrs : AllocBegin(t, a)) \/ FreeLocal(t)
         \/ FlushBegin \/ Tick \/ TickLoose \/ Unlink
         \/ GcWake \/ GcDrop \/ GcVisit \/ GcAdvance \/ GcFlip
         \/ \E why : Stop(why)
  PROVE  TombStep
<1>1. /\ UNCHANGED <<id, item, bits, extLog, held, freeing, moved, new>>
      /\ vlog' = vlog \/ \E k : vlog' = [vlog EXCEPT !.timer = k]
  BY DEF AllocBegin, FreeLocal, FlushBegin, Tick, TickLoose, Due, Unlink, GcWake, GcDrop, GcVisit,
     GcAdvance, GcFlip, Stop, fileVars, chunkVars, userVars, gcVars, walkVars
<1>2. vlog'.tree = vlog.tree /\ vlog'.nextId = vlog.nextId
  BY <1>1, ChunkFacts DEF Logs
<1>3. (\A k \in DOMAIN tombs : tombs[k].type = "free") /\ tombs \in Seq(Items)
      /\ (lock = "none" <=> at = "out") /\ "flusher" \notin Threads
  BY BookLogAssumption DEF ChunkInv, Holder, TypeOK
<1>4. ASSUME NEW t \in Threads, (\E a \in Addrs : AllocBegin(t, a)) \/ FreeLocal(t)
      PROVE  HandedOn /\ Fresh' /\ (at' = "copy" => marks' \subseteq bits[cursor'])
  <2>1. lock' = t /\ at' = "item" /\ tombs' = tombs /\ held' = held
    BY <1>4 DEF AllocBegin, FreeLocal, userVars, Goto
  <2>2. HandedOn
    BY <1>3, <2>1 DEF HandedOn
  <2>3. Fresh'
    BY <1>4, <2>1 DEF AllocBegin, FreeLocal, Fresh, Normal, Tomb
  <2>4. QED BY <2>1, <2>2, <2>3
<1>5. CASE FlushBegin
  <2>1. /\ lock' = "flusher" /\ at' = "item" /\ job' = Head(tombs) /\ tombs' = Tail(tombs)
        /\ tombs # <<>>
    BY <1>5 DEF FlushBegin
  <2>2. /\ Head(tombs) = tombs[1] /\ 1 \in DOMAIN tombs
        /\ \A k \in DOMAIN Tail(tombs) : k + 1 \in DOMAIN tombs /\ Tail(tombs)[k] = tombs[k + 1]
    BY <1>3, <2>1
  <2>3. HandedOn
    BY <2>1, <2>2 DEF HandedOn
  <2>4. Fresh'
    BY <1>3, <2>1, <2>2 DEF Fresh
  <2>5. QED BY <1>1, <1>2, <2>1, <2>3, <2>4, QuietTombs
<1>6. CASE Tick
  <2>1. Finish
    BY <1>6 DEF Tick
  <2>2. HandedOn /\ Fresh' /\ at' # "copy"
    BY <2>1, FinishHands DEF Fresh
  <2>3. QED BY <1>1, <1>2, <2>2, QuietTombs
<1>7. ASSUME UNCHANGED <<tombs, lock, job>>, at' = "item" => at = "item",
             at' = "copy" => marks' \subseteq bits[cursor']
      PROVE  TombStep
  <2>1. HandedOn
    BY <1>7 DEF HandedOn
  <2>2. Fresh'
    BY <1>1, <1>7 DEF TombSound, Fresh
  <2>3. QED BY <1>1, <1>2, <1>7, <2>1, <2>2, QuietTombs
<1>8. CASE GcVisit
  <2>1. UNCHANGED <<tombs, lock, job>> /\ at' = "copy" /\ marks' = Counting(cursor) /\ cursor' = cursor
    BY <1>8 DEF GcVisit, Goto
  <2>2. Counting(cursor) \subseteq bits[cursor]
    BY DEF Counting
  <2>3. QED BY <1>7, <2>1, <2>2
<1>9. CASE TickLoose \/ Unlink \/ GcAdvance \/ GcFlip
  <2>1. UNCHANGED <<tombs, lock, job>> /\ at' \in {"retire", "visit", "swap"}
    BY <1>9 DEF TickLoose, Unlink, GcAdvance, GcFlip, Goto
  <2>2. QED BY <1>7, <2>1
<1>10. CASE GcWake \/ GcDrop \/ \E why : Stop(why)
  <2>1. UNCHANGED <<tombs, lock, job, at, marks, cursor>>
    BY <1>10 DEF GcWake, GcDrop, Stop, gcVars, walkVars, procVars
  <2>2. at' = "copy" => marks' \subseteq bits[cursor']
    BY <2>1 DEF TombSound, Copied
  <2>3. QED BY <1>7, <2>1, <2>2
<1>11. CASE \E t \in Threads : (\E a \in Addrs : AllocBegin(t, a)) \/ FreeLocal(t)
  BY <1>1, <1>2, <1>4, <1>11, QuietTombs
<1>12. QED BY <1>5, <1>6, <1>8, <1>9, <1>10, <1>11

LEMMA FreeBeginTombs ==
  ASSUME ChunkInv, ChunkInv', Sound, TombSound, NEW t \in Threads, NEW a \in Addrs, FreeBegin(t, a)
  PROVE  TombStep
<1>1. /\ a \in held /\ held' = held \ {a} /\ freeing' = [freeing EXCEPT ![t] = extLog[a]]
      /\ extLog' \in {extLog, [extLog EXCEPT ![a] = NoRef]}
      /\ UNCHANGED <<id, item, bits, vlog, new, moved, tombs, lock, at, job, marks, cursor>>
  BY DEF FreeBegin, fileVars, chunkVars, gcVars, walkVars, procVars
<1>2. /\ extLog \in [Addrs -> Refs \cup {NoRef}] /\ freeing \in [Threads -> Refs \cup {NoRef}]
      /\ vlog.nextId \in Nat
  BY ChunkFacts DEF Logs
<1>3. \A b \in Addrs : extLog'[b] \in {extLog[b], NoRef}
  BY <1>1, <1>2
<1>4. AllSpent' /\ TombsStay'
  <2>1. AllSpent /\ TombsStay
    BY DEF TombSound
  <2>2. AllSpent'
    BY <1>1, <2>1 DEF AllSpent, Spent
  <2>3. TombsStay'
    BY <1>1, <2>1 DEF TombsStay
  <2>4. QED BY <2>2, <2>3
<1>5. Targets'
  <2>1. item[extLog[a][1]][extLog[a][2]].type = "normal"
    <3>1. item[extLog[a][1]][extLog[a][2]] = Normal(a)
      BY <1>1 DEF Sound, Recorded
    <3>2. Normal(a).type = "normal"
      BY DEF Normal
    <3>3. QED BY <3>1, <3>2
  <2>2. \A u \in Threads : freeing'[u] = IF u = t THEN extLog[a] ELSE freeing[u]
    BY <1>1, <1>2
  <2>3. QED BY <1>1, <2>1, <2>2 DEF TombSound, Targets
<1>6. Fresh'
  BY <1>1 DEF TombSound, Fresh
<1>7. Copied'
  <2>1. \A b \in Addrs : Live(vlog.tree, b)' = Live(vlog.tree, b)
    BY <1>1, LiveSame
  <2>2. QED BY <1>1, <1>3, <2>1 DEF TombSound, Copied
<1>8. QED BY <1>4, <1>5, <1>6, <1>7 DEF TombStep

(* Outside slow_GC there is no second log.                                  *)
LEMMA Uncopied ==
  ASSUME new'.tree = {}, at' # "copy"
  PROVE  Copied'
BY DEF Copied

(* The item a client ends.                                                  *)
LEMMA EndedItem ==
  ASSUME ChunkInv, Sound, Young, Unwrapped, TombSound, NEW t \in Threads \ moved,
         freeing[t] # NoRef, freeing[t][1] \in vlog.tree, at \in {"out", "item"}, NEW r, r = freeing[t]
  PROVE  /\ r \in Refs /\ r[1] \in Chunks /\ r[2] \in Slots /\ r = <<r[1], r[2]>>
         /\ item[r[1]][r[2]] # Blank /\ item[r[1]][r[2]].type = "normal"
         /\ Version(r[1]) = id[r[1]] /\ id[r[1]] < vlog.nextId
         /\ Tomb(r, Version(r[1])) \in Items
<1>1. Kept(r) /\ r \in Refs \cup {NoRef} /\ item[r[1]][r[2]].type = "normal"
  BY ChunkFacts DEF Sound, Ending, TombSound, Targets
<1>2. r \in Refs /\ r[1] \in Chunks /\ r[2] \in Slots /\ r = <<r[1], r[2]>>
  BY <1>1, KeptPlace
<1>3. id[r[1]] # 0
  BY DEF ChunkInv, Marking
<1>4. Version(r[1]) = id[r[1]] /\ id[r[1]] < vlog.nextId /\ id[r[1]] \in Nat
  BY <1>3, Versions
<1>5. Version(r[1]) \in 0 .. VersionMod - 1
  BY <1>4, BookLogAssumption DEF Version
<1>6. QED BY <1>1, <1>2, <1>4, <1>5 DEF Kept, Items, Tomb

LEMMA FreeRemoteTombs ==
  ASSUME ChunkInv, ChunkInv', Sound, Young, Unwrapped, TombSound, NEW t \in Threads, FreeRemote(t)
  PROVE  TombStep
<1> DEFINE x == Tomb(freeing[t], Version(freeing[t][1]))
<1>1. /\ lock = "none" /\ freeing[t] # NoRef /\ t \notin moved /\ freeing[t][1] \in vlog.tree
      /\ bits' = Cleared(freeing[t]) /\ tombs' = Append(tombs, x)
      /\ freeing' = [freeing EXCEPT ![t] = NoRef]
      /\ UNCHANGED <<id, item, vlog, new, extLog, held, moved, lock, at, job>>
  BY DEF FreeRemote, Misses, gcVars, walkVars, procVars
<1>2. /\ at = "out" /\ TypeChunk /\ freeing \in [Threads -> Refs \cup {NoRef}]
      /\ tombs \in Seq(Items) /\ vlog.nextId \in Nat /\ vlog.tree \subseteq Chunks /\ new.tree = {}
  BY <1>1, ChunkFacts, TypeParts DEF ChunkInv, TypeOK, Logs
<1>0. PICK r : r = freeing[t]
  OBVIOUS
<1>3. /\ r \in Refs /\ r[1] \in Chunks /\ r[2] \in Slots /\ r = <<r[1], r[2]>>
      /\ item[r[1]][r[2]] # Blank /\ item[r[1]][r[2]].type = "normal"
      /\ Version(r[1]) = id[r[1]] /\ id[r[1]] < vlog.nextId /\ x \in Items
  BY <1>0, <1>1, <1>2, EndedItem
<1>4. \A c \in Chunks : bits'[c] = IF c = r[1] THEN bits[c] \ {r[2]} ELSE bits[c]
  BY <1>0, <1>1, <1>2, <1>3, ClearTypes
<1>5. Onward
  <2>1. \A c \in vlog.tree : bits'[c] \subseteq bits[c]
    BY <1>2, <1>4
  <2>2. QED BY <1>1, <1>2, <2>1 DEF Onward
<1>6. x.type = "free" /\ x.ref = r /\ x.ver = id[r[1]]
  BY <1>0, <1>3 DEF Tomb
<1> HIDE DEF x
<1>7. HandedOn
  <2>1. ASSUME NEW k \in DOMAIN tombs'
        PROVE  (\E m \in DOMAIN tombs : tombs'[k] = tombs[m]) \/ tombs'[k] = x
    BY <1>1, <1>2, <1>3
  <2>2. ASSUME NEW k \in DOMAIN tombs', tombs'[k] = x
        PROVE  Spent(tombs[k])'
    BY <1>1, <1>3, <1>4, <1>6, <2>2 DEF Spent
  <2>3. \A k \in DOMAIN tombs' : \/ \E m \in DOMAIN tombs : tombs'[k] = tombs[m]
                                \/ Spent(tombs[k])'
    BY <2>1, <2>2
  <2>4. lock' # "flusher"
    BY <1>1
  <2>5. QED BY <2>3, <2>4 DEF HandedOn
<1>8. AllSpent'
  <2>1. \A c \in vlog'.tree, i \in Slots : c \in vlog.tree /\ item'[c][i] = item[c][i]
    BY <1>1
  <2>2. QED BY <1>5, <1>7, <2>1, AllSpentStep DEF TombSound
<1>9. TombsStay'
  BY <1>1, <1>2, <1>3, <1>4 DEF TombSound, TombsStay
<1>10. Targets'
  <2>1. \A u \in Threads : freeing'[u] = IF u = t THEN NoRef ELSE freeing[u]
    BY <1>1, <1>2
  <2>2. QED BY <1>1, <2>1 DEF TombSound, Targets
<1>11. Fresh' /\ Copied'
  BY <1>1, <1>2, Uncopied DEF Fresh
<1>12. QED BY <1>8, <1>9, <1>10, <1>11 DEF TombStep

(* Item x has gone to place p, blank before, and nowhere else, and of the   *)
(* bits f only its own has been added.                                      *)
Placed(x, f, p) ==
  /\ Onward /\ UNCHANGED id
  /\ p \in Refs /\ p[1] = vlog.tail /\ item'[p[1]][p[2]] = x /\ p[2] \in bits'[p[1]]
  /\ \A c \in Chunks : bits'[c] = IF c = p[1] THEN f[c] \cup {p[2]} ELSE f[c]
  /\ \A c \in Chunks, i \in Slots :
       \/ ~(c = p[1] /\ i = p[2]) /\ item'[c][i] = item[c][i]
       \/ c = p[1] /\ i = p[2] /\ item[c][i] = Blank

LEMMA PlacedOnward ==
  ASSUME ChunkInv, ~Full(vlog.tail), NEW x \in Items, Append1(vlog.tail, x),
         vlog'.tree = vlog.tree, vlog'.nextId = vlog.nextId,
         NEW p, p = Place(vlog.tail),
         NEW f \in [Chunks -> SUBSET Slots], bits' = SetBit(f, p),
         \A c \in Chunks : f[c] \subseteq bits[c]
  PROVE  Placed(x, f, p)
<1>1. vlog.tail \in Chunks /\ TypeChunk /\ vlog.tree \subseteq Chunks /\ vlog.nextId \in Nat
  BY ChunkFacts, TypeParts DEF ChunkInv, Logs
<1>2. p \in Refs /\ p[1] = vlog.tail /\ p[2] = Index(cnt[vlog.tail]) /\ p[1] \in Chunks /\ p[2] \in Slots
  BY <1>1, PlaceIn DEF Place
<1>3. \A c \in Chunks : bits'[c] = IF c = p[1] THEN f[c] \cup {p[2]} ELSE f[c]
  <2>1. bits' = [f EXCEPT ![p[1]] = @ \cup {p[2]}]
    BY DEF SetBit
  <2>2. QED BY <1>2, <2>1
<1>4. /\ item'[p[1]][p[2]] = x
      /\ \A r \in Refs : item[r[1]][r[2]] # Blank => r # p /\ item'[r[1]][r[2]] = item[r[1]][r[2]]
  BY <1>1, <1>2, AppendPlace
<1>5. /\ \A d \in Chunks \ {p[1]} : item'[d] = item[d]
      /\ item'[p[1]] = [item[p[1]] EXCEPT ![p[2]] = x] /\ item[p[1]] \in [Slots -> Items] /\ UNCHANGED id
  BY <1>1, <1>2, AppendTypes DEF TypeChunk
<1>6. p = <<p[1], p[2]>>
  BY <1>2 DEF Place
<1>7. ASSUME NEW c \in Chunks, NEW i \in Slots
      PROVE  /\ \/ ~(c = p[1] /\ i = p[2]) /\ item'[c][i] = item[c][i]
                \/ c = p[1] /\ i = p[2] /\ item[c][i] = Blank
             /\ item[c][i] # Blank => item'[c][i] # Blank /\ (i \in bits'[c] => i \in bits[c])
  <2>1. CASE c = p[1] /\ i = p[2]
    <3>1. PICK r \in Refs : r = <<c, i>>
      BY DEF Refs
    <3>2. r = p /\ r[1] = c /\ r[2] = i
      BY <1>6, <2>1, <3>1
    <3>3. item[c][i] = Blank
      BY <1>4, <3>2
    <3>4. QED BY <2>1, <3>3
  <2>2. CASE ~(c = p[1] /\ i = p[2])
    <3>1. item'[c][i] = item[c][i]
      BY <1>2, <1>5, <2>2
    <3>2. ASSUME i \in bits'[c] PROVE i \in bits[c]
      <4>1. bits'[c] = (IF c = p[1] THEN f[c] \cup {p[2]} ELSE f[c]) /\ f[c] \subseteq bits[c]
        BY <1>3
      <4>2. i \in f[c]
        BY <2>2, <3>2, <4>1
      <4>3. QED BY <4>1, <4>2
    <3>3. QED BY <2>2, <3>1, <3>2
  <2>3. QED BY <2>1, <2>2
<1>8. Onward
  BY <1>1, <1>5, <1>7 DEF Onward
<1>9. p[2] \in bits'[p[1]]
  BY <1>2, <1>3
<1>10. \A c \in Chunks, i \in Slots :
         \/ ~(c = p[1] /\ i = p[2]) /\ item'[c][i] = item[c][i]
         \/ c = p[1] /\ i = p[2] /\ item[c][i] = Blank
  BY <1>7
<1>11. UNCHANGED id /\ item'[p[1]][p[2]] = x
  BY <1>4, <1>5
<1>12. QED BY <1>2, <1>3, <1>8, <1>9, <1>10, <1>11 DEF Placed

LEMMA WriteNormalTombs ==
  ASSUME ChunkInv, ChunkInv', Sound, TombSound, WriteNormal
  PROVE  TombStep
<1>1. /\ at = "item" /\ ~Full(vlog.tail) /\ job.type = "normal" /\ Append1(vlog.tail, job)
      /\ bits' = SetBit(bits, Place(vlog.tail))
      /\ vlog' = [vlog EXCEPT !.items = (@ + 1) % SizeMod]
      /\ UNCHANGED <<freeing, moved, new, tombs>> /\ lock' = "none" /\ at' = "out"
  BY DEF WriteNormal, gcVars, walkVars, Leave
<1>2. /\ vlog'.tree = vlog.tree /\ vlog'.nextId = vlog.nextId /\ bits \in [Chunks -> SUBSET Slots]
      /\ vlog.tree \subseteq Chunks /\ new.tree = {} /\ job \in Items
      /\ freeing \in [Threads -> Refs \cup {NoRef}]
  BY <1>1, ChunkFacts DEF Logs, ChunkInv, TypeOK
<1>3. PICK p : p = Place(vlog.tail)
  OBVIOUS
<1>4. /\ Onward
      /\ item'[p[1]][p[2]] = job
      /\ \A c \in Chunks : bits'[c] = IF c = p[1] THEN bits[c] \cup {p[2]} ELSE bits[c]
      /\ \A c \in Chunks, i \in Slots :
           \/ ~(c = p[1] /\ i = p[2]) /\ item'[c][i] = item[c][i]
           \/ c = p[1] /\ i = p[2] /\ item[c][i] = Blank
  <2>1. PICK f \in [Chunks -> SUBSET Slots] : f = bits
    BY <1>2
  <2>2. bits' = SetBit(f, p) /\ \A c \in Chunks : f[c] \subseteq bits[c]
    BY <1>1, <1>3, <2>1
  <2>3. PICK x \in Items : x = job
    BY <1>2
  <2>4. Append1(vlog.tail, x)
    BY <1>1, <2>3
  <2>5. Placed(x, f, p)
    BY <1>1, <1>2, <1>3, <2>2, <2>4, PlacedOnward
  <2>6. QED BY <2>1, <2>3, <2>5 DEF Placed
<1>5. HandedOn
  BY <1>1 DEF HandedOn
<1>6. \A c \in vlog'.tree, i \in Slots : item'[c][i].type = "free" =>
        c \in vlog.tree /\ c \in Chunks /\ item'[c][i] = item[c][i]
  BY <1>1, <1>2, <1>4
<1>7. AllSpent'
  BY <1>4, <1>5, <1>6, AllSpentStep DEF TombSound
<1>8. TombsStay'
  <2>1. \A c \in vlog'.tree : c \in Chunks /\ bits[c] \subseteq bits'[c]
    BY <1>2, <1>4
  <2>2. QED BY <1>6, <2>1 DEF TombSound, TombsStay
<1>9. Targets'
  <2>1. ASSUME NEW t \in Threads \ moved, freeing[t] # NoRef
        PROVE  item'[freeing[t][1]][freeing[t][2]].type = "normal"
    <3>1. /\ item[freeing[t][1]][freeing[t][2]] # Blank
          /\ item[freeing[t][1]][freeing[t][2]].type = "normal"
      BY <2>1 DEF Sound, Ending, Kept, TombSound, Targets
    <3>2. freeing[t][1] \in Chunks /\ freeing[t][2] \in Slots
      BY <1>2, <2>1 DEF Refs
    <3>3. QED BY <1>4, <3>1, <3>2
  <2>2. QED BY <1>1, <2>1 DEF Targets
<1>10. Fresh' /\ Copied'
  BY <1>1, <1>2, Uncopied DEF Fresh
<1>11. QED BY <1>7, <1>8, <1>9, <1>10 DEF TombStep

LEMMA WriteTombTombs ==
  ASSUME ChunkInv, ChunkInv', Sound, TombSound, WriteTomb
  PROVE  TombStep
<1>1. /\ at = "item" /\ lock = "flusher" /\ ~Full(vlog.tail) /\ Append1(vlog.tail, job)
      /\ bits' = SetBit(bits, Place(vlog.tail))
      /\ UNCHANGED <<freeing, moved, new, tombs, vlog, lock, job>> /\ at' = "tick"
  BY DEF WriteTomb, userVars, gcVars, walkVars, Goto
<1>2. /\ bits \in [Chunks -> SUBSET Slots] /\ "flusher" \notin Threads
      /\ vlog.tree \subseteq Chunks /\ new.tree = {} /\ job \in Items
      /\ freeing \in [Threads -> Refs \cup {NoRef}] /\ job.type = "free"
  BY <1>1, BookLogAssumption, ChunkFacts DEF ChunkInv, TypeOK, Holder
<1>3. PICK p : p = Place(vlog.tail)
  OBVIOUS
<1>4. /\ Onward
      /\ item'[p[1]][p[2]] = job /\ p[2] \in bits'[p[1]]
      /\ \A c \in Chunks : bits'[c] = IF c = p[1] THEN bits[c] \cup {p[2]} ELSE bits[c]
      /\ \A c \in Chunks, i \in Slots :
           \/ ~(c = p[1] /\ i = p[2]) /\ item'[c][i] = item[c][i]
           \/ c = p[1] /\ i = p[2] /\ item[c][i] = Blank
  <2>1. PICK f \in [Chunks -> SUBSET Slots] : f = bits
    BY <1>2
  <2>2. bits' = SetBit(f, p) /\ \A c \in Chunks : f[c] \subseteq bits[c]
    BY <1>1, <1>3, <2>1
  <2>3. PICK x \in Items : x = job
    BY <1>2
  <2>4. Append1(vlog.tail, x)
    BY <1>1, <2>3
  <2>5. Placed(x, f, p)
    BY <1>1, <1>2, <1>3, <2>2, <2>4, PlacedOnward
  <2>6. QED BY <2>1, <2>3, <2>5 DEF Placed
<1>5. HandedOn
  BY <1>1 DEF HandedOn
<1>6. PICK x \in Items : x = job
  BY <1>2
<1>7. Spent(x)'
  BY <1>1, <1>4, <1>6, SpentOnward DEF TombSound, AllSpent
<1>8. ASSUME NEW c \in vlog'.tree, NEW i \in Slots, item'[c][i].type = "free"
      PROVE  (c \in vlog.tree /\ item'[c][i] = item[c][i]) \/ Spent(item[c][i])'
  <2>1. c \in vlog.tree /\ c \in Chunks
    BY <1>1, <1>2
  <2>2. CASE item'[c][i] = item[c][i]
    BY <2>1, <2>2
  <2>3. CASE c = p[1] /\ i = p[2]
    BY <1>4, <1>6, <1>7, <2>3
  <2>4. QED BY <1>4, <2>1, <2>2, <2>3
<1>9. AllSpent'
  BY <1>4, <1>5, <1>8, AllSpentStep DEF TombSound
<1>10. TombsStay'
  <2>1. ASSUME NEW c \in vlog.tree, NEW i \in Slots, item'[c][i].type = "free"
        PROVE  i \in bits'[c]
    <3>1. c \in Chunks
      BY <1>2
    <3>2. CASE item'[c][i] = item[c][i]
      <4>1. i \in bits[c]
        BY <2>1, <3>2 DEF TombSound, TombsStay
      <4>2. QED BY <1>4, <3>1, <4>1
    <3>3. CASE c = p[1] /\ i = p[2]
      BY <1>4, <3>3
    <3>4. QED BY <1>4, <3>1, <3>2, <3>3
  <2>2. QED BY <1>1, <2>1 DEF TombsStay
<1>11. Targets'
  <2>1. ASSUME NEW t \in Threads \ moved, freeing[t] # NoRef
        PROVE  item'[freeing[t][1]][freeing[t][2]].type = "normal"
    <3>1. /\ item[freeing[t][1]][freeing[t][2]] # Blank
          /\ item[freeing[t][1]][freeing[t][2]].type = "normal"
      BY <2>1 DEF Sound, Ending, Kept, TombSound, Targets
    <3>2. freeing[t][1] \in Chunks /\ freeing[t][2] \in Slots
      BY <1>2, <2>1 DEF Refs
    <3>3. QED BY <1>4, <3>1, <3>2
  <2>2. QED BY <1>1, <2>1 DEF Targets
<1>12. Fresh' /\ Copied'
  BY <1>1, <1>2, Uncopied DEF Fresh
<1>13. QED BY <1>9, <1>10, <1>11, <1>12 DEF TombStep

LEMMA WriteFreeTombs ==
  ASSUME ChunkInv, ChunkInv', Sound, Young, Unwrapped, TombSound, WriteFree
  PROVE  TombStep
<1> DEFINE y == Tomb(job.ref, Version(job.ref[1]))
<1>1. /\ at = "item" /\ ~Full(vlog.tail) /\ lock \in Threads \ moved /\ job.type = "free"
      /\ job.ref[1] \in vlog.tree /\ Append1(vlog.tail, y)
      /\ bits' = SetBit(Cleared(job.ref), Place(vlog.tail))
      /\ freeing' = [freeing EXCEPT ![lock] = NoRef]
      /\ UNCHANGED <<vlog, extLog, held, moved, new, tombs, lock, job>> /\ at' = "tick"
  BY DEF WriteFree, Misses, gcVars, walkVars, Goto
<1>2. /\ bits \in [Chunks -> SUBSET Slots] /\ "flusher" \notin Threads /\ TypeChunk
      /\ vlog.tree \subseteq Chunks /\ new.tree = {} /\ vlog.nextId \in Nat
      /\ freeing \in [Threads -> Refs \cup {NoRef}]
      /\ freeing[lock] # NoRef /\ job.ref = freeing[lock]
  BY <1>1, BookLogAssumption, ChunkFacts, TypeParts DEF ChunkInv, TypeOK, Holder, Logs
<1>3. PICK r, t : r = job.ref /\ t = lock
  OBVIOUS
<1>4. /\ r \in Refs /\ r[1] \in Chunks /\ r[2] \in Slots /\ r = <<r[1], r[2]>>
      /\ item[r[1]][r[2]] # Blank /\ item[r[1]][r[2]].type = "normal"
      /\ Version(r[1]) = id[r[1]] /\ id[r[1]] < vlog.nextId /\ Tomb(r, Version(r[1])) \in Items
  <2>1. t \in Threads \ moved /\ freeing[t] # NoRef /\ freeing[t][1] \in vlog.tree /\ r = freeing[t]
    BY <1>1, <1>2, <1>3
  <2>2. QED BY <1>1, <2>1, EndedItem
<1>5. PICK x \in Items : x = y
  BY <1>3, <1>4
<1>6. x.type = "free" /\ x.ref = r /\ x.ver = id[r[1]]
  BY <1>3, <1>4, <1>5 DEF Tomb
<1>7. Append1(vlog.tail, x)
  BY <1>1, <1>5
<1>8. PICK f \in [Chunks -> SUBSET Slots] : f = Cleared(r)
  BY <1>2, <1>4, ClearTypes
<1>9. \A c \in Chunks : f[c] = IF c = r[1] THEN bits[c] \ {r[2]} ELSE bits[c]
  BY <1>2, <1>4, <1>8, ClearTypes
<1>10. PICK p : p = Place(vlog.tail)
  OBVIOUS
<1> HIDE DEF y
<1>11. Placed(x, f, p)
  <2>1. bits' = SetBit(f, p) /\ \A c \in Chunks : f[c] \subseteq bits[c]
    BY <1>1, <1>3, <1>8, <1>9, <1>10
  <2>2. QED BY <1>1, <1>7, <1>10, <2>1, PlacedOnward
<1>12. /\ Onward /\ id' = id /\ item'[p[1]][p[2]] = x /\ p[2] \in bits'[p[1]]
       /\ \A c \in Chunks : bits'[c] = IF c = p[1] THEN f[c] \cup {p[2]} ELSE f[c]
       /\ \A c \in Chunks, i \in Slots :
            \/ ~(c = p[1] /\ i = p[2]) /\ item'[c][i] = item[c][i]
            \/ c = p[1] /\ i = p[2] /\ item[c][i] = Blank
  BY <1>11 DEF Placed
<1>13. HandedOn
  BY <1>1 DEF HandedOn
<1>14. Spent(x)'
  <2>1. ~(r[1] = p[1] /\ r[2] = p[2]) /\ item'[r[1]][r[2]] = item[r[1]][r[2]]
    BY <1>4, <1>12
  <2>2. r[2] \notin bits'[r[1]]
    <3>1. r[2] \notin f[r[1]]
      BY <1>4, <1>9
    <3>2. bits'[r[1]] = IF r[1] = p[1] THEN f[r[1]] \cup {p[2]} ELSE f[r[1]]
      BY <1>4, <1>12
    <3>3. QED BY <2>1, <3>1, <3>2
  <2>3. QED BY <1>1, <1>4, <1>6, <1>12, <2>1, <2>2 DEF Spent
<1>15. ASSUME NEW c \in vlog'.tree, NEW i \in Slots, item'[c][i].type = "free"
       PROVE  (c \in vlog.tree /\ item'[c][i] = item[c][i]) \/ Spent(item[c][i])'
  <2>1. c \in vlog.tree /\ c \in Chunks
    BY <1>1, <1>2
  <2>2. CASE item'[c][i] = item[c][i]
    BY <2>1, <2>2
  <2>3. CASE c = p[1] /\ i = p[2]
    BY <1>12, <1>14, <2>3
  <2>4. QED BY <1>12, <2>1, <2>2, <2>3
<1>16. AllSpent'
  BY <1>12, <1>13, <1>15, AllSpentStep DEF TombSound
<1>17. TombsStay'
  <2>1. ASSUME NEW c \in vlog.tree, NEW i \in Slots, item'[c][i].type = "free"
        PROVE  i \in bits'[c]
    <3>1. c \in Chunks
      BY <1>2
    <3>2. CASE item'[c][i] = item[c][i]
      <4>1. i \in bits[c]
        BY <2>1, <3>2 DEF TombSound, TombsStay
      <4>2. ~(c = r[1] /\ i = r[2])
        BY <1>4, <2>1, <3>2
      <4>3. QED BY <1>9, <1>12, <3>1, <4>1, <4>2
    <3>3. CASE c = p[1] /\ i = p[2]
      BY <1>12, <3>3
    <3>4. QED BY <1>12, <3>1, <3>2, <3>3
  <2>2. QED BY <1>1, <2>1 DEF TombsStay
<1>18. Targets'
  <2>1. ASSUME NEW u \in Threads \ moved, freeing'[u] # NoRef
        PROVE  item'[freeing'[u][1]][freeing'[u][2]].type = "normal"
    <3>0. freeing'[u] = freeing[u] /\ freeing[u] # NoRef
      BY <1>1, <1>2, <2>1
    <3>1. /\ item[freeing[u][1]][freeing[u][2]] # Blank
          /\ item[freeing[u][1]][freeing[u][2]].type = "normal"
      BY <2>1, <3>0 DEF Sound, Ending, Kept, TombSound, Targets
    <3>2. freeing[u][1] \in Chunks /\ freeing[u][2] \in Slots
      BY <1>2, <2>1, <3>0 DEF Refs
    <3>3. QED BY <1>12, <3>0, <3>1, <3>2
  <2>2. QED BY <1>1, <2>1 DEF Targets
<1>19. Fresh' /\ Copied'
  BY <1>1, <1>2, Uncopied DEF Fresh
<1>20. QED BY <1>16, <1>17, <1>18, <1>19 DEF TombStep

(* fast_GC only takes chunks out of the log.                                *)
LEMMA FastTombs ==
  ASSUME ChunkInv, ChunkInv', Sound, TombSound, Retire \/ FastDone
  PROVE  TombStep
<1>1. /\ at = "retire" /\ UNCHANGED <<item, bits, new, extLog, held, freeing, moved>>
      /\ \/ Retire /\ id' = [id EXCEPT ![Highest(Empty \ Retired)] = 0] /\ vlog' = vlog
            /\ at' = "unlink" /\ UNCHANGED <<tombs, lock, job>>
         \/ FastDone /\ id' = id /\ Finish
            /\ vlog' = [vlog EXCEPT !.tree = @ \ Empty,
                                    !.chunks = @ - Cardinality(Empty),
                                    !.items = Fewer(NItems * Cardinality(Empty))]
  BY DEF Retire, FastDone, Goto, chunkVars, userVars, gcVars, walkVars
<1>2. /\ vlog \in Logs /\ vlog.nextId \in Nat /\ id \in [Chunks -> Nat] /\ vlog.tree \subseteq Chunks
      /\ new.tree = {}
  BY <1>1, ChunkFacts DEF Logs
<1>3. vlog'.tree \subseteq vlog.tree /\ vlog'.nextId = vlog.nextId
  BY <1>1, <1>2 DEF Logs
<1>4. \A c \in Chunks : id'[c] # 0 => id'[c] = id[c]
  BY <1>1, <1>2
<1>5. Onward
  <2>1. \A c \in vlog'.tree : c \in vlog.tree /\ (id'[c] # 0 => id'[c] = id[c])
    BY <1>2, <1>3, <1>4
  <2>2. vlog'.nextId >= vlog.nextId
    BY <1>2, <1>3
  <2>3. QED BY <1>1, <2>1, <2>2 DEF Onward
<1>6. HandedOn /\ Fresh' /\ at' # "copy"
  <2>1. CASE Retire
    BY <1>1, <2>1 DEF HandedOn, Fresh, Retire, Goto
  <2>2. CASE FastDone
    <3>1. Finish
      BY <2>2 DEF FastDone
    <3>2. QED BY <3>1, FinishHands DEF Fresh
  <2>3. QED BY <2>1, <2>2
<1>7. AllSpent'
  BY <1>1, <1>3, <1>5, <1>6, AllSpentStep DEF TombSound
<1>8. TombsStay' /\ Targets'
  BY <1>1, <1>3 DEF TombSound, TombsStay, Targets
<1>9. Copied'
  BY <1>1, <1>2, <1>6, Uncopied
<1>10. QED BY <1>6, <1>7, <1>8, <1>9 DEF TombStep

(* A chunk that is taken is blank, and the others stay.                     *)
LEMMA TakenBlank ==
  ASSUME ChunkInv, NEW v, v.nextId \in Nat, TakeChunk(NewChunk, v)
  PROVE  /\ \A i \in Slots : item'[NewChunk][i] = Blank
         /\ \A t \in Threads \ moved : Sound /\ freeing[t] # NoRef =>
              item'[freeing[t][1]] = item[freeing[t][1]]
         /\ \A c \in vlog.tree \cup new.tree :
              c # NewChunk /\ item'[c] = item[c] /\ bits'[c] = bits[c] /\ id'[c] = id[c]
<1>1. NewChunk \in Chunks /\ TypeChunk /\ vlog.tree \cup new.tree \subseteq Chunks
  BY TakenApart, ChunkFacts, TypeParts DEF ChunkInv
<1>2. item' = [item EXCEPT ![NewChunk] = [i \in Slots |-> Blank]]
  BY DEF TakeChunk
<1>3. \A i \in Slots : item'[NewChunk][i] = Blank
  <2> DEFINE n == NewChunk
  <2>1. n \in Chunks /\ item' = [item EXCEPT ![n] = [i \in Slots |-> Blank]]
    BY <1>1, <1>2
  <2> HIDE DEF n
  <2>2. \A i \in Slots : item'[n][i] = Blank
    BY <1>1, <2>1 DEF TypeChunk
  <2>3. QED BY <2>2 DEF n
<1>4. \A c \in vlog.tree \cup new.tree :
        c # NewChunk /\ item'[c] = item[c] /\ bits'[c] = bits[c] /\ id'[c] = id[c]
  BY <1>1, TakenApart
<1>5. \A t \in Threads \ moved : Sound /\ freeing[t] # NoRef =>
        item'[freeing[t][1]] = item[freeing[t][1]]
  BY <1>4 DEF Sound, Ending, Kept
<1>6. QED BY <1>3, <1>4, <1>5

LEMMA GrowTombs ==
  ASSUME ChunkInv, ChunkInv', Sound, TombSound, Grow
  PROVE  TombStep
<1>1. /\ at = "item" /\ TakeChunk(NewChunk, vlog) /\ vlog' = Extended(vlog)
      /\ UNCHANGED <<extLog, held, freeing, moved, new, tombs, lock, at, job>>
  BY DEF Grow, Extend, userVars, gcVars, walkVars, procVars
<1>2. vlog \in Logs /\ vlog.nextId \in Nat /\ new.tree = {} /\ vlog.tree \subseteq Chunks
  BY <1>1, ChunkFacts DEF Logs
<1>3. /\ NewChunk \in Chunks /\ id'[NewChunk] = vlog.nextId
      /\ \A i \in Slots : item'[NewChunk][i] = Blank
      /\ \A c \in vlog.tree : c # NewChunk /\ item'[c] = item[c] /\ bits'[c] = bits[c] /\ id'[c] = id[c]
      /\ \A t \in Threads \ moved : freeing[t] # NoRef =>
           item'[freeing[t][1]] = item[freeing[t][1]]
  BY <1>1, <1>2, TakenApart, TakenBlank
<1>4. vlog'.tree = vlog.tree \cup {NewChunk} /\ vlog'.nextId = vlog.nextId + 1
  BY <1>1, <1>2, <1>3, ExtendedIs
<1>5. Onward
  <2>1. vlog'.nextId >= vlog.nextId
    BY <1>2, <1>4
  <2>2. \A c \in vlog'.tree : c = NewChunk \/ c \in vlog.tree
    BY <1>4
  <2>3. id'[NewChunk] >= vlog.nextId
    BY <1>2, <1>3
  <2>4. QED BY <1>3, <2>1, <2>2, <2>3 DEF Onward
<1>6. Blank.type # "free"
  BY DEF Blank
<1>7. HandedOn
  BY <1>1 DEF HandedOn
<1>8. \A c \in vlog'.tree, i \in Slots : item'[c][i].type = "free" =>
        c \in vlog.tree /\ item'[c][i] = item[c][i]
  BY <1>3, <1>4, <1>6
<1>9. AllSpent'
  BY <1>5, <1>7, <1>8, AllSpentStep DEF TombSound
<1>10. TombsStay'
  BY <1>3, <1>8 DEF TombSound, TombsStay
<1>11. Targets'
  BY <1>1, <1>3 DEF TombSound, Targets
<1>12. Fresh'
  BY <1>1 DEF TombSound, Fresh
<1>13. Copied'
  BY <1>1, <1>2, Uncopied
<1>14. QED BY <1>9, <1>10, <1>11, <1>12, <1>13 DEF TombStep

(* slow_GC takes a chunk for the new log.                                   *)
LEMMA GcTakeTombs ==
  ASSUME ChunkInv, ChunkInv', Sound, TombSound, GcRoot \/ GcFirst \/ GcGrow
  PROVE  TombStep
<1>1. /\ UNCHANGED <<extLog, held, freeing, moved, vlog, tombs, job, marks>>
      /\ \E v : v.nextId \in Nat /\ TakeChunk(NewChunk, v)
      /\ lock' = "gc" /\ at' \in {"first", "visit", "copy"}
      /\ (GcRoot => at = "out" /\ at' = "first")
      /\ (GcFirst => at = "first" /\ at' = "visit")
      /\ (GcGrow => at = "copy" /\ at' = "copy" /\ cursor' = cursor)
      /\ (GcFirst \/ GcGrow => new' = Extended(new) /\ NewChunk \in Chunks)
  <2>1. /\ UNCHANGED <<extLog, held, freeing, moved, vlog, tombs, job, marks>>
        /\ at' \in {"first", "visit", "copy"}
    BY DEF GcRoot, GcFirst, GcGrow, userVars, procVars, Goto
  <2>2. /\ new.nextId \in Nat /\ Unborn.nextId \in Nat /\ (lock = "none" <=> at = "out")
        /\ (lock = "gc" <=> at \in {"first", "visit", "copy", "swap"})
        /\ (lock = "gc" <=> at \in {"first", "visit", "copy", "swap"})'
    BY ChunkFacts DEF Logs, Unborn, NoLog, ChunkInv, Holder
  <2>3. TakeChunk(NewChunk, new) \/ TakeChunk(NewChunk, Unborn)
    BY DEF GcRoot, GcFirst, GcGrow, Extend
  <2>4. NewChunk \in Chunks
    BY <2>2, <2>3, TakenApart
  <2>5. QED BY <2>1, <2>2, <2>3, <2>4 DEF GcRoot, GcFirst, GcGrow, Goto, procVars
<1>2. /\ vlog.nextId \in Nat /\ vlog.tree \subseteq Chunks /\ new \in Logs
      /\ (at \in {"out", "first"} => new.tree = {}) /\ Sound
  BY ChunkFacts DEF Logs
<1>3. /\ \A i \in Slots : item'[NewChunk][i] = Blank
      /\ \A c \in vlog.tree \cup new.tree :
           c # NewChunk /\ item'[c] = item[c] /\ bits'[c] = bits[c] /\ id'[c] = id[c]
      /\ \A t \in Threads \ moved : freeing[t] # NoRef =>
           item'[freeing[t][1]] = item[freeing[t][1]]
  BY <1>1, <1>2, TakenBlank
<1>4. Onward
  <2>1. vlog'.nextId >= vlog.nextId
    BY <1>1, <1>2
  <2>2. QED BY <1>1, <1>3, <2>1 DEF Onward
<1>5. HandedOn
  BY <1>1 DEF HandedOn
<1>6. AllSpent'
  BY <1>1, <1>3, <1>4, <1>5, AllSpentStep DEF TombSound
<1>7. TombsStay'
  BY <1>1, <1>3 DEF TombSound, TombsStay
<1>8. Targets'
  BY <1>1, <1>3 DEF TombSound, Targets
<1>9. Fresh'
  BY <1>1 DEF Fresh
<1>10. Copied'
  <2>1. CASE GcRoot
    <3>1. new'.tree = {}
      BY <1>1, <2>1 DEF ChunkInv, Logs1
    <3>2. QED BY <1>1, <2>1, <3>1, Uncopied
  <2>2. CASE GcFirst \/ GcGrow
    <3>1. new'.tree = new.tree \cup {NewChunk}
      BY <1>1, <1>2, <2>2, ExtendedIs
    <3>2. \A c \in new'.tree, i \in Slots : \/ c \in new.tree /\ item'[c][i] = item[c][i]
                                           \/ item'[c][i] = Blank
      BY <1>3, <3>1
    <3>3. Blank.type # "free" /\ \A a : Normal(a) # Blank
      BY DEF Blank, Normal
    <3>4. at' = "copy" => marks' \subseteq bits'[cursor']
      <4>1. SUFFICES ASSUME at' = "copy" PROVE marks' \subseteq bits'[cursor']
        OBVIOUS
      <4>2. at = "copy" /\ cursor' = cursor /\ marks' = marks
        BY <1>1, <2>2, <4>1
      <4>3. cursor \in vlog.tree /\ marks \subseteq bits[cursor]
        BY <4>2 DEF ChunkInv, Looking, TombSound, Copied
      <4>4. QED BY <1>3, <4>2, <4>3
    <3>5. \A c \in new'.tree, i \in Slots : item'[c][i].type # "free"
      BY <3>2, <3>3 DEF TombSound, Copied
    <3>6. ASSUME NEW r \in new'.tree \X Slots, NEW a \in Addrs, item'[r[1]][r[2]] = Normal(a)
          PROVE  /\ extLog'[a] \in {r, NoRef}
                 /\ Live(vlog.tree, a)' # {}
                 /\ \A q \in new'.tree \X Slots : item'[q[1]][q[2]] = Normal(a) => q = r
      <4>1. \A q \in new'.tree \X Slots : item'[q[1]][q[2]] = Normal(a) =>
              q \in new.tree \X Slots /\ item[q[1]][q[2]] = Normal(a)
        BY <3>2, <3>3
      <4>2. r \in new.tree \X Slots /\ item[r[1]][r[2]] = Normal(a)
        BY <3>6, <4>1
      <4>3. /\ extLog[a] \in {r, NoRef} /\ Live(vlog.tree, a) # {}
            /\ \A q \in new.tree \X Slots : item[q[1]][q[2]] = Normal(a) => q = r
        BY <4>2 DEF TombSound, Copied
      <4>4. Live(vlog.tree, a)' = Live(vlog.tree, a)
        BY <1>1, <1>3, LiveSame
      <4>5. QED BY <1>1, <4>1, <4>3, <4>4
    <3>7. QED BY <3>4, <3>5, <3>6 DEF Copied
  <2>3. QED BY <2>1, <2>2
<1>11. QED BY <1>6, <1>7, <1>8, <1>9, <1>10 DEF TombStep

(* The item slow_GC copies is a record that counts.                         *)
LEMMA MarkedLives ==
  ASSUME ChunkInv, Sound, Young, Unwrapped, TombSound, at = "copy", marks # {},
         NEW a \in Addrs, item[cursor][Lowest(marks)] = Normal(a)
  PROVE  Live(vlog.tree, a) # {}
<1> DEFINE l == Lowest(marks)
<1>1. cursor \in vlog.tree /\ l \in marks /\ l \in Slots /\ cursor \in Chunks
  BY MarkedItem, ChunkFacts
<1>2. l \in bits[cursor] /\ id[cursor] # 0
  BY <1>1 DEF TombSound, Copied, ChunkInv, Marking
<1>3. Version(cursor) = id[cursor]
  BY <1>1, <1>2, Versions
<1> HIDE DEF l
<1>4. PICK r : r = <<cursor, l>>
  OBVIOUS
<1>5. r \in vlog.tree \X Slots /\ r[1] = cursor /\ r[2] = l
  BY <1>1, <1>4
<1>6. ASSUME NEW d \in vlog.tree, NEW j \in Slots, item[d][j] = Tomb(r, Version(r[1]))
      PROVE  FALSE
  <2>1. Spent(item[d][j])
    BY DEF TombSound, AllSpent
  <2>2. item[d][j].type = "free" /\ item[d][j].ref = r /\ item[d][j].ver = id[cursor]
    BY <1>3, <1>5, <1>6 DEF Tomb
  <2>3. l \notin bits[cursor]
    BY <1>1, <1>2, <1>5, <2>1, <2>2 DEF Spent
  <2>4. QED BY <1>2, <2>3
<1>7. r \in Live(vlog.tree, a)
  BY <1>5, <1>6 DEF Live, Dead, l
<1>8. QED BY <1>7

LEMMA GcCopyTombs ==
  ASSUME ChunkInv, ChunkInv', Sound, Young, Unwrapped, TombSound, GcCopy
  PROVE  TombStep
<1>1. /\ at = "copy" /\ at' = "copy" /\ lock' = lock /\ marks # {} /\ extLog[Owner] = Marked
      /\ ~Full(new.tail) /\ Append1(new.tail, Normal(Owner))
      /\ bits' = SetBit(bits, Place(new.tail))
      /\ new' = [new EXCEPT !.items = (@ + 1) % SizeMod]
      /\ extLog' = [extLog EXCEPT ![Owner] = Place(new.tail)]
      /\ marks' = marks \ {Lowest(marks)}
      /\ UNCHANGED <<vlog, held, freeing, moved, cursor, tombs, job>>
  BY DEF GcCopy, Redirected, procVars
<1>2. /\ cursor \in vlog.tree /\ Lowest(marks) \in marks /\ Owner \in Addrs
      /\ item[cursor][Lowest(marks)] = Normal(Owner)
  BY <1>1, MarkedItem
<1>3. /\ new \in Logs /\ new.tail \in new.tree /\ new.tree \subseteq Chunks /\ vlog.tree \subseteq Chunks
      /\ TypeChunk /\ extLog \in [Addrs -> Refs \cup {NoRef}]
      /\ freeing \in [Threads -> Refs \cup {NoRef}] /\ vlog.nextId \in Nat
      /\ vlog.tree \cap new.tree = {} /\ new'.tree = new.tree
  BY <1>1, ChunkFacts, LogsApart, TypeParts DEF ChunkInv, Logs
<1>4. PICK o, p : o = Owner /\ o \in Addrs /\ p = Place(new.tail)
  BY <1>2
<1>5. /\ p \in Refs /\ p[1] = new.tail /\ p[2] \in Slots /\ p[2] = Index(cnt[new.tail])
      /\ p = <<p[1], p[2]>> /\ Normal(o) \in Items
  BY <1>1, <1>3, <1>4, PlaceIn DEF Place, Items, Normal
<1>6. /\ item'[p[1]][p[2]] = Normal(o) /\ id' = id
      /\ \A d \in Chunks \ {p[1]} : item'[d] = item[d]
      /\ \A i \in Slots \ {p[2]} : item'[p[1]][i] = item[p[1]][i]
  <2>1. /\ \A d \in Chunks \ {p[1]} : item'[d] = item[d]
        /\ item'[p[1]] = [item[p[1]] EXCEPT ![p[2]] = Normal(o)] /\ id' = id
    BY <1>1, <1>3, <1>4, <1>5, AppendTypes
  <2>2. item[p[1]] \in [Slots -> Items]
    BY <1>3, <1>5 DEF TypeChunk
  <2>3. QED BY <1>5, <2>1, <2>2
<1>7. \A c \in vlog.tree : /\ item'[c] = item[c] /\ bits'[c] = bits[c] /\ id'[c] = id[c]
  <2>1. \A c \in Chunks : bits'[c] = IF c = p[1] THEN bits[c] \cup {p[2]} ELSE bits[c]
    <3>1. bits \in [Chunks -> SUBSET Slots] /\ bits' = SetBit(bits, p)
      BY <1>1, <1>3, <1>4 DEF TypeChunk
    <3>2. QED BY <1>5, <3>1, BitTypes
  <2>2. QED BY <1>3, <1>5, <1>6, <2>1
<1>8. Onward
  BY <1>1, <1>3, <1>7 DEF Onward
<1>9. HandedOn
  BY <1>1 DEF HandedOn
<1>10. AllSpent'
  BY <1>1, <1>7, <1>8, <1>9, AllSpentStep DEF TombSound
<1>11. TombsStay'
  BY <1>1, <1>7 DEF TombSound, TombsStay
<1>12. Targets'
  <2>1. ASSUME NEW u \in Threads \ moved, freeing[u] # NoRef
        PROVE  item'[freeing[u][1]][freeing[u][2]].type = "normal"
    <3>1. item[freeing[u][1]][freeing[u][2]].type = "normal"
      BY <2>1 DEF TombSound, Targets
    <3>2. freeing[u][1] \in Chunks /\ freeing[u][2] \in Slots
      BY <1>3, <2>1 DEF Refs
    <3>3. Normal(o).type = "normal"
      BY DEF Normal
    <3>4. CASE freeing[u][1] = p[1] /\ freeing[u][2] = p[2]
      BY <1>6, <3>3, <3>4
    <3>5. CASE ~(freeing[u][1] = p[1] /\ freeing[u][2] = p[2])
      BY <1>6, <3>1, <3>2, <3>5
    <3>6. QED BY <3>4, <3>5
  <2>2. QED BY <1>1, <2>1 DEF Targets
<1>13. Fresh'
  BY <1>1 DEF Fresh
<1>14. Copied'
  <2>1. marks' \subseteq bits'[cursor']
    BY <1>1, <1>2, <1>7 DEF TombSound, Copied
  <2>2. \A c \in new.tree, i \in Slots : \/ c = p[1] /\ i = p[2]
                                       \/ item'[c][i] = item[c][i]
    BY <1>3, <1>6
  <2>3. Normal(o).type # "free" /\ \A a : Normal(a) = Normal(o) => a = o
    BY DEF Normal
  <2>4. \A c \in new'.tree, i \in Slots : item'[c][i].type # "free"
    BY <1>3, <1>6, <2>2, <2>3 DEF TombSound, Copied
  <2>5. \A a \in Addrs : Live(vlog.tree, a)' = Live(vlog.tree, a)
    BY <1>1, <1>7, LiveSame
  <2>6. \A a \in Addrs : extLog'[a] = IF a = o THEN p ELSE extLog[a]
    BY <1>1, <1>3, <1>4
  <2>7. \A q \in new.tree \X Slots : item[q[1]][q[2]] # Normal(o)
    <3>1. SUFFICES ASSUME NEW q \in new.tree \X Slots, item[q[1]][q[2]] = Normal(o) PROVE FALSE
      OBVIOUS
    <3>2. extLog[o] \in {q, NoRef}
      BY <1>4, <3>1 DEF TombSound, Copied
    <3>3. extLog[o][1] = cursor
      BY <1>1, <1>4 DEF Marked
    <3>4. q[1] \in new.tree /\ NoRef[1] = 0 /\ 0 \notin Chunks
      BY ChunkRange DEF NoRef, Nil, Chunks
    <3>5. QED BY <1>2, <1>3, <3>2, <3>3, <3>4
  <2>8. Live(vlog.tree, o) # {}
    BY <1>1, <1>2, <1>4, MarkedLives
  <2>9. ASSUME NEW r \in new'.tree \X Slots, NEW a \in Addrs, item'[r[1]][r[2]] = Normal(a)
        PROVE  /\ extLog'[a] \in {r, NoRef}
               /\ Live(vlog.tree, a)' # {}
               /\ \A q \in new'.tree \X Slots : item'[q[1]][q[2]] = Normal(a) => q = r
    <3>1. ASSUME NEW q \in new'.tree \X Slots
          PROVE  \/ q = p
                 \/ q \in new.tree \X Slots /\ item'[q[1]][q[2]] = item[q[1]][q[2]]
      <4>1. q[1] \in new.tree /\ q[2] \in Slots /\ q = <<q[1], q[2]>> /\ q \in new.tree \X Slots
        BY <1>3, <3>1
      <4>2. CASE q[1] = p[1] /\ q[2] = p[2]
        BY <1>5, <4>1, <4>2
      <4>3. CASE ~(q[1] = p[1] /\ q[2] = p[2])
        BY <2>2, <4>1, <4>3
      <4>4. QED BY <4>2, <4>3
    <3>2. CASE a = o
      <4>1. \A q \in new'.tree \X Slots : item'[q[1]][q[2]] = Normal(a) => q = p
        BY <2>7, <3>1, <3>2
      <4>2. QED BY <2>5, <2>6, <2>8, <2>9, <3>2, <4>1
    <3>3. CASE a # o
      <4>1. \A q \in new'.tree \X Slots : item'[q[1]][q[2]] = Normal(a) =>
              q \in new.tree \X Slots /\ item[q[1]][q[2]] = Normal(a)
        BY <1>6, <2>3, <3>1, <3>3
      <4>2. r \in new.tree \X Slots /\ item[r[1]][r[2]] = Normal(a)
        BY <2>9, <4>1
      <4>3. /\ extLog[a] \in {r, NoRef} /\ Live(vlog.tree, a) # {}
            /\ \A q \in new.tree \X Slots : item[q[1]][q[2]] = Normal(a) => q = r
        BY <4>2 DEF TombSound, Copied
      <4>4. QED BY <2>5, <2>6, <3>3, <4>1, <4>3
    <3>4. QED BY <3>2, <3>3
  <2>10. QED BY <2>1, <2>4, <2>9 DEF Copied
<1>15. QED BY <1>10, <1>11, <1>12, <1>13, <1>14 DEF TombStep

(* The new log has no tombstones.                                           *)
LEMMA GcSwapTombs ==
  ASSUME ChunkInv, ChunkInv', TombSound, GcSwap
  PROVE  TombStep
<1>1. /\ tombs' = <<>> /\ lock' = "none" /\ at' = "out" /\ vlog' = new /\ new' = NoLog
      /\ moved \subseteq moved' /\ UNCHANGED <<item, bits, freeing>>
  BY DEF GcSwap, Leave, chunkVars
<1>2. \A c \in vlog'.tree, i \in Slots : item'[c][i].type # "free"
  BY <1>1 DEF TombSound, Copied
<1>3. AllSpent'
  BY <1>1, <1>2 DEF AllSpent, Spent
<1>4. TombsStay' /\ Fresh'
  BY <1>1, <1>2 DEF TombsStay, Fresh
<1>5. Targets'
  BY <1>1 DEF TombSound, Targets
<1>6. Copied'
  BY <1>1, Uncopied DEF NoLog
<1>7. QED BY <1>3, <1>4, <1>5, <1>6 DEF TombStep

-----------------------------------------------------------------------------
(* The steps of the program *)

LEMMA YoungKeeps == ChunkInv /\ Young /\ [Next]_vars => Young'
<1> SUFFICES ASSUME ChunkInv, Young, [Next]_vars PROVE Young'
  OBVIOUS
<1>1. /\ vlog \in Logs /\ new \in Logs /\ vlog.nextId \in Nat /\ new.nextId \in Nat /\ taken \in Nat
      /\ MaxTaken \in Nat
  BY BookLogAssumption DEF ChunkInv, TypeOK, Logs
<1>2. ASSUME taken' = taken, vlog'.nextId \in {vlog.nextId, new.nextId, 0},
             new'.nextId \in {new.nextId, 0}
      PROVE  Young'
  BY <1>1, <1>2 DEF Young
<1>3. ASSUME NEW v, TakeChunk(NewChunk, v), vlog'.nextId <= taken + 2, new'.nextId <= taken + 2
      PROVE  Young'
  <2>1. taken' = taken + 1 /\ taken < MaxTaken
    BY <1>3 DEF TakeChunk
  <2>2. QED BY <1>1, <1>3, <2>1 DEF Young
<1>4. CASE UNCHANGED vars
  BY <1>2, <1>4 DEF vars, fileVars, spaceVars, gcVars, walkVars
<1>5. CASE ClientStep
  BY <1>2, <1>5 DEF ClientStep, AllocBegin, FreeBegin, FreeLocal, FreeRemote, fileVars, spaceVars,
     gcVars, walkVars
<1>6. CASE Grow
  <2>1. TakeChunk(NewChunk, vlog) /\ new' = new /\ vlog' = Extended(vlog)
    BY <1>6 DEF Grow, Extend, gcVars, walkVars
  <2>2. vlog'.nextId = vlog.nextId + 1
    BY <1>1, <2>1, TakenApart, ExtendedIs
  <2>3. vlog'.nextId <= taken + 2 /\ new'.nextId <= taken + 2
    BY <1>1, <2>1, <2>2 DEF Young
  <2>4. QED BY <1>3, <2>1, <2>3
<1>7. CASE FlushBegin \/ WriteNormal \/ WriteFree \/ WriteTomb \/ Tick \/ TickLoose \/ Retire \/ Unlink
           \/ FastDone
  <2>1. taken' = taken /\ new' = new
    BY <1>7 DEF FlushBegin, WriteNormal, WriteFree, WriteTomb, Append1, Tick, TickLoose, Due, Retire,
       Unlink, FastDone, fileVars, spaceVars, gcVars, walkVars
  <2>2. \/ vlog' = vlog \/ (\E k : vlog' = [vlog EXCEPT !.timer = k])
        \/ (\E k : vlog' = [vlog EXCEPT !.items = k])
        \/ \E k, l, m : vlog' = [vlog EXCEPT !.tree = k, !.chunks = l, !.items = m]
    BY <1>7 DEF FlushBegin, WriteNormal, WriteFree, WriteTomb, Tick, TickLoose, Due, Retire, Unlink,
       FastDone
  <2>3. vlog'.nextId = vlog.nextId
    BY <1>1, <2>2 DEF Logs
  <2>4. QED BY <1>2, <2>1, <2>3
<1>8. CASE GcRoot
  <2>1. TakeChunk(NewChunk, Unborn) /\ vlog' = vlog
        /\ \E k : new' = [Unborn EXCEPT !.tail = NewChunk, !.nextId = 1, !.chunks = 1, !.timer = k]
    BY <1>8 DEF GcRoot
  <2>2. new'.nextId = 1
    BY <2>1 DEF Unborn, NoLog
  <2>3. vlog'.nextId <= taken + 2 /\ new'.nextId <= taken + 2
    BY <1>1, <2>1, <2>2 DEF Young
  <2>4. QED BY <1>3, <2>1, <2>3
<1>9. CASE GcFirst \/ GcGrow
  <2>1. TakeChunk(NewChunk, new) /\ vlog' = vlog /\ new' = Extended(new)
    BY <1>9 DEF GcFirst, GcGrow, Extend
  <2>2. new'.nextId = new.nextId + 1
    BY <1>1, <2>1, TakenApart, ExtendedIs
  <2>3. vlog'.nextId <= taken + 2 /\ new'.nextId <= taken + 2
    BY <1>1, <2>1, <2>2 DEF Young
  <2>4. QED BY <1>3, <2>1, <2>3
<1>10. CASE GcCopy
  <2>1. taken' = taken /\ vlog' = vlog /\ new' = [new EXCEPT !.items = (@ + 1) % SizeMod]
    BY <1>10 DEF GcCopy, Append1, spaceVars
  <2>2. new'.nextId = new.nextId
    BY <1>1, <2>1 DEF Logs
  <2>3. QED BY <1>2, <2>1, <2>2
<1>11. CASE GcWake \/ GcDrop \/ GcVisit \/ GcAdvance \/ GcFlip \/ GcSwap
  <2>1. /\ taken' = taken /\ (vlog' = vlog \/ vlog' = new) /\ (new' = new \/ new' = NoLog)
    BY <1>11 DEF GcWake, GcDrop, GcVisit, GcAdvance, GcFlip, GcSwap, fileVars, spaceVars, gcVars,
       walkVars
  <2>2. NoLog.nextId = 0
    BY DEF NoLog
  <2>3. QED BY <1>2, <2>1, <2>2
<1>12. CASE Failure
  BY <1>2, <1>12 DEF Failure, FreeRemoteFails, WriteFreeFails, TickDivides, GcDivides, GcVisitFails,
     GcCopyFails, Stop, fileVars, spaceVars, gcVars, walkVars
<1>13. CASE LogStep
  BY <1>6, <1>7, <1>13 DEF LogStep
<1>14. CASE GcStep
  BY <1>8, <1>9, <1>10, <1>11, <1>14 DEF GcStep
<1>15. QED BY <1>4, <1>5, <1>12, <1>13, <1>14 DEF Next

LEMMA TombKeeps ==
  Unwrapped /\ ChunkInv /\ ChunkInv' /\ ChainInv /\ TombInv /\ [Next]_vars => TombInv'
<1> SUFFICES ASSUME Unwrapped, ChunkInv, ChunkInv', ChainInv, TombInv, [Next]_vars, ~astray'
             PROVE  TombSound'
  BY YoungKeeps DEF TombInv
<1>1. Sound /\ Young /\ TombSound
  BY AstrayStays DEF ChainInv, TombInv
<1>2. TombStep
  <2>1. CASE UNCHANGED vars
    <3>1. Stop(failed)
      BY <2>1 DEF Stop, vars
    <3>2. QED BY <1>1, <3>1, QuietTombSteps
  <2>2. CASE ClientStep
    BY <1>1, <2>2, QuietTombSteps, FreeBeginTombs, FreeRemoteTombs DEF ClientStep
  <2>3. CASE LogStep
    BY <1>1, <2>3, QuietTombSteps, GrowTombs, WriteNormalTombs, WriteFreeTombs, WriteTombTombs,
       FastTombs DEF LogStep
  <2>4. CASE GcStep
    BY <1>1, <2>4, QuietTombSteps, GcTakeTombs, GcCopyTombs, GcSwapTombs DEF GcStep
  <2>5. CASE Failure
    <3>1. \E why : Stop(why)
      BY <2>5 DEF Failure, FreeRemoteFails, WriteFreeFails, TickDivides, GcDivides, GcVisitFails,
         GcCopyFails
    <3>2. QED BY <1>1, <3>1, QuietTombSteps
  <2>6. QED BY <2>1, <2>2, <2>3, <2>4, <2>5 DEF Next
<1>3. QED BY <1>2 DEF TombStep, TombSound

LEMMA TombsAtFirst == Unwrapped /\ Init => TombInv
<1> SUFFICES ASSUME Unwrapped, Init PROVE Young /\ TombSound
  BY DEF TombInv
<1>1. PICK f \in Files : InitFile(f)
  BY DEF Init
<1>2. /\ taken = 2 /\ vlog.nextId = 3 /\ vlog.tree = {2} /\ new.nextId = 0 /\ new.tree = {}
      /\ tombs = <<>> /\ lock = "none" /\ at = "out" /\ \A t \in Threads : freeing[t] = NoRef
  BY DEF Init, NoLog
<1>3. Young
  BY <1>2, BookLogAssumption DEF Young, Unwrapped
<1>4. \A c \in vlog.tree, i \in Slots : item[c][i].type # "free"
  <2>1. 2 \in Chunks
    BY BookLogAssumption DEF Chunks
  <2>2. \A i \in Slots : item[2][i] = Normal(f) \/ item[2][i] = Blank
    BY <1>1, <2>1 DEF InitFile
  <2>3. Normal(f).type # "free" /\ Blank.type # "free"
    BY DEF Normal, Blank
  <2>4. QED BY <1>2, <2>2, <2>3
<1>5. AllSpent /\ TombsStay /\ Targets /\ Fresh /\ Copied
  BY <1>2, <1>4 DEF AllSpent, Spent, TombsStay, Targets, Fresh, Copied
<1>6. QED BY <1>3, <1>5 DEF TombSound

LEMMA TombsAlways == Unwrapped => (Spec => []TombInv)
<1> SUFFICES ASSUME Unwrapped PROVE Spec => []TombInv
  OBVIOUS
<1>1. Init => TombInv
  BY TombsAtFirst
<1>2. ChunkInv /\ ChunkInv' /\ ChainInv /\ TombInv /\ [Next]_vars => TombInv'
  BY TombKeeps
<1>3. QED BY <1>1, <1>2, ChunksAlways, ChainAlways, PTL DEF Spec

(* No tombstone, in the file, in DRAM or in the flusher's hands, names a    *)
(* record that counts, though the chunk it names may have been collected    *)
(* and used again since: as long as the versions do not wrap and fast_GC    *)
(* has followed no pre_lchunk out of date.                                  *)
THEOREM TombstonesHarmless == Unwrapped => (Spec => []TombsHarmless)
<1> SUFFICES ASSUME Unwrapped PROVE Spec => []TombsHarmless
  OBVIOUS
<1>1. ASSUME ChunkInv, ChainInv, TombInv PROVE TombsHarmless
  <2>1. SUFFICES ASSUME ~astray, NEW x \in Tombstones(InFile), x.type = "free", x.ref[1] \in InFile,
                        x.ver = Version(x.ref[1]), x.ref[2] \in bits[x.ref[1]]
                 PROVE  FALSE
    BY DEF TombsHarmless
  <2>2. Sound /\ Young /\ TombSound
    BY <1>1, <2>1 DEF ChainInv, TombInv
  <2>3. InFile = {c \in Current.tree : id[c] # 0}
    BY <1>1, <2>2, SoundChain
  <2>4. lock = "gc" <=> at \in {"first", "visit", "copy", "swap"}
    BY <1>1 DEF ChunkInv, Holder
  <2>5. CASE at = "swap"
    <3>1. Current = new /\ lock = "gc"
      BY <2>4, <2>5 DEF Current
    <3>2. PICK d \in InFile, j \in Slots : x = item[d][j]
      BY <2>5, <3>1 DEF Tombstones
    <3>3. QED BY <2>1, <2>2, <2>3, <3>1, <3>2 DEF TombSound, Copied
  <2>6. CASE at # "swap"
    <3>1. Current = vlog
      BY <2>6 DEF Current
    <3>2. InFile \subseteq vlog.tree /\ \A c \in InFile : id[c] # 0
      BY <2>3, <3>1
    <3>3. Spent(x)
      BY <3>2, <2>2 DEF Tombstones, TombSound, AllSpent
    <3>4. x.ver = id[x.ref[1]] /\ x.ref[1] \in vlog.tree /\ id[x.ref[1]] # 0
      BY <1>1, <2>1, <2>2, <3>2, Versions
    <3>5. QED BY <2>1, <3>3, <3>4 DEF Spent
  <2>7. QED BY <2>5, <2>6
<1>2. QED BY <1>1, TombsAlways, ChunksAlways, ChainAlways, PTL

-----------------------------------------------------------------------------
(* What persistent memory says of the extents *)

Good == ChunkInv /\ Sound /\ Young /\ TombSound

LEMMA FileIs ==
  ChunkInv /\ Sound => /\ InFile = {c \in Current.tree : id[c] # 0} /\ InFile \subseteq Chunks
                       /\ Current.tail \in InFile
<1> SUFFICES ASSUME ChunkInv, Sound
             PROVE  /\ InFile = {c \in Current.tree : id[c] # 0} /\ InFile \subseteq Chunks
                    /\ Current.tail \in InFile
  OBVIOUS
<1>1. QED BY SoundChain, ChunkFacts DEF Current

(* Records counts the places of Live.                                       *)
LEMMA RecordsCount ==
  ASSUME NEW F \in SUBSET Chunks, NEW a \in Addrs
  PROVE  /\ Records(F)[a] = Cardinality(Live(F, a))
         /\ IsFiniteSet(Live(F, a)) /\ Cardinality(Live(F, a)) \in Nat
<1> DEFINE L == {r \in F \X Slots :
                   item[r[1]][r[2]] = Normal(a)
                     /\ Tomb(r, Version(r[1])) \notin {item[d][j] : d \in F, j \in Slots}}
<1>1. Records(F)[a] = Cardinality(L)
  BY DEF Records
<1>2. L = Live(F, a)
  BY DEF Live, Dead
<1>3. IsFiniteSet(Chunks) /\ IsFiniteSet(Slots)
  <2>1. FileChunks - 1 \in Int /\ NItems - 1 \in Int /\ 0 \in Int /\ 1 \in Int
    BY BookLogAssumption
  <2>2. IsFiniteSet(1 .. FileChunks - 1) /\ IsFiniteSet(0 .. NItems - 1)
    BY <2>1, FS_Interval
  <2>3. QED BY <2>2 DEF Chunks, Slots
<1>4. IsFiniteSet(F)
  BY <1>3, FS_Subset
<1>5. IsFiniteSet(F \X Slots)
  BY <1>3, <1>4, FS_Product
<1>6. Live(F, a) \in SUBSET (F \X Slots)
  BY DEF Live
<1>7. IsFiniteSet(Live(F, a))
  BY <1>5, <1>6, FS_Subset
<1>8. Cardinality(Live(F, a)) \in Nat
  BY <1>7, FS_CardinalityType
<1> HIDE DEF L
<1>9. QED BY <1>1, <1>2, <1>7, <1>8

(* Persistent memory holds a record of every extent held.                   *)
LEMMA HeldLives ==
  Unwrapped /\ Good => \A a \in held : a \in Addrs /\ Live(InFile, a) # {}
<1> SUFFICES ASSUME Unwrapped, Good, NEW a \in held PROVE a \in Addrs /\ Live(InFile, a) # {}
  OBVIOUS
<1>1. ChunkInv /\ Sound /\ Young /\ TombSound
  BY DEF Good
<1>2. InFile = {c \in Current.tree : id[c] # 0}
  BY <1>1, FileIs
<1>3. PICK r : r = extLog[a]
  OBVIOUS
<1>4. /\ Kept(r) /\ r \in Refs /\ a \in Addrs /\ r[1] \in Chunks /\ r[2] \in Slots
      /\ r = <<r[1], r[2]>> /\ item[r[1]][r[2]] = Normal(a)
  BY <1>1, <1>3, HeldPlace DEF Sound
<1>5. /\ lock = "gc" <=> at \in {"first", "visit", "copy", "swap"}
      /\ at \notin {"visit", "copy", "swap"} => new.tree = {}
  BY <1>1, ChunkFacts
<1>6. CASE at = "swap"
  <2>1. Current = new /\ r[1] \in new.tree
    BY <1>1, <1>3, <1>5, <1>6 DEF Current, Sound, Walking, Ahead
  <2>2. r[1] \in InFile /\ r \in InFile \X Slots
    BY <1>1, <1>2, <1>4, <2>1 DEF ChunkInv, Marking
  <2>3. ~Dead(InFile, r)
    <3>1. \A d \in InFile, j \in Slots : item[d][j].type # "free"
      BY <1>1, <1>2, <2>1 DEF TombSound, Copied
    <3>2. QED BY <3>1 DEF Dead, Tomb
  <2>4. r \in Live(InFile, a)
    BY <1>4, <2>2, <2>3 DEF Live
  <2>5. QED BY <1>4, <2>4
<1>7. CASE at # "swap" /\ r[1] \in vlog.tree
  <2>1. Current = vlog
    BY <1>7 DEF Current
  <2>2. r[2] \in bits[r[1]] /\ id[r[1]] # 0
    BY <1>1, <1>4, <1>7 DEF Kept, ChunkInv, Marking
  <2>3. r \in InFile \X Slots
    BY <1>2, <1>4, <1>7, <2>1, <2>2
  <2>4. Version(r[1]) = id[r[1]]
    BY <1>1, <1>7, <2>2, Versions
  <2>5. ASSUME NEW d \in InFile, NEW j \in Slots, item[d][j] = Tomb(r, Version(r[1])) PROVE FALSE
    <3>1. Spent(item[d][j])
      BY <1>1, <1>2, <2>1 DEF TombSound, AllSpent
    <3>2. item[d][j].type = "free" /\ item[d][j].ref = r /\ item[d][j].ver = id[r[1]]
      BY <2>4, <2>5 DEF Tomb
    <3>3. QED BY <1>7, <2>2, <3>1, <3>2 DEF Spent
  <2>6. r \in Live(InFile, a)
    BY <1>4, <2>3, <2>5 DEF Live, Dead
  <2>7. QED BY <1>4, <2>6
<1>8. CASE at # "swap" /\ r[1] \in new.tree
  <2>1. Current = vlog /\ at \in {"visit", "copy"}
    BY <1>5, <1>8 DEF Current
  <2>2. InFile = vlog.tree
    BY <1>1, <1>2, <2>1 DEF ChunkInv, Marking
  <2>3. r \in new.tree \X Slots
    BY <1>4, <1>8
  <2>4. Live(vlog.tree, a) # {}
    BY <1>1, <1>4, <2>3 DEF TombSound, Copied
  <2>5. QED BY <1>4, <2>2, <2>4
<1>9. QED BY <1>4, <1>6, <1>7, <1>8 DEF Kept

(* What lingers of an extent, from the chunks in persistent memory.         *)
Told ==
  /\ InFile = {c \in Current.tree : id[c] # 0} /\ InFile \subseteq Chunks
  /\ Lingering \in [Addrs -> Nat]
  /\ \A a \in Addrs :
       /\ Lingering[a] = Cardinality(Live(InFile, a)) - (IF a \in held THEN 1 ELSE 0)
       /\ Cardinality(Live(InFile, a)) \in Nat /\ IsFiniteSet(Live(InFile, a))

LEMMA TellsNow == Unwrapped /\ Good => Told
<1> SUFFICES ASSUME Unwrapped, Good PROVE Told
  OBVIOUS
<1>1. InFile = {c \in Current.tree : id[c] # 0} /\ InFile \in SUBSET Chunks
  BY FileIs DEF Good
<1>2. Lingering = [a \in Addrs |-> Records(InFile)[a] - (IF a \in held THEN 1 ELSE 0)]
  BY DEF Lingering
<1>3. \A a \in Addrs : /\ Records(InFile)[a] = Cardinality(Live(InFile, a))
                      /\ IsFiniteSet(Live(InFile, a)) /\ Cardinality(Live(InFile, a)) \in Nat
  BY <1>1, RecordsCount
<1>4. \A a \in held : Cardinality(Live(InFile, a)) # 0
  BY <1>3, HeldLives, FS_EmptySet
<1>5. \A a \in Addrs : Cardinality(Live(InFile, a)) - (IF a \in held THEN 1 ELSE 0) \in Nat
  BY <1>3, <1>4
<1>6. QED BY <1>1, <1>2, <1>3, <1>5 DEF Told

LEMMA TellsNext == Unwrapped /\ Good' => Told'
<1> SUFFICES ASSUME Unwrapped PROVE Good' => Told'
  OBVIOUS
<1>1. Good => Told
  BY TellsNow
<1>2. QED BY <1>1, PTL

(* A step adds no record and takes no tombstone out of the file.            *)
Waned ==
  /\ \A c \in InFile', i \in Slots : item'[c][i].type = "normal" =>
       c \in InFile /\ item'[c][i] = item[c][i] /\ id'[c] = id[c]
  /\ \A d \in InFile, j \in Slots : item[d][j].type = "free" =>
       d \in InFile' /\ item'[d][j] = item[d][j]

LEMMA WanedLive ==
  ASSUME Waned, NEW a
  PROVE  Live(InFile, a)' \subseteq Live(InFile, a)
<1>1. SUFFICES ASSUME NEW r \in InFile' \X Slots, item'[r[1]][r[2]] = Normal(a), ~Dead(InFile, r)'
               PROVE  r \in Live(InFile, a)
  BY DEF Live
<1>2. r[1] \in InFile' /\ r[2] \in Slots /\ item'[r[1]][r[2]].type = "normal"
  BY <1>1 DEF Normal
<1>3. r[1] \in InFile /\ item[r[1]][r[2]] = Normal(a) /\ id'[r[1]] = id[r[1]]
  BY <1>1, <1>2 DEF Waned
<1>4. r \in InFile \X Slots
  BY <1>1, <1>2, <1>3
<1>5. ASSUME NEW d \in InFile, NEW j \in Slots, item[d][j] = Tomb(r, Version(r[1]))
      PROVE  FALSE
  <2>1. item[d][j].type = "free"
    BY <1>5 DEF Tomb
  <2>2. d \in InFile' /\ item'[d][j] = item[d][j]
    BY <2>1 DEF Waned
  <2>3. Version(r[1])' = Version(r[1])
    BY <1>3 DEF Version
  <2>4. Dead(InFile, r)'
    BY <1>5, <2>2, <2>3 DEF Dead
  <2>5. QED BY <1>1, <2>4
<1>6. QED BY <1>3, <1>4, <1>5 DEF Live, Dead

LEMMA CountFades ==
  ASSUME Told, Told', held' = held,
         \A a \in Addrs : Cardinality(Live(InFile, a)') <= Cardinality(Live(InFile, a))
  PROVE  Durable!Fade
<1>1. Lingering' \in [Addrs -> Nat]
  BY DEF Told
<1>2. \A a \in Addrs : Lingering'[a] <= Lingering[a]
  BY DEF Told
<1>3. QED BY <1>1, <1>2 DEF Durable!Fade

LEMMA WanedFades ==
  ASSUME Told, Told', held' = held, Waned
  PROVE  Durable!Fade
<1>1. ASSUME NEW a \in Addrs
      PROVE  Cardinality(Live(InFile, a)') <= Cardinality(Live(InFile, a))
  <2>1. Live(InFile, a)' \in SUBSET Live(InFile, a)
    BY WanedLive
  <2>2. IsFiniteSet(Live(InFile, a))
    BY DEF Told
  <2>3. QED BY <2>1, <2>2, FS_Subset
<1>2. QED BY <1>1, CountFades

(* A step that leaves the chunks of the file alone.                         *)
LEMMA SameFile ==
  ASSUME Told, Told',
         \A c \in InFile \cup InFile' : c \in InFile /\ c \in InFile' /\ item'[c] = item[c] /\ id'[c] = id[c]
  PROVE  Waned /\ \A a : Live(InFile, a)' = Live(InFile, a)
<1>1. Waned
  BY DEF Waned
<1>2. \A r \in InFile \X Slots : /\ r \in InFile' \X Slots /\ item'[r[1]] = item[r[1]]
                                /\ Version(r[1])' = Version(r[1])
  BY DEF Version
<1>3. \A a : \A r \in Live(InFile, a) : r \in Live(InFile, a)'
  <2>1. SUFFICES ASSUME NEW a, NEW r \in InFile \X Slots, item[r[1]][r[2]] = Normal(a), ~Dead(InFile, r)
                 PROVE  r \in Live(InFile, a)'
    BY DEF Live
  <2>2. ~Dead(InFile, r)'
    BY <1>2, <2>1 DEF Dead
  <2>3. QED BY <1>2, <2>1, <2>2 DEF Live
<1>4. \A a : Live(InFile, a)' \subseteq Live(InFile, a)
  BY <1>1, WanedLive
<1>5. QED BY <1>1, <1>3, <1>4

(* The steps that change nothing in the file, or take away empty chunks.    *)
LEMMA QuietFile ==
  ASSUME Unwrapped, Good, Good', Told, Told', UNCHANGED <<id, item>>, Current'.tree = Current.tree
  PROVE  Waned /\ \A a : Live(InFile, a)' = Live(InFile, a)
BY SameFile DEF Told

LEMMA QuietFades ==
  ASSUME Unwrapped, Good, Good', Told, Told',
         \/ \E t \in Threads : (\E a \in Addrs : AllocBegin(t, a)) \/ FreeLocal(t) \/ FreeRemote(t)
         \/ FlushBegin \/ Tick \/ TickLoose \/ Unlink
         \/ GcWake \/ GcDrop \/ GcVisit \/ GcAdvance \/ GcSwap
         \/ \E why : Stop(why)
  PROVE  Durable!Fade
<1>1. UNCHANGED <<id, item, held>>
  BY DEF AllocBegin, FreeLocal, FreeRemote, FlushBegin, Tick, TickLoose, Due, Unlink, GcWake, GcDrop,
     GcVisit, GcAdvance, GcSwap, Stop, fileVars, chunkVars, userVars
<1>2. vlog \in Logs /\ (lock = "none" <=> at = "out")
  BY ChunkFacts DEF Good
<1>3. Current'.tree = Current.tree
  <2>1. CASE GcSwap
    BY <2>1 DEF GcSwap, Leave, Current
  <2>2. CASE ~GcSwap
    <3>1. vlog' = vlog \/ \E k : vlog' = [vlog EXCEPT !.timer = k]
      BY <2>2 DEF AllocBegin, FreeLocal, FreeRemote, FlushBegin, Tick, TickLoose, Due, Unlink, GcWake,
         GcDrop, GcVisit, GcAdvance, Stop
    <3>2. vlog'.tree = vlog.tree
      BY <1>2, <3>1 DEF Logs
    <3>3. (at # "swap" /\ at' # "swap") \/ (at' = at /\ new' = new)
      BY <1>2, <2>2 DEF AllocBegin, FreeLocal, FreeRemote, FlushBegin, Tick, TickLoose, Due, Unlink,
         GcWake, GcDrop, GcVisit, GcAdvance, Stop, Finish, Leave, Goto, procVars, gcVars, walkVars
    <3>4. QED BY <3>2, <3>3 DEF Current
  <2>3. QED BY <2>1, <2>2
<1>4. Waned
  BY <1>1, <1>3, QuietFile
<1>5. QED BY <1>1, <1>4, WanedFades

LEMMA ReleaseStep ==
  ASSUME Unwrapped, Good, Good', Told, Told', NEW t \in Threads, NEW a \in Addrs, FreeBegin(t, a)
  PROVE  Durable!Release(a)
<1>1. a \in held \ Files /\ held' = held \ {a} /\ UNCHANGED <<id, item, vlog, new, at>>
  BY DEF FreeBegin, fileVars, chunkVars, gcVars, walkVars, procVars
<1>2. Current'.tree = Current.tree
  BY <1>1 DEF Current
<1>3. \A b : Live(InFile, b)' = Live(InFile, b)
  BY <1>1, <1>2, QuietFile
<1>4. \A b \in Addrs : /\ Lingering[b] = Cardinality(Live(InFile, b)) - (IF b \in held THEN 1 ELSE 0)
                      /\ Lingering'[b] = Cardinality(Live(InFile, b)) - (IF b \in held' THEN 1 ELSE 0)
                      /\ Cardinality(Live(InFile, b)) \in Nat
  <2>1. TAKE b \in Addrs
  <2>2. Cardinality(Live(InFile, b)') = Cardinality(Live(InFile, b))
    BY <1>3
  <2>3. QED BY <2>2 DEF Told
<1>5. \A b \in Addrs : Lingering'[b] = IF b = a THEN Lingering[b] + 1 ELSE Lingering[b]
  BY <1>1, <1>4
<1>6. Lingering' = [Lingering EXCEPT ![a] = @ + 1]
  BY <1>5 DEF Told
<1>7. QED BY <1>1, <1>6 DEF Durable!Release

(* fast_GC takes chunks without a set bit out of the file: a tombstone has  *)
(* one, so none goes before the record it ends.                             *)
LEMMA FastFades ==
  ASSUME Unwrapped, Good, Good', Told, Told', Retire \/ FastDone
  PROVE  Durable!Fade
<1>1. /\ vlog \in Logs /\ vlog.tree \subseteq Chunks /\ id \in [Chunks -> Nat]
      /\ InFile = {c \in Current.tree : id[c] # 0} /\ InFile' = {c \in Current'.tree : id'[c] # 0}
  BY ChunkFacts DEF Good, Told
<1>2. CASE Retire
  <2> DEFINE x == Highest(Empty \ Retired)
  <2>1. /\ at = "retire" /\ at' = "unlink" /\ Empty # Retired /\ id' = [id EXCEPT ![x] = 0]
        /\ UNCHANGED <<item, vlog, held>>
    BY <1>2 DEF Retire, Goto, userVars
  <2>2. x \in vlog.tree /\ bits[x] = {}
    <3>1. Retired \subseteq Empty /\ Empty \subseteq vlog.tree
      BY DEF Retired, Empty
    <3>2. (Empty \ Retired) \in SUBSET Chunks /\ Empty \ Retired # {}
      BY <1>1, <2>1, <3>1
    <3>3. x \in Empty \ Retired
      BY <3>2, HighestIn
    <3>4. QED BY <3>3 DEF Empty
  <2> HIDE DEF x
  <2>3. Current = vlog /\ Current' = vlog
    BY <2>1 DEF Current
  <2>4. \A c \in vlog.tree : id'[c] = IF c = x THEN 0 ELSE id[c]
    BY <1>1, <2>1
  <2>5. InFile' = InFile \ {x}
    BY <1>1, <2>2, <2>3, <2>4
  <2>6. \A j \in Slots : item[x][j].type # "free"
    BY <2>2 DEF Good, TombSound, TombsStay
  <2>7. \A c \in InFile' : c \in InFile /\ id'[c] = id[c]
    BY <1>1, <2>3, <2>4, <2>5
  <2>8. Waned
    BY <2>1, <2>5, <2>6, <2>7 DEF Waned
  <2>9. QED BY <2>1, <2>8, WanedFades
<1>3. CASE FastDone
  <2>1. /\ at = "retire" /\ Finish /\ Empty = Retired /\ UNCHANGED <<id, item, held>>
        /\ vlog' = [vlog EXCEPT !.tree = @ \ Empty,
                                !.chunks = @ - Cardinality(Empty),
                                !.items = Fewer(NItems * Cardinality(Empty))]
    BY <1>3 DEF FastDone, chunkVars, userVars
  <2>2. Current = vlog /\ Current' = vlog' /\ vlog'.tree = vlog.tree \ Retired
    BY <1>1, <2>1, FinishHands DEF Current, Good, Logs
  <2>3. InFile' = InFile
    BY <1>1, <2>1, <2>2 DEF Retired
  <2>4. Waned
    BY <2>1, <2>3 DEF Waned
  <2>5. QED BY <2>1, <2>4, WanedFades
<1>4. QED BY <1>2, <1>3

(* A chunk taken is blank, and only enters the file when the log in force   *)
(* grows; what slow_GC copies enters it with the flip of alt.               *)
LEMMA TakeFades ==
  ASSUME Unwrapped, Good, Good', Told, Told', Grow \/ GcRoot \/ GcFirst \/ GcGrow
  PROVE  Durable!Fade
<1>1. /\ InFile = {c \in Current.tree : id[c] # 0} /\ InFile' = {c \in Current'.tree : id'[c] # 0}
      /\ vlog \in Logs /\ vlog.nextId \in Nat /\ new.nextId \in Nat /\ Unborn.nextId \in Nat
      /\ (lock = "none" <=> at = "out") /\ ChunkInv
  BY ChunkFacts DEF Good, Told, Logs, Unborn, NoLog
<1>2. \E v : v.nextId \in Nat /\ TakeChunk(NewChunk, v)
  BY <1>1 DEF Grow, GcRoot, GcFirst, GcGrow, Extend
<1>3. /\ NewChunk \in Chunks
      /\ \A i \in Slots : item'[NewChunk][i] = Blank
      /\ \A c \in vlog.tree \cup new.tree : c # NewChunk /\ item'[c] = item[c] /\ id'[c] = id[c]
  BY <1>1, <1>2, TakenApart, TakenBlank
<1>4. Current = vlog /\ Current' = vlog' /\ held' = held
  BY <1>1 DEF Grow, GcRoot, GcFirst, GcGrow, Current, Goto, procVars, userVars
<1>5. vlog'.tree \in {vlog.tree, vlog.tree \cup {NewChunk}}
  <2>1. vlog' = vlog \/ vlog' = Extended(vlog)
    BY DEF Grow, GcRoot, GcFirst, GcGrow
  <2>2. QED BY <1>1, <1>3, <2>1, ExtendedIs
<1>6. \A c \in InFile' : \/ c \in InFile /\ item'[c] = item[c] /\ id'[c] = id[c]
                      \/ c = NewChunk
  BY <1>1, <1>3, <1>4, <1>5
<1>7. \A c \in InFile : c \in InFile' /\ item'[c] = item[c]
  BY <1>1, <1>3, <1>4, <1>5
<1>8. Blank.type # "normal"
  BY DEF Blank
<1>9. Waned
  BY <1>3, <1>6, <1>7, <1>8 DEF Waned
<1>10. QED BY <1>4, <1>9, WanedFades

(* Where an item goes.                                                      *)
LEMMA PlacedItem ==
  ASSUME ChunkInv, NEW c \in Chunks, ~Full(c), NEW x \in Items, Append1(c, x), NEW p, p = Place(c)
  PROVE  /\ p \in Refs /\ p[1] = c /\ p[2] \in Slots /\ id' = id
         /\ item[p[1]][p[2]] = Blank /\ item'[p[1]][p[2]] = x
         /\ \A d \in Chunks, i \in Slots : (d = p[1] /\ i = p[2]) \/ item'[d][i] = item[d][i]
         /\ \A d \in Chunks \ {p[1]} : item'[d] = item[d]
<1>1. TypeChunk
  BY TypeParts DEF ChunkInv
<1>2. p \in Refs /\ p[1] = c /\ p[2] = Index(cnt[c]) /\ p[2] \in Slots
  BY <1>1, PlaceIn DEF Place
<1>3. /\ item'[p[1]][p[2]] = x
      /\ \A r \in Refs : item[r[1]][r[2]] # Blank => r # p
  BY <1>2, AppendPlace
<1>4. item[p[1]][p[2]] = Blank
  BY <1>2, <1>3
<1>5. /\ \A d \in Chunks \ {c} : item'[d] = item[d] /\ id' = id
      /\ item'[c] = [item[c] EXCEPT ![p[2]] = x] /\ item[c] \in [Slots -> Items]
  BY <1>1, <1>2, AppendTypes DEF TypeChunk
<1>6. id' = id
  BY <1>1, AppendTypes
<1>7. \A d \in Chunks, i \in Slots : (d = p[1] /\ i = p[2]) \/ item'[d][i] = item[d][i]
  BY <1>2, <1>5
<1>8. QED BY <1>2, <1>3, <1>4, <1>5, <1>6, <1>7

LEMMA CopyFades ==
  ASSUME Unwrapped, Good, Good', Told, Told', GcCopy
  PROVE  Durable!Fade
<1>1. /\ at = "copy" /\ at' = "copy" /\ ~Full(new.tail) /\ Append1(new.tail, Normal(Owner))
      /\ marks # {} /\ UNCHANGED <<vlog, held>>
  BY DEF GcCopy, procVars
<1>2. /\ new.tail \in new.tree /\ new.tree \subseteq Chunks /\ vlog.tree \subseteq Chunks
      /\ vlog.tree \cap new.tree = {} /\ Owner \in Addrs /\ ChunkInv
  BY <1>1, ChunkFacts, LogsApart, MarkedItem DEF Good
<1>3. PICK x \in Items : x = Normal(Owner)
  BY <1>2 DEF Items, Normal
<1>4. id' = id /\ \A d \in Chunks \ {new.tail} : item'[d] = item[d]
  <2>1. PICK p : p = Place(new.tail)
    OBVIOUS
  <2>2. Append1(new.tail, x) /\ new.tail \in Chunks
    BY <1>1, <1>2, <1>3
  <2>3. QED BY <1>1, <1>2, <2>1, <2>2, PlacedItem
<1>5. Current = vlog /\ Current' = vlog
  BY <1>1 DEF Current
<1>6. InFile' = InFile /\ InFile \subseteq vlog.tree
  BY <1>4, <1>5 DEF Told
<1>7. \A c \in InFile : item'[c] = item[c]
  BY <1>2, <1>4, <1>6
<1>8. Waned
  BY <1>4, <1>6, <1>7 DEF Waned
<1>9. QED BY <1>1, <1>8, WanedFades

(* A FREE item is no record, and goes over none.                            *)
LEMMA EndFades ==
  ASSUME Unwrapped, Good, Good', Told, Told', WriteFree \/ WriteTomb
  PROVE  Durable!Fade
<1>1. /\ at = "item" /\ at' = "tick" /\ ~Full(vlog.tail) /\ UNCHANGED <<vlog, held>>
      /\ job.type = "free" /\ (WriteTomb => Append1(vlog.tail, job))
      /\ (WriteFree => Append1(vlog.tail, Tomb(job.ref, Version(job.ref[1]))))
  BY BookLogAssumption DEF Good, ChunkInv, Holder, WriteFree, WriteTomb, Goto, userVars
<1>2. /\ vlog.tail \in Chunks /\ vlog.tree \subseteq Chunks /\ job \in Items /\ ChunkInv /\ TypeChunk
      /\ job.ref \in Refs
  <2>1. vlog.tail \in Chunks /\ vlog.tree \subseteq Chunks /\ job \in Items /\ ChunkInv /\ TypeChunk
    BY ChunkFacts, TypeParts DEF Good, ChunkInv, TypeOK
  <2>2. QED BY <1>1, <2>1 DEF Items, Blank
<1>3. Tomb(job.ref, Version(job.ref[1])) \in Items
  <2>1. Version(job.ref[1]) \in 0 .. VersionMod - 1
    BY <1>2, BookLogAssumption DEF Refs, TypeChunk, Version
  <2>2. QED BY <1>2, <2>1 DEF Items, Tomb
<1>4. PICK x \in Items : Append1(vlog.tail, x) /\ x.type = "free"
  <2>1. Tomb(job.ref, Version(job.ref[1])).type = "free"
    BY DEF Tomb
  <2>2. QED BY <1>1, <1>2, <1>3, <2>1
<1>5. PICK p : p = Place(vlog.tail)
  OBVIOUS
<1>6. /\ p[1] = vlog.tail /\ id' = id /\ item[p[1]][p[2]] = Blank /\ item'[p[1]][p[2]] = x
      /\ \A d \in Chunks, i \in Slots : (d = p[1] /\ i = p[2]) \/ item'[d][i] = item[d][i]
  BY <1>1, <1>2, <1>4, <1>5, PlacedItem
<1>7. InFile' = InFile /\ InFile \subseteq Chunks
  <2>1. Current = vlog /\ Current' = vlog
    BY <1>1 DEF Current
  <2>2. QED BY <1>6, <2>1 DEF Told
<1>8. Blank.type # "free"
  BY DEF Blank
<1>9. Waned
  BY <1>4, <1>6, <1>7, <1>8 DEF Waned
<1>10. QED BY <1>1, <1>9, WanedFades

(* The new log has at most one record of an extent, and then the old one    *)
(* had one.                                                                 *)
LEMMA FlipFades ==
  ASSUME Unwrapped, Good, Good', Told, Told', GcFlip
  PROVE  Durable!Fade
<1>1. at = "visit" /\ at' = "swap" /\ UNCHANGED <<id, item, vlog, new, held>>
  BY DEF GcFlip, Goto, chunkVars, userVars, gcVars, walkVars
<1>2. Current = vlog /\ Current' = new
  BY <1>1 DEF Current
<1>3. InFile = vlog.tree /\ InFile' = new.tree
  BY <1>1, <1>2 DEF Told, Good, ChunkInv, Marking
<1>4. ASSUME NEW a \in Addrs
      PROVE  Cardinality(Live(InFile, a)') <= Cardinality(Live(InFile, a))
  <2>1. Cardinality(Live(InFile, a)) \in Nat /\ IsFiniteSet(Live(InFile, a))
    BY DEF Told
  <2>2. CASE Live(InFile, a)' = {}
    <3>1. Cardinality(Live(InFile, a)') = 0
      BY <2>2, FS_EmptySet
    <3>2. QED BY <2>1, <3>1
  <2>3. CASE Live(InFile, a)' # {}
    <3>1. \A q \in Live(InFile, a)' : q \in new.tree \X Slots /\ item[q[1]][q[2]] = Normal(a)
      BY <1>1, <1>3 DEF Live
    <3>2. PICK r : r \in Live(InFile, a)'
      BY <2>3
    <3>3. /\ Live(vlog.tree, a) # {}
          /\ \A q \in new.tree \X Slots : item[q[1]][q[2]] = Normal(a) => q = r
      BY <3>1, <3>2 DEF Good, TombSound, Copied
    <3>4. Live(InFile, a)' = {r}
      BY <3>1, <3>2, <3>3
    <3>5. Cardinality(Live(InFile, a)') = 1
      BY <3>4, FS_Singleton
    <3>6. Cardinality(Live(InFile, a)) # 0
      BY <1>3, <2>1, <3>3, FS_EmptySet
    <3>7. QED BY <2>1, <3>5, <3>6
  <2>4. QED BY <2>2, <2>3
<1>5. QED BY <1>1, <1>4, CountFades

(* A NORMAL item is one more record, of an extent nobody held.              *)
LEMMA LogStepLogs ==
  ASSUME Unwrapped, Good, Good', Told, Told', WriteNormal
  PROVE  \E a \in Addrs : Durable!Log(a)
<1>1. /\ at = "item" /\ at' = "out" /\ ~Full(vlog.tail) /\ job.type = "normal"
      /\ Append1(vlog.tail, job) /\ held' = held \cup {job.addr}
      /\ vlog' = [vlog EXCEPT !.items = (@ + 1) % SizeMod]
  BY DEF WriteNormal, Leave
<1>2. /\ vlog \in Logs /\ vlog.tail \in Chunks /\ vlog.tree \subseteq Chunks /\ job \in Items
      /\ ChunkInv /\ vlog.tail \in vlog.tree /\ Sound /\ Young /\ TombSound
  BY ChunkFacts DEF Good, ChunkInv, TypeOK
<1>3. PICK a : a = job.addr
  OBVIOUS
<1>4. a \in Addrs /\ job = Normal(a) /\ a \notin held
  BY <1>1, <1>2, <1>3 DEF Items, Blank, Normal, TombSound, Fresh
<1>5. PICK p : p = Place(vlog.tail)
  OBVIOUS
<1>6. /\ p \in Refs /\ p[1] = vlog.tail /\ p[2] \in Slots /\ id' = id
      /\ item[p[1]][p[2]] = Blank /\ item'[p[1]][p[2]] = Normal(a)
      /\ \A d \in Chunks, i \in Slots : (d = p[1] /\ i = p[2]) \/ item'[d][i] = item[d][i]
  <2>1. PICK x \in Items : x = job
    BY <1>2
  <2>2. Append1(vlog.tail, x)
    BY <1>1, <2>1
  <2>3. QED BY <1>1, <1>2, <1>4, <1>5, <2>1, <2>2, PlacedItem
<1>7. Current = vlog /\ Current' = vlog' /\ vlog'.tree = vlog.tree
  BY <1>1, <1>2 DEF Current, Logs
<1>8. InFile' = InFile /\ InFile \subseteq Chunks /\ InFile \subseteq vlog.tree
  BY <1>6, <1>7 DEF Told
<1>9. p[1] \in InFile /\ id[p[1]] # 0
  BY <1>2, <1>6, <1>7, FileIs DEF Told
<1>10. p = <<p[1], p[2]>> /\ p \in InFile \X Slots
  BY <1>6, <1>9 DEF Refs
<1>11. \A b : Normal(b).type = "normal" /\ (Normal(b) = Normal(a) => b = a) /\ Normal(b) # Blank
  BY DEF Normal, Blank
<1>12. \A r : Tomb(r, Version(r[1])).type = "free"
  BY DEF Tomb
<1>13. Blank.type # "free"
  BY DEF Blank
<1>14. \A r : Dead(InFile, r)' <=> Dead(InFile, r)
  <2>1. \A d \in InFile, j \in Slots : item'[d][j].type = "free" \/ item[d][j].type = "free" =>
          item'[d][j] = item[d][j]
    BY <1>6, <1>8, <1>11, <1>13
  <2>2. \A c : Version(c)' = Version(c)
    BY <1>6 DEF Version
  <2>3. QED BY <1>8, <1>12, <2>1, <2>2 DEF Dead
<1>15. ~Dead(InFile, p)
  <2>1. SUFFICES ASSUME NEW d \in InFile, NEW j \in Slots, item[d][j] = Tomb(p, Version(p[1]))
                 PROVE  FALSE
    BY DEF Dead
  <2>2. Spent(item[d][j])
    BY <1>2, <1>8 DEF TombSound, AllSpent
  <2>3. Version(p[1]) = id[p[1]] /\ p[1] \in vlog.tree
    BY <1>2, <1>8, <1>9, Versions
  <2>4. item[d][j].type = "free" /\ item[d][j].ref = p /\ item[d][j].ver = id[p[1]]
    BY <2>1, <2>3 DEF Tomb
  <2>5. QED BY <1>6, <1>9, <2>2, <2>3, <2>4 DEF Spent
<1>16. ASSUME NEW b \in Addrs
       PROVE  Live(InFile, b)' = IF b = a THEN Live(InFile, b) \cup {p} ELSE Live(InFile, b)
  <2>1. ASSUME NEW r \in InFile \X Slots, r # p PROVE item'[r[1]][r[2]] = item[r[1]][r[2]]
    <3>1. r[1] \in Chunks /\ r[2] \in Slots /\ r = <<r[1], r[2]>>
      BY <1>8
    <3>2. ~(r[1] = p[1] /\ r[2] = p[2])
      BY <1>10, <2>1, <3>1
    <3>3. QED BY <1>6, <3>1, <3>2
  <2>2. \A r : r \in Live(InFile, b)' <=> r \in InFile \X Slots /\ item'[r[1]][r[2]] = Normal(b)
                                        /\ ~Dead(InFile, r)
    BY <1>8, <1>14 DEF Live
  <2>3. \A r : r \in Live(InFile, b) <=> r \in InFile \X Slots /\ item[r[1]][r[2]] = Normal(b)
                                       /\ ~Dead(InFile, r)
    BY DEF Live
  <2>4. p \in Live(InFile, b)' <=> b = a
    BY <1>6, <1>10, <1>11, <1>15, <2>2
  <2>5. \A r : r # p => (r \in Live(InFile, b)' <=> r \in Live(InFile, b))
    BY <2>1, <2>2, <2>3
  <2>6. p \notin Live(InFile, b)
    BY <1>6, <1>11, <2>3
  <2>7. QED BY <2>4, <2>5, <2>6
<1>17. p \notin Live(InFile, a)
  BY <1>6, <1>11 DEF Live
<1>18. ASSUME NEW b \in Addrs PROVE Lingering'[b] = Lingering[b]
  <2>1. /\ Lingering[b] = Cardinality(Live(InFile, b)) - (IF b \in held THEN 1 ELSE 0)
        /\ Lingering'[b] = Cardinality(Live(InFile, b)') - (IF b \in held' THEN 1 ELSE 0)
        /\ Cardinality(Live(InFile, b)) \in Nat /\ IsFiniteSet(Live(InFile, b))
    BY DEF Told
  <2>2. CASE b = a
    <3>1. Cardinality(Live(InFile, b) \cup {p}) = Cardinality(Live(InFile, b)) + 1
      BY <1>17, <2>1, <2>2, FS_AddElement
    <3>2. Live(InFile, b)' = Live(InFile, b) \cup {p}
      BY <1>16, <2>2
    <3>3. Cardinality(Live(InFile, b)') = Cardinality(Live(InFile, b)) + 1
      BY <3>1, <3>2
    <3>4. b \notin held /\ b \in held'
      BY <1>1, <1>3, <1>4, <2>2
    <3>5. QED BY <2>1, <3>3, <3>4
  <2>3. CASE b # a
    <3>1. Live(InFile, b)' = Live(InFile, b)
      BY <1>16, <2>3
    <3>2. Cardinality(Live(InFile, b)') = Cardinality(Live(InFile, b))
      BY <3>1
    <3>3. b \in held <=> b \in held'
      BY <1>1, <1>3, <2>3
    <3>4. QED BY <2>1, <3>2, <3>3
  <2>4. QED BY <2>2, <2>3
<1>19. Lingering' = Lingering
  BY <1>18 DEF Told
<1>20. QED BY <1>1, <1>3, <1>4, <1>19 DEF Durable!Log

LEMMA DurableSteps ==
  ASSUME Unwrapped, Good, Good', Told, Told', [Next]_vars
  PROVE  Durable!Next \/ UNCHANGED <<held, Lingering>>
<1>1. CASE UNCHANGED vars
  <2>1. Stop(failed)
    BY <1>1 DEF Stop, vars
  <2>2. QED BY <2>1, QuietFades DEF Durable!Next
<1>2. CASE ClientStep
  <2>1. ASSUME NEW t \in Threads, NEW a \in Addrs, FreeBegin(t, a)
        PROVE  Durable!Next
    BY <2>1, ReleaseStep DEF Durable!Next
  <2>2. QED BY <1>2, <2>1, QuietFades DEF ClientStep, Durable!Next
<1>3. CASE LogStep
  BY <1>3, QuietFades, TakeFades, LogStepLogs, EndFades, FastFades DEF LogStep, Durable!Next
<1>4. CASE GcStep
  BY <1>4, QuietFades, TakeFades, CopyFades, FlipFades DEF GcStep, Durable!Next
<1>5. CASE Failure
  <2>1. \E why : Stop(why)
    BY <1>5 DEF Failure, FreeRemoteFails, WriteFreeFails, TickDivides, GcDivides, GcVisitFails,
       GcCopyFails
  <2>2. QED BY <2>1, QuietFades DEF Durable!Next
<1>6. QED BY <1>1, <1>2, <1>3, <1>4, <1>5 DEF Next

LEMMA DurableAtFirst ==
  ASSUME Unwrapped, Init
  PROVE  Durable!Init
<1>1. PICK f \in Files : InitFile(f)
  BY DEF Init
<1>2. astray = FALSE /\ at = "out" /\ vlog.tree = {2}
  BY DEF Init
<1>3. Good
  BY <1>2, ChunksAtFirst, ChainAtFirst, TombsAtFirst DEF ChainInv, TombInv, Good
<1>4. Told
  BY <1>3, TellsNow
<1>5. f \in Addrs /\ 2 \in Chunks /\ Index(0) \in Slots
  BY BookLogAssumption, IndexZero DEF Chunks
<1>6. /\ held = {f}
      /\ \A i \in Slots : item[2][i] = IF i = Index(0) THEN Normal(f) ELSE Blank
  BY <1>1, <1>5 DEF InitFile
<1>7. InFile = {2}
  <2>1. Current.tree = {2}
    BY <1>2 DEF Current
  <2>2. Current.tail \in InFile
    BY <1>3, FileIs DEF Good
  <2>3. QED BY <1>4, <2>1, <2>2 DEF Told
<1>8. ASSUME NEW a \in Addrs
      PROVE  Lingering[a] = 0
  <2>1. \A b : Normal(b) # Blank /\ (Normal(b) = Normal(f) => b = f) /\ Normal(b).type # "free"
    BY DEF Normal, Blank
  <2>2. Blank.type # "free" /\ \A r, v : Tomb(r, v).type = "free"
    BY DEF Blank, Tomb
  <2>3. \A r : ~Dead(InFile, r)
    BY <1>6, <1>7, <2>1, <2>2 DEF Dead
  <2>4. CASE a = f
    <3>1. Live(InFile, a) = {<<2, Index(0)>>}
      <4>1. \A r \in InFile \X Slots : r = <<2, r[2]>> /\ r[1] = 2 /\ r[2] \in Slots
        BY <1>7
      <4>2. \A r \in InFile \X Slots : item[r[1]][r[2]] = Normal(a) <=> r = <<2, Index(0)>>
        BY <1>6, <2>1, <2>4, <4>1
      <4>3. <<2, Index(0)>> \in InFile \X Slots
        BY <1>5, <1>7
      <4>4. QED BY <2>3, <4>2, <4>3 DEF Live
    <3>2. Cardinality(Live(InFile, a)) = 1
      BY <3>1, FS_Singleton
    <3>3. QED BY <1>4, <1>6, <2>4, <3>2 DEF Told
  <2>5. CASE a # f
    <3>1. Live(InFile, a) = {}
      BY <1>6, <1>7, <2>1, <2>5 DEF Live
    <3>2. Cardinality(Live(InFile, a)) = 0
      BY <3>1, FS_EmptySet
    <3>3. QED BY <1>4, <1>6, <2>5, <3>2 DEF Told
  <2>6. QED BY <2>4, <2>5
<1>9. Lingering = [a \in Addrs |-> 0]
  BY <1>4, <1>8 DEF Told
<1>10. QED BY <1>6, <1>9 DEF Durable!Init

(* The log implements what it promises: in every behaviour in which fast_GC *)
(* follows no pre_lchunk out of date and the versions do not wrap, the      *)
(* persistent memory holds at every persist a record of every extent in a   *)
(* client's hands, and only a release adds to what lingers there.           *)
THEOREM RecordsDurable == Unwrapped => (Spec /\ []~astray => DurableSpec)
<1> SUFFICES ASSUME Unwrapped PROVE Spec /\ []~astray => DurableSpec
  OBVIOUS
<1>1. ChunkInv /\ ChainInv /\ TombInv /\ ~astray => Good /\ Told
  <2>1. ASSUME ChunkInv, ChainInv, TombInv, ~astray PROVE Good /\ Told
    <3>1. Good
      BY <2>1 DEF ChainInv, TombInv, Good
    <3>2. QED BY <3>1, TellsNow
  <2>2. QED BY <2>1
<1>2. Good /\ Good' /\ Told /\ Told' /\ [Next]_vars => [Durable!Next]_<<held, Lingering>>
  BY DurableSteps
<1>3. Init => Durable!Init
  BY DurableAtFirst
<1>4. QED BY <1>1, <1>2, <1>3, ChunksAlways, ChainAlways, TombsAlways, PTL DEF DurableSpec, Durable!Spec, Spec
=============================================================================
