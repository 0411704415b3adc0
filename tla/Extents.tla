------------------------------- MODULE Extents -------------------------------
(***************************************************************************)
(* The extent layer of one arena: runs of pages cut from 2 MiB chunk files *)
(* (arena.c), kept in the pools extents_dirty and extents_muzzy, split,    *)
(* coalesced and aged by several threads at once (extent.c), and found     *)
(* again through the radix tree extents_rtree.                             *)
(*                                                                         *)
(* An extent_t is named by its first page: e_addr never changes after      *)
(* extent_init.  A region run under extents->mtx is one action; the mutex  *)
(* is released around extent_merge_impl (extent_coalesce), so a merge is   *)
(* an action of its own, as are the split of a recycled extent, the return *)
(* of its tail to the pool and its registration, which run unlocked.       *)
(* The build is the one with assert() compiled in: a failing assert stops  *)
(* the program (variable failed).                                          *)
(***************************************************************************)
EXTENDS Integers, Sequences, FiniteSets, FiniteSetsExt

CONSTANTS
  Threads,      \* threads using the arena
  NPages,       \* pages of address space the model looks at
  ChunkPages,   \* CHUNK_SIZE / PAGE_SIZE (512)
  ChunkBases,   \* page numbers where the kernel may map a chunk file
  PClasses,     \* page counts of psizeclasses[]
  Requests,     \* page counts of large requests (already rounded to a class)
  SlabPages,    \* SLAB_SIZE / PAGE_SIZE (16)
  FitFactor,    \* the 32 of extents_best_fit_locked
  MuzzyFloor,   \* the CHUNK_SIZE that extents_evict compares npages with
  DecayLimits,  \* values of npages_limit that the decay curve may ask for
  SizeMod       \* 2^64: arena->npage_new is a size_t

ASSUME ExtentsAssumption ==
  /\ NPages \in Nat \ {0}
  /\ ChunkPages \in Nat \ {0}
  /\ ChunkPages < SizeMod
  /\ SizeMod \in Nat
  /\ \A b \in ChunkBases :
       b \in Nat /\ b + ChunkPages <= NPages /\ b % ChunkPages = 0
  /\ \A b, c \in ChunkBases : b < c => b + ChunkPages <= c
  /\ ChunkBases # {}
  /\ PClasses \subseteq Nat \ {0}
  /\ Requests \subseteq PClasses
  /\ SlabPages \in PClasses
  /\ FitFactor \in Nat
  /\ MuzzyFloor \in Nat
  /\ DecayLimits \subseteq Nat

Pages == 0 .. NPages - 1
Nil   == -1
Pools == {"dirty", "muzzy"}
Kinds == {"large", "slab"}
NoWant == [n |-> 0, kind |-> "large"]

VARIABLES
  mapped,     \* bases of the chunks in arena->file_tree
  newAddr,    \* arena->memory_new, as a page number (Nil for NULL)
  newN,       \* arena->npage_new
  size,       \* extent->size in pages; 0 when no extent_t starts at the page
  state,      \* extent->state
  slab,       \* extent->slab
  leaf,       \* extents_rtree: what the leaf of each page holds
  lru,        \* extents->lru of each pool, first to be evicted first
  npages,     \* extents->npages of each pool
  allocated,  \* extents handed to a client and not freed
  purging,    \* decay_dirty.purging
  failed,     \* "no", or the assert that stopped the program
  pc,         \* where each thread is
  want,       \* the request a thread is serving
  pool,       \* the extents_t a thread works on
  cur,        \* the extent a thread works on
  oth,        \* its tail (split) or its neighbour (merge)
  at,         \* the side extent_try_coalesce_impl looks at next
  limit,      \* npages_limit of a thread that decays
  quota,      \* npages_decay_max - nstashed
  stash       \* decay_extents

memVars  == <<mapped, newAddr, newN>>
objVars  == <<size, state, slab, leaf>>
poolVars == <<lru, npages>>
decayVars == <<purging, limit, quota, stash>>
runVars  == <<want, pool, at, decayVars>>
vars     == <<mapped, newAddr, newN, size, state, slab, leaf, lru, npages,
              allocated, purging, failed, pc, want, pool, cur, oth, at, limit, quota,
              stash>>

-----------------------------------------------------------------------------
(* The leaf values of extents_rtree: NULL, an extent_t, or the vslab_t that *)
(* stands for a slab's extent; rtree_szind_slab keeps the slab bit beside   *)
(* the pointer.                                                             *)
NullLeaf      == [tag |-> "null", id |-> Nil, slab |-> FALSE]
ExtLeaf(x, s) == [tag |-> "extent", id |-> x, slab |-> s]
SlabLeaf(x)   == [tag |-> "vslab", id |-> x, slab |-> TRUE]
LeafOf(x, k)  == IF k = "slab" THEN SlabLeaf(x) ELSE ExtLeaf(x, FALSE)

(* f with the first and last page of the n-page extent x set to v.          *)
SetEnds(f, x, n, v) == [f EXCEPT ![x] = v, ![x + n - 1] = v]

(* f with every page of the n-page slab x set to v: the ends, and what      *)
(* extent_interior_register writes between them.                            *)
SetAllButLast(f, x, n, v) == [p \in Pages |-> IF p \in x .. x + n - 2 THEN v ELSE f[p]]
SetAll(f, x, n, v) == [p \in Pages |-> IF p \in x .. x + n - 1 THEN v ELSE f[p]]

(* rtree_szind_slab_update on the leaf of page q.                           *)
SetSlabBit(f, q, s) == [f EXCEPT ![q].slab = s]

Last(x) == x + size[x] - 1

InPool(p)  == {x \in Pages : state[x] = p}

(* psizeclass_lookup and its rounding down. *)
FloorClass(n) == CHOOSE c \in PClasses : c <= n /\ \A d \in PClasses : d <= n => d <= c

(* What extents_best_fit_locked may pick: an extent whose class holds n     *)
(* pages; the dirty pool (delay_coalesce) refuses a class beyond            *)
(* FitFactor * n.  It picks from the heap of the smallest such class that   *)
(* is not empty the extent with the lowest address.                         *)
Fits(p, n) ==
  {x \in InPool(p) :
     /\ \E c \in PClasses : n <= c /\ c <= size[x]
     /\ p = "dirty" => \A c \in PClasses : c <= size[x] => c <= n * FitFactor}
BestFits(p, n) ==
  {x \in Fits(p, n) : \A y \in Fits(p, n) :
     \/ FloorClass(size[x]) < FloorClass(size[y])
     \/ FloorClass(size[x]) = FloorClass(size[y]) /\ x <= y}

(* ql_remove on a pool's lru. *)
Unlink(s, x) ==
  LET i == CHOOSE j \in 1 .. Len(s) : s[j] = x
  IN  [j \in 1 .. Len(s) - 1 |-> IF j < i THEN s[j] ELSE s[j + 1]]

-----------------------------------------------------------------------------
(* arena_new maps the arena's first chunk. *)
Init ==
  /\ \E b \in ChunkBases : mapped = {b} /\ newAddr = b
  /\ newN = ChunkPages
  /\ size = [p \in Pages |-> 0]
  /\ state = [p \in Pages |-> "none"]
  /\ slab = [p \in Pages |-> FALSE]
  /\ leaf = [p \in Pages |-> NullLeaf]
  /\ lru = [p \in Pools |-> <<>>]
  /\ npages = [p \in Pools |-> 0]
  /\ allocated = {}
  /\ purging = FALSE
  /\ failed = "no"
  /\ pc = [t \in Threads |-> "idle"]
  /\ want = [t \in Threads |-> NoWant]
  /\ pool = [t \in Threads |-> "dirty"]
  /\ cur = [t \in Threads |-> Nil]
  /\ oth = [t \in Threads |-> Nil]
  /\ at = [t \in Threads |-> "next"]
  /\ limit = [t \in Threads |-> 0]
  /\ quota = [t \in Threads |-> 0]
  /\ stash = [t \in Threads |-> <<>>]

Goto(t, label) == pc' = [pc EXCEPT ![t] = label]

(* The extent a thread built is handed to its caller; its locals are dead.  *)
HandOver(t) ==
  /\ allocated' = allocated \cup {cur[t]}
  /\ want' = [want EXCEPT ![t] = NoWant]
  /\ pool' = [pool EXCEPT ![t] = "dirty"]
  /\ cur' = [cur EXCEPT ![t] = Nil]
  /\ Goto(t, "idle")

(* extents_insert_locked and extents_remove_locked, on one pool. *)
Insert(p, x) ==
  /\ lru' = [lru EXCEPT ![p] = Append(@, x)]
  /\ npages' = [npages EXCEPT ![p] = @ + size[x]]
  /\ state' = [state EXCEPT ![x] = p]
ExtractUncounted(p, x) ==
  /\ lru' = [lru EXCEPT ![p] = Unlink(@, x)]
  /\ state' = [state EXCEPT ![x] = "active"]
  /\ UNCHANGED npages
Extract(p, x) ==
  /\ lru' = [lru EXCEPT ![p] = Unlink(@, x)]
  /\ npages' = [npages EXCEPT ![p] = @ - size[x]]
  /\ state' = [state EXCEPT ![x] = "active"]

-----------------------------------------------------------------------------
(* extent_recycle: take the best fit out of a pool, or go on to label miss. *)
Recycle(t, p, w, miss) ==
  \/ /\ Fits(p, w.n) = {}
     /\ Goto(t, miss)
     /\ UNCHANGED <<poolVars, state, pool, cur>>
  \/ \E x \in BestFits(p, w.n) :
     /\ Extract(p, x)
     /\ cur' = [cur EXCEPT ![t] = x]
     /\ pool' = [pool EXCEPT ![t] = p]
     /\ Goto(t, "split")

(* arena_extent_alloc_large and arena_slab_alloc: the dirty pool first,     *)
AllocDirty(t, n, k) ==
  /\ pc[t] = "idle"
  /\ want' = [want EXCEPT ![t] = [n |-> n, kind |-> k]]
  /\ Recycle(t, "dirty", [n |-> n, kind |-> k], "muzzy")
  /\ UNCHANGED <<memVars, size, slab, leaf, allocated, oth, at, decayVars>>

(* then the muzzy pool,                                                     *)
AllocMuzzy(t) ==
  /\ pc[t] = "muzzy"
  /\ Recycle(t, "muzzy", want[t], "new")
  /\ UNCHANGED <<memVars, size, slab, leaf, allocated, want, oth, at, decayVars>>

(* then arena_activate_new_memory: the next pages of memory_new ...         *)
RoomUnchecked(t) == TRUE
Room(t) == want[t].n <= newN

AllocBump(t) ==
  /\ pc[t] = "new"
  /\ Room(t)
  /\ newAddr + want[t].n <= NPages               \* bound: modelled addresses
  /\ newAddr' = newAddr + want[t].n
  /\ newN' = newN - want[t].n
  /\ size' = [size EXCEPT ![newAddr] = want[t].n]
  /\ state' = [state EXCEPT ![newAddr] = "active"]
  /\ slab' = [slab EXCEPT ![newAddr] = (want[t].kind = "slab")]
  /\ cur' = [cur EXCEPT ![t] = newAddr]
  /\ Goto(t, "register")
  /\ UNCHANGED <<mapped, leaf, poolVars, allocated, oth, runVars>>

(* ... or a fresh chunk at base b, after arena_evict_new_memory_locked gave *)
(* the rest of the old one to the dirty pool when its length is exactly a   *)
(* size class (any other rest is forgotten).  npage_new is a size_t.        *)
KeepChunkOnly == newN = ChunkPages
KeepRest == newN \in PClasses

AllocChunk(t, b) ==
  /\ pc[t] = "new"
  /\ ~Room(t)
  /\ b + want[t].n <= NPages                     \* bound: modelled addresses
  /\ mapped' = mapped \cup {b}
  /\ newAddr' = b + want[t].n
  /\ newN' = (ChunkPages - want[t].n) % SizeMod
  /\ IF KeepRest
       THEN /\ size' = [size EXCEPT ![newAddr] = newN, ![b] = want[t].n]
            /\ state' = [state EXCEPT ![newAddr] = "dirty", ![b] = "active"]
            /\ leaf' = SetEnds(leaf, newAddr, newN, ExtLeaf(newAddr, FALSE))
            /\ lru' = [lru EXCEPT !["dirty"] = Append(@, newAddr)]
            /\ npages' = [npages EXCEPT !["dirty"] = @ + newN]
       ELSE /\ size' = [size EXCEPT ![b] = want[t].n]
            /\ state' = [state EXCEPT ![b] = "active"]
            /\ UNCHANGED <<leaf, poolVars>>
  /\ slab' = [slab EXCEPT ![b] = (want[t].kind = "slab")]
  /\ cur' = [cur EXCEPT ![t] = b]
  /\ Goto(t, "register")
  /\ UNCHANGED <<allocated, oth, runVars>>

(* extent_register: the extent becomes visible in extents_rtree.            *)
Register(t) ==
  /\ pc[t] = "register"
  /\ leaf' = IF slab[cur[t]]
               THEN SetAll(leaf, cur[t], size[cur[t]], SlabLeaf(cur[t]))
               ELSE SetEnds(leaf, cur[t], size[cur[t]], ExtLeaf(cur[t], FALSE))
  /\ HandOver(t)
  /\ UNCHANGED <<memVars, size, state, slab, poolVars, oth, at, decayVars>>

(* extent_split_interior, exact fit: only szind and the slab bit of the     *)
(* first leaf (for a slab the last one too) are brought up to date.         *)
SplitExact(t) ==
  /\ pc[t] = "split"
  /\ size[cur[t]] = want[t].n
  /\ leaf' = IF want[t].kind = "slab"
               THEN SetSlabBit(SetSlabBit(leaf, cur[t], TRUE), Last(cur[t]), TRUE)
               ELSE SetSlabBit(leaf, cur[t], FALSE)
  /\ Goto(t, "commit")
  /\ UNCHANGED <<memVars, size, state, slab, poolVars, allocated, cur, oth, runVars>>

TailStartShort(x, n) == x + n - 1
TailStart(x, n) == x + n

(* extent_split_impl: the tail becomes an extent of its own, still active.  *)
SplitTail(t) ==
  /\ pc[t] = "split"
  /\ size[cur[t]] > want[t].n
  /\ LET x    == cur[t]
         n    == want[t].n
         y    == TailStart(x, n)
         rest == size[x] - n
     IN  /\ size' = [size EXCEPT ![x] = n, ![y] = rest]
         /\ state' = [state EXCEPT ![y] = state[x]]
         /\ slab' = [slab EXCEPT ![y] = FALSE]
         /\ leaf' = SetEnds(SetEnds(leaf, x, n, LeafOf(x, want[t].kind)),
                            y, rest, ExtLeaf(y, FALSE))
         /\ oth' = [oth EXCEPT ![t] = y]
  /\ Goto(t, "putback")
  /\ UNCHANGED <<memVars, poolVars, allocated, cur, runVars>>

(* extent_recycle_split: the tail goes back to the pool it came from.       *)
PutBack(t) ==
  /\ pc[t] = "putback"
  /\ Insert(pool[t], oth[t])
  /\ oth' = [oth EXCEPT ![t] = Nil]
  /\ Goto(t, "commit")
  /\ UNCHANGED <<memVars, size, slab, leaf, allocated, cur, runVars>>

(* The end of extent_recycle: a slab's leaves are pointed at its vslab.     *)
Commit(t) ==
  /\ pc[t] = "commit"
  /\ IF want[t].kind = "slab"
       THEN /\ slab' = [slab EXCEPT ![cur[t]] = TRUE]
            /\ leaf' = SetAll(leaf, cur[t], size[cur[t]], SlabLeaf(cur[t]))
       ELSE UNCHANGED <<slab, leaf>>
  /\ HandOver(t)
  /\ UNCHANGED <<memVars, size, state, poolVars, oth, at, decayVars>>

-----------------------------------------------------------------------------
(* extent_lock_from_addr and extent_can_coalesce: the extent on one side of *)
(* x, if the leaf there names one that is in pool p.  inactive_only makes   *)
(* the look-up pass over a leaf whose slab bit is set.  A vslab_t read as   *)
(* an extent_t never matches: its bitmap pointer lies where arena is read.  *)
SidePage(x, side) == IF side = "next" THEN x + size[x] ELSE x - 1
Beside(x, side)   == leaf[SidePage(x, side)].id
CoalescibleAnyState(st, x, p, side, inactive_only) ==
  /\ SidePage(x, side) \in Pages
  /\ leaf[SidePage(x, side)].tag = "extent"
  /\ ~(inactive_only /\ leaf[SidePage(x, side)].slab)
Coalescible(st, x, p, side, inactive_only) ==
  /\ SidePage(x, side) \in Pages
  /\ leaf[SidePage(x, side)].tag = "extent"
  /\ ~(inactive_only /\ leaf[SidePage(x, side)].slab)
  /\ st[Beside(x, side)] = p

Opposite(side) == IF side = "next" THEN "prev" ELSE "next"

(* One region of extent_record under extents->mtx: take the first neighbour *)
(* that can be merged out of the pool and release the mutex to merge it, or *)
(* put x in the pool and go on to label done.                               *)
TakeNeighbour(t, x, p, side) ==
  /\ Extract(p, Beside(x, side))
  /\ pool' = [pool EXCEPT ![t] = p]
  /\ cur' = [cur EXCEPT ![t] = x]
  /\ oth' = [oth EXCEPT ![t] = Beside(x, side)]
  /\ at' = [at EXCEPT ![t] = side]
  /\ Goto(t, "merge")

LayDown(t, x, p, done) ==
  /\ Insert(p, x)
  /\ pool' = [pool EXCEPT ![t] = "dirty"]
  /\ cur' = [cur EXCEPT ![t] = Nil]
  /\ at' = [at EXCEPT ![t] = "next"]
  /\ Goto(t, done)
  /\ UNCHANGED oth

Coalesce(t, x, p, side, done) ==
  LET sides  == {sd \in {side, Opposite(side)} : Coalescible(state, x, p, sd, p = "dirty")}
      chosen == IF side \in sides THEN side ELSE Opposite(side)
  IN  \/ sides # {} /\ TakeNeighbour(t, x, p, chosen)
      \/ sides = {} /\ LayDown(t, x, p, done)

(* arena_extents_dirty_dalloc of an extent a client holds.  A slab's        *)
(* interior leaves are cleared and its ends point at the extent again, with *)
(* the slab bit still set (extent_replace_vslab runs before                 *)
(* extent_slab_set(extent, false)).                                         *)
Free(t, x) ==
  /\ pc[t] = "idle"
  /\ allocated' = allocated \ {x}
  /\ leaf' = IF slab[x]
               THEN SetEnds(SetAll(leaf, x, size[x], NullLeaf),
                            x, size[x], ExtLeaf(x, TRUE))
               ELSE leaf
  /\ slab' = [slab EXCEPT ![x] = FALSE]
  /\ Coalesce(t, x, "dirty", "next", "idle")
  /\ UNCHANGED <<memVars, size, want, decayVars>>

(* extent_merge_impl, outside the mutex. *)
Merge(t) ==
  /\ pc[t] \in {"merge", "emerge"}
  /\ LET a == IF cur[t] < oth[t] THEN cur[t] ELSE oth[t]
         b == IF cur[t] < oth[t] THEN oth[t] ELSE cur[t]
     IN  /\ leaf' = [leaf EXCEPT ![Last(a)] = NullLeaf, ![b] = NullLeaf,
                                 ![a] = ExtLeaf(a, FALSE),
                                 ![Last(b)] = ExtLeaf(a, FALSE)]
         /\ size' = [size EXCEPT ![a] = size[a] + size[b], ![b] = 0]
         /\ state' = [state EXCEPT ![b] = "none"]
         /\ cur' = [cur EXCEPT ![t] = a]
         /\ oth' = [oth EXCEPT ![t] = Nil]
  /\ Goto(t, IF pc[t] = "merge" THEN "record" ELSE "reinsert")
  /\ UNCHANGED <<memVars, slab, poolVars, allocated, runVars>>

(* Back in extent_try_coalesce_impl with the mutex: the dirty pool starts   *)
(* over after every merge; the muzzy pool looks at the other side first     *)
(* when it has just merged forward.                                         *)
Record(t) ==
  /\ pc[t] = "record"
  /\ Coalesce(t, cur[t], pool[t],
              IF pool[t] = "muzzy" /\ at[t] = "next" THEN "prev" ELSE "next",
              IF pool[t] = "muzzy" THEN "stash" ELSE "idle")
  /\ UNCHANGED <<memVars, size, slab, leaf, allocated, want, decayVars>>

-----------------------------------------------------------------------------
(* arena_decay_to_limit of the dirty pool, one thread at a time.            *)
DecayStart(t, lim) ==
  /\ pc[t] = "idle"
  /\ ~purging
  /\ npages["dirty"] > lim
  /\ purging' = TRUE
  /\ limit' = [limit EXCEPT ![t] = lim]
  /\ quota' = [quota EXCEPT ![t] = npages["dirty"] - lim]
  /\ Goto(t, "evict")
  /\ UNCHANGED <<memVars, objVars, poolVars, allocated, want, pool, cur, oth, at, stash>>

(* The pool extents_evict sees when it holds the mutex: after a merge it    *)
(* first puts the merged extent back (extent_try_delayed_coalesce).         *)
Back(t)     == pc[t] = "reinsert"
EvictLru(t) == IF Back(t) THEN Append(lru["dirty"], cur[t]) ELSE lru["dirty"]
EvictNp(t)  == IF Back(t) THEN npages["dirty"] + size[cur[t]] ELSE npages["dirty"]
EvictSt(t)  == IF Back(t) THEN [state EXCEPT ![cur[t]] = "dirty"] ELSE state

EvictDone(t) == EvictLru(t) = <<>> \/ EvictNp(t) <= limit[t]
Evictable(t, side) ==
  Coalescible(EvictSt(t), Head(EvictLru(t)), "dirty", side, FALSE)
EvictSides(t) == {sd \in {"next", "prev"} : Evictable(t, sd)}

EvictStep(t) ==
  /\ pc[t] \in {"evict", "reinsert"}
  /\ UNCHANGED <<memVars, size, slab, leaf, allocated, purging, want, pool, at, limit>>

(* extents_evict finds nothing to evict. *)
EvictNone(t) ==
  /\ EvictStep(t)
  /\ EvictDone(t)
  /\ lru' = [lru EXCEPT !["dirty"] = EvictLru(t)]
  /\ npages' = [npages EXCEPT !["dirty"] = EvictNp(t)]
  /\ state' = EvictSt(t)
  /\ cur' = [cur EXCEPT ![t] = Nil]
  /\ Goto(t, "stash")
  /\ UNCHANGED <<oth, quota, stash>>

(* The least recently freed extent has no neighbour to merge: it is evicted *)
(* and arena_stash_decayed keeps it.                                        *)
EvictOne(t) ==
  /\ EvictStep(t)
  /\ ~EvictDone(t)
  /\ EvictSides(t) = {}
  /\ LET x == Head(EvictLru(t))
     IN  /\ lru' = [lru EXCEPT !["dirty"] = Tail(EvictLru(t))]
         /\ npages' = [npages EXCEPT !["dirty"] = EvictNp(t) - size[x]]
         /\ state' = [EvictSt(t) EXCEPT ![x] = "active"]
         /\ stash' = [stash EXCEPT ![t] = Append(@, x)]
         /\ quota' = [quota EXCEPT ![t] = @ - size[x]]
         /\ Goto(t, IF quota[t] - size[x] > 0 THEN "evict" ELSE "stash")
  /\ cur' = [cur EXCEPT ![t] = Nil]
  /\ UNCHANGED oth

(* It has one: both leave the pool and are merged without the mutex.        *)
EvictCoalesce(t) ==
  /\ EvictStep(t)
  /\ ~EvictDone(t)
  /\ EvictSides(t) # {}
  /\ LET x == Head(EvictLru(t))
         y == Beside(x, IF "next" \in EvictSides(t) THEN "next" ELSE "prev")
     IN  /\ lru' = [lru EXCEPT !["dirty"] = Unlink(Tail(EvictLru(t)), y)]
         /\ npages' = [npages EXCEPT !["dirty"] = EvictNp(t) - size[x] - size[y]]
         /\ state' = [EvictSt(t) EXCEPT ![x] = "active", ![y] = "active"]
         /\ cur' = [cur EXCEPT ![t] = x]
         /\ oth' = [oth EXCEPT ![t] = y]
  /\ Goto(t, "emerge")
  /\ UNCHANGED <<quota, stash>>

(* arena_decay_stashed: the evicted extents become muzzy one by one.        *)
Stash(t) ==
  /\ pc[t] = "stash"
  /\ stash[t] # <<>>
  /\ Coalesce(t, Head(stash[t]), "muzzy", "next", "stash")
  /\ stash' = [stash EXCEPT ![t] = Tail(@)]
  /\ UNCHANGED <<memVars, size, slab, leaf, allocated, purging, want, limit, quota>>

PurgedLeftSet == purging
Purged == FALSE

DecayEnd(t) ==
  /\ pc[t] = "stash"
  /\ stash[t] = <<>>
  /\ purging' = Purged
  /\ limit' = [limit EXCEPT ![t] = 0]
  /\ quota' = [quota EXCEPT ![t] = 0]
  /\ Goto(t, "idle")
  /\ UNCHANGED <<memVars, objVars, poolVars, allocated, want, pool, cur, oth, at, stash>>

(* extents_evict of the muzzy pool.  n_muzzy_extent_can_evict names a first *)
(* page and a number of chunks; the extent is split there and at a chunk    *)
(* multiple, and what is left must be exactly that many chunks.  When it is *)
(* not, assert() stops the program; when it is, arena_decay_stashed unmaps  *)
(* it and falls through to not_reached().                                   *)
RoundUp(x)    == ((x + ChunkPages - 1) \div ChunkPages) * ChunkPages
NEvict(x)     == ((x + size[x]) - RoundUp(x)) \div ChunkPages
EvictStartAligned(x) == RoundUp(x)
EvictStart(x) == RoundUp(x) + ChunkPages
Candidate(x)  == size[x] >= ChunkPages /\ x + size[x] >= EvictStart(x)
Remainder(x)  == (x + size[x]) - EvictStart(x)
Odd(x)        == Remainder(x) % ChunkPages
Whole(x)      == ChunkPages * NEvict(x)
EvictFailure(x) ==
  CASE Odd(x) # 0 /\ Remainder(x) # Whole(x) + Odd(x) -> "extent.c:524"
    [] Odd(x) = 0 /\ Remainder(x) # Whole(x)          -> "extent.c:435"
    [] OTHER                                          -> "arena.c:568"

MuzzyEvict(t, lim) ==
  /\ pc[t] = "idle"
  /\ npages["muzzy"] > lim
  /\ npages["muzzy"] >= MuzzyFloor
  /\ \E i \in DOMAIN lru["muzzy"] :
       /\ Candidate(lru["muzzy"][i])
       /\ \A j \in 1 .. i - 1 : ~Candidate(lru["muzzy"][j])
       /\ failed' = EvictFailure(lru["muzzy"][i])

-----------------------------------------------------------------------------
Serve(t) == Register(t) \/ SplitExact(t) \/ SplitTail(t) \/ PutBack(t) \/ Commit(t)
Age(t)   == EvictNone(t) \/ EvictOne(t) \/ EvictCoalesce(t) \/ Stash(t) \/ DecayEnd(t)

(* A step that a thread, once started, takes without being asked.           *)
Progress(t) ==
  \/ AllocMuzzy(t)
  \/ AllocBump(t)
  \/ \E b \in ChunkBases \ mapped : AllocChunk(t, b)
  \/ Serve(t)
  \/ Merge(t)
  \/ Record(t)
  \/ Age(t)

(* A step that a client of the arena, or its clock, decides on.             *)
Ask(t) ==
  \/ \E n \in Requests : AllocDirty(t, n, "large")
  \/ AllocDirty(t, SlabPages, "slab")
  \/ \E x \in allocated : Free(t, x)
  \/ \E lim \in DecayLimits : DecayStart(t, lim)

Fail(t) ==
  /\ \E lim \in DecayLimits : MuzzyEvict(t, lim)
  /\ UNCHANGED <<memVars, objVars, poolVars, allocated, pc, cur, oth, runVars>>

Run(t) == failed = "no" /\ Progress(t) /\ UNCHANGED failed

Next ==
  \E t \in Threads :
    \/ Run(t)
    \/ failed = "no" /\ Ask(t) /\ UNCHANGED failed
    \/ failed = "no" /\ Fail(t)

Spec == Init /\ [][Next]_vars

(* Locks are released after finitely many steps, so a started thread runs   *)
(* on: glibc wakes the waiters of a mutex, and no step waits for a client.  *)
FairSpec == Spec /\ \A t \in Threads : WF_vars(Run(t))

-----------------------------------------------------------------------------
Label == {"idle", "muzzy", "new", "register", "split", "putback", "commit",
          "merge", "emerge", "record", "reinsert", "evict", "stash"}

(* Every variable holds a value of its type. *)
TypeOK ==
  /\ mapped \subseteq ChunkBases
  /\ newAddr \in 0 .. NPages
  /\ newN \in 0 .. SizeMod - 1
  /\ size \in [Pages -> 0 .. NPages]
  /\ state \in [Pages -> {"none", "active"} \cup Pools]
  /\ slab \in [Pages -> BOOLEAN]
  /\ leaf \in [Pages -> [tag : {"null", "extent", "vslab"},
                         id : Pages \cup {Nil}, slab : BOOLEAN]]
  /\ lru \in [Pools -> Seq(Pages)]
  /\ npages \in [Pools -> Int]
  /\ allocated \subseteq Pages
  /\ purging \in BOOLEAN
  /\ failed \in {"no", "extent.c:524", "extent.c:435", "arena.c:568"}
  /\ pc \in [Threads -> Label]
  /\ want \in [Threads -> [n : Nat, kind : Kinds]]
  /\ pool \in [Threads -> Pools]
  /\ cur \in [Threads -> Pages \cup {Nil}]
  /\ oth \in [Threads -> Pages \cup {Nil}]
  /\ at \in [Threads -> {"next", "prev"}]
  /\ limit \in [Threads -> Nat]
  /\ quota \in [Threads -> Int]
  /\ stash \in [Threads -> Seq(Pages)]

(* An extent_t exists at x. *)
Extent(x) == size[x] > 0

InMapped(q) == \E b \in mapped : b <= q /\ q < b + ChunkPages

(* No page belongs to two extents, or to an extent and to the part of the   *)
(* newest chunk that arena_activate_new_memory has not given out yet, and   *)
(* every page of an extent lies in a mapped chunk, whatever the threads     *)
(* are splitting, merging, recycling and ageing at the moment.              *)
NoOverlap ==
  \A x \in Pages : Extent(x) =>
    /\ \A q \in x .. x + size[x] - 1 :
         InMapped(q) /\ (q > x => size[q] = 0) /\ ~(newAddr <= q /\ q < newAddr + newN)

(* The extents a thread works on: unlocked code reads and writes them.      *)
Elems(s) == {s[i] : i \in DOMAIN s}
Held(t)  == ({cur[t], oth[t]} \cup Elems(stash[t])) \ {Nil}

(* An extent that a thread is splitting, merging, registering or ageing     *)
(* outside the mutexes is active, in nobody else's hands, and not yet (or   *)
(* no longer) a client's: extent_can_coalesce and extents_fit never give    *)
(* one extent to two threads.                                               *)
HeldAlone ==
  \A t \in Threads : \A x \in Held(t) :
    /\ state[x] = "active"
    /\ x \notin allocated
    /\ \A u \in Threads \ {t} : x \notin Held(u)

(* A pool's lru list holds exactly the extents in the pool's state, each    *)
(* once, and npages is the number of their pages.                           *)
PoolsConsistent ==
  \A p \in Pools :
    /\ Elems(lru[p]) = InPool(p)
    /\ Len(lru[p]) = Cardinality(InPool(p))
    /\ npages[p] = MapThenSumSet(LAMBDA x : size[x], InPool(p))

(* extents_rtree agrees with the extents at rest: the ends of a pooled      *)
(* extent name it, which is what coalescing reads; every page of a slab     *)
(* names its vslab with the slab bit set, and a large allocation's first    *)
(* page names it with the bit clear, which is what pmalloc_free_from        *)
(* dispatches on; the pages in between name nothing.                        *)
LeafAgrees ==
  \A x \in Pages :
    /\ state[x] \in Pools =>
         \A q \in x .. Last(x) :
           IF q \in {x, Last(x)} THEN leaf[q].tag = "extent" /\ leaf[q].id = x
                                 ELSE leaf[q] = NullLeaf
    /\ x \in allocated /\ slab[x] =>
         \A q \in x .. Last(x) : leaf[q] = SlabLeaf(x)
    /\ x \in allocated /\ ~slab[x] =>
         /\ leaf[x] = ExtLeaf(x, FALSE)
         /\ leaf[Last(x)].tag = "extent" /\ leaf[Last(x)].id = x
         /\ \A q \in x + 1 .. Last(x) - 1 : leaf[q] = NullLeaf

(* The pages that some extent, or memory_new, accounts for. *)
Accounted ==
  {q \in Pages : \/ \E x \in Pages : x <= q /\ q < x + size[x]
                 \/ newAddr <= q /\ q < newAddr + newN}

(* No step loses pages, except that arena_evict_new_memory_locked, on its   *)
(* way to a fresh chunk, forgets a rest of memory_new whose length is not a *)
(* size class.                                                              *)
OnlyOddRestsLost ==
  [][\A q \in Accounted \ Accounted' :
       /\ mapped' # mapped
       /\ newAddr <= q /\ q < newAddr + newN
       /\ newN \notin PClasses]_vars

(* Nothing other threads do (coalescing beside it, ageing, recycling)       *)
(* changes the length, the kind or the leaves of an extent while a client   *)
(* holds it.                                                                *)
ClientUndisturbed ==
  [][\A x \in allocated \cap allocated' :
       /\ size'[x] = size[x] /\ slab'[x] = slab[x] /\ state'[x] = state[x]
       /\ leaf'[x] = leaf[x] /\ leaf'[Last(x)] = leaf[Last(x)]]_vars

(* Every decay that started comes to an end, unless an assert stops the     *)
(* program, provided that clients, and other clocks, stop calling at some   *)
(* time: until then those who take out, split and free again what the       *)
(* eviction has just merged can keep it merging for ever.                   *)
Calls     == \E t \in Threads : Ask(t)
DecayEnds == <>[][~Calls]_vars => (purging ~> ~purging \/ failed # "no")

(* What the extent layer promises its clients. *)
Heap == INSTANCE PageHeap
          WITH heap  <- [p \in Pages |-> IF p \in allocated THEN size[p] ELSE 0],
               Sizes <- Requests \cup {SlabPages}
HeapSpec == Heap!Spec

(* arena.c:320 asserts npage_new >= 0 after npages were taken from the      *)
(* newest chunk: the pages given out never outnumber the chunk's pages.     *)
NewRegionInChunk == newN <= ChunkPages

(* extent.c:435: what the muzzy purge is about to unmap is whole chunks.    *)
PurgeWholeChunks == failed = "no"

(* The asserts of extents_evict stop the program before it ever unmaps a    *)
(* chunk: arena_file_unmap, and the missing break after it in               *)
(* arena_decay_stashed, are never reached.                                  *)
NeverUnmaps == failed # "arena.c:568"

-----------------------------------------------------------------------------
(* The inductive invariant behind NoOverlap, HeldAlone and HeapSpec.  It    *)
(* holds when no request is longer than a chunk (see NewRegionInChunk).     *)
RequestsFitChunk == \A n \in Requests \cup {SlabPages} : n <= ChunkPages

Distinct(s) == \A i, j \in DOMAIN s : s[i] = s[j] => i = j

Live     == \A x \in Pages : size[x] > 0 <=> state[x] # "none"
Fenced   == \A x \in Pages : x + size[x] <= NPages
Disjoint == \A x, y \in Pages : x < y /\ size[x] > 0 /\ size[y] > 0 => x + size[x] <= y
NewFree  == newN > 0 => \A x \in Pages : size[x] > 0 =>
              x + size[x] <= newAddr \/ newAddr + newN <= x
NewMapped == \E b \in mapped : b <= newAddr /\ newAddr + newN = b + ChunkPages
AllMapped == \A x, q \in Pages : x <= q /\ q < x + size[x] => InMapped(q)

(* A leaf that names an extent is the first or the last page of an extent   *)
(* that exists: what SidePage finds is adjacent.                            *)
LeafNames ==
  \A q \in Pages : leaf[q].tag = "extent" =>
    /\ leaf[q].id \in Pages
    /\ size[leaf[q].id] > 0
    /\ q = leaf[q].id \/ q = leaf[q].id + size[leaf[q].id] - 1

ListsMatch == \A p \in Pools : Distinct(lru[p]) /\ Elems(lru[p]) = InPool(p)

WithCur == {"register", "split", "putback", "commit", "merge", "emerge", "record", "reinsert"}
WithOth == {"putback", "merge", "emerge"}
Serving == {"muzzy", "new", "register", "split", "putback", "commit"}

(* What a thread's locals say in each place. *)
LocalOK(t) ==
  /\ cur[t] # Nil <=> pc[t] \in WithCur
  /\ oth[t] # Nil <=> pc[t] \in WithOth
  /\ oth[t] # Nil => oth[t] # cur[t]
  /\ Distinct(stash[t])
  /\ cur[t] \notin Elems(stash[t]) /\ oth[t] \notin Elems(stash[t])
  /\ pc[t] \in Serving => want[t].n \in Requests \cup {SlabPages}
  /\ pc[t] \in {"register", "putback", "commit"} => size[cur[t]] = want[t].n
  /\ pc[t] = "split" => size[cur[t]] >= want[t].n
  /\ pc[t] \in {"merge", "emerge"} =>
       cur[t] + size[cur[t]] = oth[t] \/ oth[t] + size[oth[t]] = cur[t]
LocalsOK == \A t \in Threads : LocalOK(t)

ClientsActive == \A x \in allocated : state[x] = "active"

IndInv ==
  /\ TypeOK
  /\ Live /\ Fenced /\ Disjoint
  /\ NewFree /\ NewMapped /\ AllMapped
  /\ LeafNames /\ ListsMatch
  /\ LocalsOK /\ HeldAlone /\ ClientsActive
=============================================================================
