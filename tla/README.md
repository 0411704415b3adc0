# PMAlloc in TLA+

A verification development for PMAlloc, a heap allocator for persistent memory.
It holds TLA+ models of the allocator's components, TLC instances that check
them, and TLAPS proofs. The models are written from the C sources, not from the
paper; line numbers below refer to `src/src/*.c` and
`src/include/pmalloc/internal/*.h`. The build modelled is the default one:
`PMALLOC_BESTFIT`, `SLAB_MORPHING`, `NUMA_LOG_IM`, `NBANKS` 6, and assertions
compiled in (`autogen.sh d`).

## 1. Inventory

### 1.1 Components

| component | state it keeps | operations | correct when |
|---|---|---|---|
| extent layer (`extent.c`) | per `extent_t`: address, size, slab bit, state; per pool (`extents_dirty`, `extents_muzzy`): heaps by size class, lru list, page count, mutex | recycle (best fit), split, register, record with coalescing, evict, merge | extents never overlap; an extent is worked on by one thread at a time; pools and radix tree agree with the extents |
| arena memory (`arena.c`) | `memory_new`/`npage_new`, tree of mapped files, decay state | map a chunk, bump-allocate, give up the rest, decay, large alloc/free | pages given out lie in mapped files; decay ends |
| bookkeeping log (`log.c`) | persistent: two roots, `alt`, chain of 1 KiB chunks with items; volatile: tree of chunks with bitmaps, tail, counters, free list | `add_log` (NORMAL, FREE, FILE), `add_tomb`, `flush_tomb`, `fast_GC`, `slow_GC` | what is in persistent memory at any moment names every extent that is held, once; garbage collection changes nothing of that; chunks are neither lost nor used twice |
| NUMA log (`numa_log.c`) | per thread and kind two entry files, used in turn; bitmap of arenas written to; per arena a semaphore | alloc an entry, flush (swap buffers, wake flushers), slab flusher, extent flusher | an entry is not overwritten before what it records is persistent |
| slab layer (`slab.c`, `slab.h`) | per `vslab_t`: bitmap, remote-free bitmap, morph state; per bin the list of slabs | slab alloc/free, block alloc/free, refill, flush, morph | a block is in exactly one of: free in a slab, in a cache, held by a client |
| thread cache (`tcache.c`) | per size class and bank a stack of blocks | alloc, free, fill, flush, destroy | as above |
| radix tree (`rtree.c`, `rtree.h`) | 2-level tree of leaves, per-thread L1/L2 look-up cache | look up, write, clear | the cache returns what the tree holds |
| minilog (`minilog.c`) | ring of 96 entries per node | add an entry | an entry survives until its allocation is logged |
| entry points (`pmalloc.c`) | thread data, arena choice | malloc_to, free_from | dispatch on the slab bit is right |
| size classes (`sizeclass.c`) | tables | look-ups, rounding | look-up is the inverse of the table |
| tsd, mutex pool, lists | thin wrappers | | |

### 1.2 Interaction

A large `pmalloc_malloc_to` takes an extent from the extent layer (dirty pool,
muzzy pool, then new memory), writes a minilog entry, then writes a NORMAL item
to the arena's bookkeeping log under `log_lock`. A small one pops a block from
the thread cache, which is filled from the bin's slabs; a slab is an extent of 16
pages with its own NORMAL item. `pmalloc_free_from` looks the pointer up in the
radix tree and dispatches on the slab bit. Freeing from another NUMA node is
two-phase: blocks are marked in a second bitmap (or tombstones kept in DRAM) and
recorded in the thread's NUMA log, and per-arena flusher threads apply them when
that log is full. Each arena runs three threads of its own: slab flusher, extent
flusher and `slow_GC`. Ageing (`arena_decay_ticks`) is driven by the client
threads.

### 1.3 What is hard

- extents are split, registered and merged *outside* the pool mutex; exclusion
  rests on the `active` state and on the order radix tree, state and list are
  written in;
- `extent->log` and the freed extent are touched outside `log_lock`, while
  `slow_GC` moves every item of the log;
- the persistent chain and the volatile tree of log chunks are two structures
  that every collection must change together;
- remote frees race with the owner's frees and with morphing on three bitmaps;
- the NUMA log's two buffers are swapped without waiting for the flushers;
- arithmetic at the edges: unsigned counters, table look-ups one past the end,
  a 14-bit version number.

The list with a line for each is `hazards` in PROJECT.json.

## 2. Plan

| order | module | models | status |
|---|---|---|---|
| 1 | `PageHeap` | abstract: runs of units allocated and freed | done |
| 1 | `Extents`, `MCExtents` | extent layer, chunk mapping, pools, radix leaves, ageing | done |
| 1 | `Extents_proofs` | inductive invariant, exclusion, disjointness, refinement of `PageHeap` | done |
| 1 | `ExtentsLeaves_proofs` | the radix leaves, what clients hold, the pages lost | done |
| 2 | `DurableRecords` | abstract: what persistent memory promises about held extents | done |
| 2 | `BookLog`, `MCBookLog` | bookkeeping log, tombstones, both collectors | done |
| 3 | `Slabs`, `MCSlabs` | blocks between slab, thread cache and client; two-phase free and its flusher; morphing persist by persist; change of CPU; who waits for whom; refines `PageHeap` | done |
| 4 | `PageMap` | abstract: one map shared by all threads | done |
| 4 | `Rtree`, `MCRtree` | tree, leaves made on demand, both look-up caches; refines `PageMap` | done |
| 4 | `Rtree_proofs` | every safety property of `Rtree` and the refinement | done |
| 5 | `BookLogChunks_proofs` | `count_to_index` is one-to-one, the log is only appended to; types of the log, `ChunksAccounted` | done |
| 6 | `BookLogChain_proofs` | `HeldRecorded`, `ChainIsTree`, `StrayFirst` | done |
| 7 | `Slabs_proofs` | the lock discipline of `Slabs`, `OnlyMorphDeadlocks` | done |
| 8 | `SlabsBlocks_proofs` | the accounts of blocks in `Slabs`: the inductive invariant and what follows from it | done |
| 8 | `SlabsImages_proofs` | what a crash finds on a slab's pages, the asserts, the refinement of `PageHeap` | done |
| 9 | `BookLogChain_proofs` | `TombsHarmless`; the refinement of `DurableRecords` | done |

Block caching, two-phase free, morphing and the lock order share almost every
variable, so they are one module, `Slabs`, and not one each: what
goes wrong between them is the point. Why nothing is planned for the rest is in
section 9.

## 3. The extent layer: `Extents`

### 3.1 State and actions

An `extent_t` is named by its first page, which never changes. `size`, `state`
and `slab` are its fields; `leaf` is what `extents_rtree` holds for each page
(nothing, an extent, or the `vslab_t` of a slab, with the slab bit kept beside
it). `lru` and `npages` are the two pools; the size-class heaps are not kept:
`BestFits` computes from the states what `extents_best_fit_locked` would find in
them. `mapped`, `newAddr`, `newN` are the file tree, `memory_new` and
`npage_new`. Per thread, `pc`, `want`, `pool`, `cur`, `oth`, `at`, `limit`,
`quota`, `stash` are the locals of the functions on its stack.

A region under `extents->mtx` is one action, and so is each piece of unlocked
work between two regions:

| code | actions |
|---|---|
| `arena_extent_alloc_large`, `arena_slab_alloc` | `AllocDirty`, `AllocMuzzy`, then `AllocBump` or `AllocChunk` |
| `extent_recycle` (extract; split; put the tail back; commit) | `Recycle`; `SplitExact`, `SplitTail`; `PutBack`; `Commit` |
| `arena_activate_new_memory`, `arena_evict_new_memory_locked`, `extent_register` | `AllocBump`, `AllocChunk`, `Register` |
| `arena_extents_dirty_dalloc`, `extent_record` with coalescing | `Free`, then `Merge` and `Record` in turn |
| `arena_decay_to_limit`, `extents_evict`, `arena_decay_stashed` | `DecayStart`, `EvictNone`, `EvictOne`, `EvictCoalesce` with `Merge`, `Stash`, `DecayEnd` |
| `extents_evict` of the muzzy pool, up to its asserts | `MuzzyEvict` |

`extent_merge_impl` runs with the pool's mutex dropped; `Merge` is therefore open
to every step of the other threads. The two leaves it and the split write are
written under the extent locks of the mutex pool, hence in one action.

### 3.2 Runs

| run | instance | question |
|---|---|---|
| `ExtentsThreads` | 2 threads, 6 pages, two adjacent chunks of 3, requests of one page, slabs of three | does the radix tree agree with the extents (`LeafAgrees`)? is a client's extent left alone by what happens beside it (`ClientUndisturbed`)? which pages are lost (`OnlyOddRestsLost`)? |
| `ExtentsDecay` | 2 threads, 4 pages, two chunks of 2, requests of two pages, slabs of one, decay limit 1, muzzy threshold 0, with fairness | with a thread ageing extents: `NoOverlap`, `HeldAlone`, `PoolsConsistent`, refinement of `PageHeap`; does a decay that started end once nobody calls any more (`DecayEnds`)? does the muzzy purge ever unmap a chunk (`NeverUnmaps`: no, an assert fires first)? |
| `ExtentsPurge`, `ExtentsOversize` | 1 thread | findings, see 3.3 |

*Bounds.* Three pages to a chunk is the least with an extent that has a neighbour
on both sides inside one chunk, so that a merge can run while both neighbours
move. The second, adjacent chunk gives coalescing across files and the second
`arena_activate_new_memory`; in the `Decay` instance the chunks have two pages,
and merges across the boundary give chains of up to four extents; decay limit 1 lets an
eviction end with an extent left, with none left, and at its quota. Two threads
suffice for every race named in the hazards: each is between one unlocked piece
of work and one other region. `FitFactor` is scaled so that the dirty pool does
refuse an extent. `SizeMod` only has to exceed the chunk.
A chunk's base is aligned to the chunk size, and only unmapped bases are chosen:
`AllocChunk` is the kernel's choice in `mmap`.

*No deadlock check:* a thread stops for good when no chunk base is left (the code
exits when `mmap` fails) or an assert fires.

*Fairness.* `FairSpec` asks weak fairness of each thread's `Run`: the steps a
thread takes once a client, or the clock, has called it. Every mutex is released
after finitely many steps, none of those steps waits for a client, and glibc
wakes a waiter when a mutex is released. What clients ask for (`Ask`) is not
fair. A failing assert ends the program, so `DecayEnds` allows for it.

*What `DecayEnds` does not say.* It speaks of behaviours in which clients call
finitely often. With calls without end an eviction need not end either. While
`extents_evict` merges two neighbours without the mutex (`extent.c:1080`), a client
takes an extent that was merged before, splits it into a slab and a large block, and frees the
slab, then the block. They do not merge (the slab's leaf keeps its slab bit,
`extent.c:951`, and `inactive_only` passes it over, `extent.c:968`), so the
eviction, back from its merge, finds a pair to merge at the head of the list, and
the client in the meantime does the same with what has just been put back.
No extent is evicted, the quota stays what it was, and `purging` stays set. In the
instance of `ExtentsDecay` two slabs of one page each do the same, and `purging ~>
~purging` without the condition has a counterexample there.

### 3.3 Findings

- `extent.c:362` (`ExtentsPurge`): `n_muzzy_extent_can_evict` stores the end of
  the first whole chunk as its start; the assert in `extents_evict` on the number
  of whole chunks then fails for every candidate. `NeverUnmaps` is the other
  side: the code behind those asserts (`arena_file_unmap`, and the fall-through
  in `arena_decay_stashed`) is never reached; it is proved for every size.
- `arena.c:319` (`ExtentsOversize`): a request of more than one chunk maps one
  chunk and wraps the unsigned `npage_new`; the assert below it compares an
  unsigned value with zero.

One more is in the source but not in a run: coalescing has no size limit, and a
pooled extent of `MAX_PSZ` pages makes `get_psizeclass_floor` (`extent.c:30`) ask
for the class of one page more, which `sizeclass.h:220` asserts never happens.

## 4. Proofs about the extent layer: `Extents_proofs`, `ExtentsLeaves_proofs`

Proved for any threads, address space, chunk size, size classes and decay limits
that satisfy `ExtentsAssumption`, under the one extra hypothesis
`RequestsFitChunk` (no request is longer than a chunk; without it the finding at
`arena.c:319` applies and the statements are false):

| theorem | states |
|---|---|
| `Inductive` | `[]IndInv` |
| `Types` | `[]TypeOK` |
| `Exclusion` | `[]HeldAlone`: what a thread works on outside the mutexes is active, in no other hands, and no client's |
| `PagesApart` | `[]NoOverlap`: no page is in two extents, or in an extent and the rest of the newest chunk; all lie in mapped chunks |
| `NothingUnmapped` | `[]NeverUnmaps`: after its split the muzzy purge always has one chunk less than it counted |
| `Refinement` | `HeapSpec`: `Extents` implements `PageHeap` |
| `LeavesAgree` | `[]LeafAgrees`: the ends of a pooled or large extent name it, every page of a client's slab names its vslab, nothing else is left in between |
| `ClientsLeftAlone` | `ClientUndisturbed`: no step changes the size, state, slab flag or end leaves of an extent a client keeps |
| `PagesKept` | `OnlyOddRestsLost`: the one way to lose a page is the rest of a chunk whose length is no size class |

*The argument.* `HeldAlone` alone is not inductive. A merge takes the extent its
radix leaf names; that it is the neighbour, and not an extent elsewhere, needs
`LeafNames` (a leaf that names an extent lies at one of its ends). That the
extent taken from a pool is nobody's needs `ListsMatch` (the lru list holds
exactly the extents in that state, once each). That a split or a merge keeps
extents apart needs `Disjoint`, `Fenced`, and what each thread remembers about
the extents in its locals (`LocalOK`: the length matches the request, the two
halves of a merge are adjacent). A chunk's fresh part stays clear of extents by
`NewFree`, `NewMapped` and `AllMapped`. `IndInv` is the conjunction.

One lemma per action (`BumpKeeps`, `SplitTailKeeps`, `MergeKeeps`,
`EvictCoalesceKeeps`, ...) shows that it keeps `IndInv`, with one step per group
of conjuncts that it can disturb. The lemmas of the first sections say what an
action of one thread leaves of the assumptions of the others (`StepKeeps`), what
an insertion into and a removal from a pool does to its list (`InsertKeeps`,
`ExtractKeeps`), and what `Unlink`, `Append` and `Tail` do to lists without
repetition. `NextInv` puts them together. For the refinement, every step is shown
to be an allocation, a release or a stutter of `PageHeap` (`NextIsHeapStep`);
the newly handed-out run is free there because extents are disjoint.

*The leaves* (`ExtentsLeaves_proofs`) need more than `LeafAgrees` says, which is
silent about an extent in a thread's hands. `LeafInv`, added to `IndInv`, has two
parts. `Shapes`: every extent, whoever has it, is `Tidy` (both ends name it,
nothing between), except a client's slab, which is `Slabby`, and one a thread is
just building, whose shape its `pc` tells; `extent->slab` is set only for a
client's slab and for a fresh one being registered. `Blank`: memory never given
out has no leaves, so a fresh extent starts from nothing and an adjacent chunk's
old leaves cannot be found under it. TLC checked both on the instances of
`ExtentsThreads` and `ExtentsDecay` before they were proved. The argument for
every action is its footprint: a step writes leaves only inside the extents it
works on (`ShapesKept`, `WorkKeeps`), those are disjoint from every other extent
(`Apart`), so the others keep their shape (`SameShape`), and for its own extents
the new shape is computed (`SplitPlaces`, `MergePlaces`, `ChunkPlaces`). The
unlocked merge is the interesting one: the two extents are the thread's own, so
what others do meanwhile cannot be inside them. `ClientsLeftAlone` is the same
footprint read for an extent in `allocated`; `PagesKept` follows the pages instead
of the leaves: `SplitCovers` and `MergeCovers` show that cutting and joining keep
the union of the pages, and only `ChunkCovers` can leave a rest out.

*Only model-checked:* `PoolsConsistent` (its page counter is a sum over a set, and
what a fold over a set computes needs induction over data) and
`DecayEnds` (liveness under fairness, beyond TLAPS).
The proofs about `BookLog` are in section 5.5, those about `Slabs` in section 6.5,
those about `Rtree` in section 8.

## 5. The bookkeeping log: `BookLog`

### 5.1 State and actions

One file of `FileChunks` chunks. Persistent: `root` and `alt` of the head, and per
chunk `nxt`, `id` and `item`. Volatile: per chunk its bitmap (`bits`), counter
(`cnt`) and predecessor (`pre`); `vlog`, the `vlog_t` of the arena (tree, tail,
counters, timer); `freeList`; `extLog`, the log position that every `extent_t` or
mapped file keeps; `tombs`, the shadow tombstones of frees from another node.
`freeing` is the position a client read before it took `log_lock`. `astray` is a
history variable for the properties: `Unlink` sets it when the `pre_lchunk` that it
follows does not name the chunk from which the chain leads to the collected one
(`Preceded`). No guard reads it.

`log_lock` is one variable. Inside it every write that the code makes persistent
on its own is an action of its own, so every reachable state is also a state in
which a crash can leave the file, and the invariants about the file hold of
crash states with no extra action.

| code | actions |
|---|---|
| `arena_large_alloc`, `arena_slab_alloc`, `file_create` → `add_log` NORMAL/FILE | `AllocBegin`, `Grow`, `WriteNormal` |
| `arena_dalloc`, `arena_slab_dalloc` → `add_log` FREE | `FreeBegin` (unlocked), `FreeLocal`, `Grow`, `WriteFree`, `WriteFreeFails` |
| the same from another node → `add_tomb` | `FreeBegin`, `FreeRemote`, `FreeRemoteFails` |
| `numa_log_extent_flusher` → `flush_tomb` | `FlushBegin`, `Grow`, `WriteTomb`, `Finish` |
| the tail of `add_log`: timer, ratio | `Tick`, `TickDivides`, `TickLoose` |
| `fast_GC` | `Retire`, `Unlink`, `FastDone` |
| `slow_GC` | `GcWake`, `GcDivides`, `GcDrop`, `GcRoot`, `GcFirst`, `GcVisit`, `GcGrow`, `GcCopy`, `GcAdvance`, `GcFlip`, `GcSwap`, and `GcVisitFails`, `GcCopyFails` |

`failed` names what stopped the program: `"no chunk"` (asserts at `log.c:207` and
`log.c:485`), `"chain"` (`log.c:386`), `"no extent"` and `"extent log"` (the
checks of `slow_GC` on an item's owner), `"division by zero"` (`num_of_items` is
a divisor), and `"moved"`: no assert fires, but the chunk number a client
remembered now belongs to the new log. A behaviour of the model ends there; what
follows in the code would end whatever record now lies at that place.

### 5.2 What is checked

| run | instance | properties |
|---|---|---|
| `BookLogSlow` | 1 client, two extents and a file, chunks with two usable slots of three over 3 banks, so that a chunk holds several live items; one `fast_GC` and one `slow_GC` | `ChainIsTree`, `HeldRecorded`, `DurableSpec`, `AppendOnly` |
| `BookLogPair` | 2 clients, one extent and a file, so that the extent is logged again before its release is; chunks of one usable slot, two `fast_GC` and one `slow_GC` | `TypeOK`, `TombsHarmless`, `HeldRecorded`, `ChunksAccounted`, `StrayFirst` |
| `BookLogTwice`, `BookLogMoved` | 1 client | findings, see 5.3 |

- `DurableSpec`: at every persist the file names every held extent; a record
  beyond that comes only from a release that is not yet logged, and only goes
  away. This is the abstract specification `DurableRecords`, with the file read
  the way its head leads (`Chain`, without the chunks marked free), items that a
  tombstone ends left out.
- `ChainIsTree`: the persistent chain and the volatile tree hold the same chunks
  at every persist, and the chain ends at the tail, until `fast_GC` has gone
  astray (`astray`).
- `StrayFirst`: the assert at `log.c:386` fails only after that.
- `TombsHarmless`: no tombstone, in the file, in DRAM or about to be written,
  names a record that counts, though chunks are freed and used again in between.
  Two places are left out, both because ids begin again at 1 in the log that
  `slow_GC` makes. Tombstones that wait while `alt` is flipped and `shadow_tomb` not
  yet emptied speak of the old log and may fit a record of the new one; they are
  dropped without being written, inside `log_lock`. (The bounds of `Pair` are too
  small to show it. The proof asked for it, and an instance made for it, with six
  tombstones waiting over two `fast_GC` and 21 chunks taken, showed it to TLC.) And once
  `fast_GC` has gone astray the chain may still run through a collected chunk, which
  `slow_GC` may be filling for the new log.
- `HeldRecorded`: a held extent points at its own, counted, record. It is stated
  until `fast_GC` has gone astray: after that `slow_GC` may follow a chain that
  misses a chunk, and then a held extent's record is not copied and is lost (the
  finding at `log.c:309`; without the condition TLC shows such a behaviour).
- `AppendOnly`: no item is written over another of its chunk. Consecutive items go
  to different cache lines, so that this is a fact about `count_to_index` and
  about who may write where; a chunk starts blank again only when it is taken.
- `ChunksAccounted`: every chunk cut from the file is a root, in a tree, or in
  the free list once, and `num_of_chunks` counts those of the log in force. It is
  checked beyond the second `fast_GC` and through the `slow_GC` after it, where
  the chain is already broken.

*Bounds.* `MaxTaken` bounds the chunks allocated (each reuse counted), `MaxTombs`
the waiting tombstones, `MaxFast` and `MaxSlow` the collections; posts of
`GC_sem` beyond one are not counted (each further one only makes `slow_GC` look
at the counters again). `NItems`, `Banks` and `PerLine` are small but keep the
shape of 126, 6 and 8: `count_to_index` skips slots (of 3 slots the
`Slow` instance uses 2, of 2 the `Pair` instance uses 1, as the code uses 100 of 126), so a full chunk is
recognised before its slots are used up. `GCPeriod` and the ratios are
scaled so that a handful of frees starts a collection. The two ratios differ, because
`add_log` looks at the slow one first: with equal ratios `fast_GC` never runs.
`MaxFast` is 1 in `Slow`, where `DurableSpec` is checked: one `fast_GC` of that
instance does not go astray. In `Pair` it is 2; there it does, and `slow_GC` still
runs after it. That `slow_GC` then really fails its assert takes more
extents and is the run `BookLogTwice`: so what `StrayFirst` says in `Pair` is that
nothing else leads to it, and the theorem `OnlyStrayBreaksChain` says so for every
instance. `Addrs` has one file and one
or two extents: enough to keep one chunk occupied, one empty and one in
between.

The extents that are no files and the threads are interchangeable
(`Interchangeable`); no action and no property tells them apart, and these runs
check safety only.

*No liveness is claimed of the log.* `CHECK_DEADLOCK FALSE`: behaviours end at the
bounds, at a full file, and at an assert.

### 5.3 Findings

- `log.c:309` (`BookLogTwice`): `fast_GC` leads the predecessor past an empty
  chunk but does not set `pre_lchunk` of the chunk behind it. When that one is
  collected in turn, a free chunk's `next` is written instead, the chain still
  runs through the collected chunk, and the next `slow_GC` fails its assert at
  `log.c:386`.
- `arena.c:511` (`BookLogMoved`): `arena_dalloc` reads `extent->log` before it
  takes `log_lock`. If `slow_GC` runs in between, the position names the old log
  and `add_log` fails its assert at `log.c:207`.

Two observations are part of the model, and reached in the passing runs, but are
not stated as properties: `fast_GC` subtracts `N_ITEMS_PER_LCHUNK` per chunk from
`num_of_items`, although `count_to_index` never fills that many slots and
tombstones were not counted in, so the counter can wrap or reach zero
(`log.c:322`); and it is the divisor at `log.c:232`.

### 5.4 Left out

The head's timestamp; the size an item records; `get_heap_usage`; the moment
between the release of `log_lock` and the insertion of a new file into
`file_tree` (`arena.c:269`); `slow_GC` waiting for `vslab->eslab`
(`log.c:402`). The version of a tombstone is kept `% VersionMod`, but no run makes
it wrap round. A crash is a loss of volatile state between two persists; that the
hardware may write a cache line back earlier than it is flushed is not modelled.
The source has no code that reads a log after a crash.

### 5.5 Proofs: `BookLogChunks_proofs`, `BookLogChain_proofs`

For any clients, extents, file size, items per chunk, banks, items per cache
line, ratios and bounds that satisfy `BookLogAssumption`:

| theorem | states |
|---|---|
| `IndexOneToOne` | different items of a chunk have different slots |
| `SlotsInOrder` | `[]Filled`: a chunk has items only in the slots of the items counted so far |
| `NothingOverwritten` | `AppendOnly` |
| `BookLogTypes` | `[]TypeOK` |
| `NoChunkLost` | `[]ChunksAccounted` |
| `NoRecordLost` | `[]HeldRecorded` |
| `ChainIsTheTree` | `[]ChainIsTree` |
| `OnlyStrayBreaksChain` | `[]StrayFirst` |
| `TombstonesHarmless` | `[]TombsHarmless`, if versions do not wrap |
| `RecordsDurable` | `DurableSpec`, if versions do not wrap and `[]~astray` |

The last five are about the log until `fast_GC` goes astray, because after that
they are false (section 5.3); `NoChunkLost` has no such condition.

*Slots.* `count_to_index` splits a count into a block, a line in the block
and a place in the line; `IndexSplit` and `WithinBlock` show that its result is
again a block and a place inside that block, and `OneDivision` (quotient and rest
determine each other) then undoes the formula twice. `AppendOnly` alone is not
inductive: that the next slot is blank follows from `Filled`, which every step
keeps (`TakeStep` for the three ways to take a chunk, `AppendStep` for the
four ways to write an item, `OtherStep` for the rest). The slots a chunk does not
have never matter: the proof does not need that an index is inside the chunk.

*Chunks.* `ChunksAccounted` adds cardinalities, which says too little to take a
step from. `ChunkInv` says instead that the free list has no chunk twice and that
free list, log in force and new log have no chunk in common (`Places`), that a
log's root is not in its tree and its tail is (`Logs1`), on which side of the file
each log lies (`Sides`: `alt` changes one step before the logs are swapped),
who may be where under `log_lock` (`Holder`), and which chunks carry id 0 while
`fast_GC` works from the highest address down (`Marking`). `TailKept` is why
`fast_GC` never frees the tail: the item just written has its bit. `TypeOK`
needs `Looking` (what `slow_GC` copies has an owner). That `Descending` lists a set
of chunks, each once, is `DescendingList`; the counts follow from `Places` at the
end.

*Chain.* `ChainInv` is `Sound` until `fast_GC` has gone astray.

- `Chained`: along the chain the ids rise through exactly the chunks of the tree
  that are not marked free (`Linked`). Put this way, no step needs an induction
  along the list: taking a chunk adds the highest id behind the tail
  (`LinkedMore`), and leading the chain past one removes an id
  (`LinkedLess`). Between `Retire` and `Unlink` one chunk is marked and still in
  the chain (`Going`), and `Path` is the chain as it will be.
- `Recorded`: `HeldRecorded`. It is kept by a release only because of `Ending`: the
  item a client is about to end is no held extent's and no other client's.
- `Waiting`: who is in `moved` still waits, so `Ending` can leave them out.
- `Walking`: what `slow_GC` has not copied yet is still ahead of its cursor, by
  id. At the end of the chain nothing is ahead, so all is copied.

The conclusion about `Reached`, which is defined by recursion over the number of
steps, again needs no induction theorem: `WalkEnds` and `FollowerExists` show that
there is such a function, made of walks; `FollowerWithin` that it stays in any
set closed under `nxt`; and `FollowerCloses`, that after as many steps as the file
has chunks there are no new ones, by the least step at which one is
missing. `ChainCovers` turns `Linked` into the two inclusions of `ChainIsTree`.

`ChunkInv` and `ChainInv` were checked by TLC on the instances of `BookLogSlow` and
`BookLogPair` before they were proved.

*Tombstones.* The two theorems about them take one more assumption, `Unwrapped`:
`MaxTaken` is below `VersionMod`, so that a chunk's id is its version (and at
least 2, the chunks `arena_new` takes). In the code ids run on and the version has
14 bits: after 16384 ids of one log two lives of a chunk may look the same. What
happens then is not modelled. `TombInv` is `Young` (no more ids than chunks
taken) and, until `fast_GC` has gone astray, `TombSound`:

- `AllSpent`: whatever a tombstone names began before it (its version is below
  `nextId`), and if the chunk still lives that life, the item is written and does
  not count. This is what replaces the history of ids given out: ids only grow, so
  a later life of the chunk cannot have the version.
- `TombsStay`: the bit of a written tombstone is never cleared, so `fast_GC` never
  collects a tombstone before the record it ends.
- `Targets`, `Fresh`: what a client is about to end is a NORMAL item, never a
  tombstone; what it is about to log is held by nobody.
- `Copied`: `slow_GC` copies no tombstone, and of an extent at most one record, of
  which the old log has one that is not ended.

*Refinement.* `Records` counts NORMAL items that no tombstone ends; `Live` is the set
it counts. Every step of `BookLog` is then a `Log` (`LogStepLogs`), a `Release`
(`ReleaseStep`) or a `Fade` of `DurableRecords`, or stutters (`DurableSteps`).
Most are a `Fade` because the records after it are among those before (`Waned`,
`WanedFades`); the flip of `alt` is not of that kind, because the records of the new
log are others, but `Copied` bounds them by those of the old (`FlipFades`). The
theorem has the hypothesis `[]~astray` and cannot do without it: beyond it `slow_GC`
may lose a record (the finding at `log.c:309`).

`TombInv` was checked by TLC on the instances of all four `BookLog` runs before it was
proved. All safety properties of `BookLog` that a run expects to hold are proved.

## 6. Slabs, thread caches and remote frees: `Slabs`

### 6.1 State and actions

One arena. `v` is the `vslab_t` of each slab (layout `sc`, bitmap `used`, `nbits`;
`rb` and `rdirty` for remote frees; `scb`, `numb` and `dnum` for a morphed
slab), `pm` its persistent `slab_t` (`is_mixed % 4`, meta bits, `sb_table`). `bin`
and `now` are the bins, `lru`, `lruLen`, `morphLen` the LRU list of slabs and its
two counters, `cache` and `turn` the thread caches, `numaList`, `sem` and `logged`
what connects remote threads to the flusher. `held` is what clients have, `lost`
what falls out of a cache. A block is a slab, an offset and a length in units, so
blocks of two layouts of one slab can be compared.

Each mutex is a variable that names its holder. What the code does between two
lock operations is one action, with these exceptions: fields read before the lock
is taken are read in an action of their own (`Start`, `FarFree`, `WalkOn`, `Get`,
`Unlink`, `Check`), so is an unlocked read-modify-write (`Pop`, `FreeNew`, then
`SetLen`), so is the clearing of a meta bit that no lock covers (`Unset`), and so is
each persisted step of a morphing.

| code | actions |
|---|---|
| `pmalloc_malloc_to`, small sizes | `MallocHit`, or `MallocMiss` and, the cache filled, `Take` |
| `tcache_fill_cache`, `slab_pop_one_cache` | `PopNone`, `Pop`, `SetLen`, `Touch`, `PopFull` |
| `slab_get_one` | `Get`; `Search`, `WalkOn`, `WalkEnd`; `Create`, `Insert` (`slab_create`) |
| `slab_morphing` | `Seize`, then `Reuse` of an empty slab, or `Unbin`, `Table`, `Metas` |
| `slab_free_small`, same node | `Free`, then `Unset` and, unless the block stays in the cache, `FreeNew`, `Freed`, or `FreeOld`, `Relist`; `Unlink`, `Check`, `Drop` |
| `slab_free_small`, other node; `numa_log_alloc` | `FarFree`, `FarMark`, `Enlist` |
| `numa_log_slab_flusher` | `Wake`, `Flush`, `FlushEnd` |
| `numa_migrate_check`, `migrate_putback` | `Migrate`, `PutBack` with the actions of a free, `Settle` |

`failed` names what ends a behaviour: an assert (`"index"`, `"bitmap"`,
`"sb_table"`, `"morphing_len"`, `"LRU_dlnode"`), or a point from which the code
works on memory the model does not have: `"unlinked"` (a slab taken out of a list it is not
in), `"freed slab"` (a slab freed while somebody has it), `"numa_list"` (a ring entered
twice and so cut off), `"wild"` (a bit beyond the bitmap), `"marked"` (an entry
with `is_sb` set, which `malloc` would skip).

*Outdated layouts.* The code works with a layout the slab no longer has in three
ways, and the model goes on through all of them as the code does:

- `slab_free_small` and `migrate_putback` read `vslab->sc`, `sc_b` and `num_b`
  without a lock (`slab.c:523-543`, `705-723`), clear the meta bit without one
  (`slab.c:633`, `812`), and only then take `slab_lock`. A morph may come in
  between.
- A far free takes any block for one of the slab's own layout (`slab.c:500-503`),
  also an old block of a mixed slab, or reads `sc` before a morph and sets its bit
  in `rbitmap` after it. The flusher applies what was noted (`numa_log.c:147`).
- `slab_morphing` looks at `bitmap` alone. What is in `rbitmap` stays there and is
  later applied to the new layout.

The history variable `stale` records whether such a step has been taken
(`Outdated`); no guard reads it. What the layer promises breaks there: TLC finds
a held block that no meta bit records (a morph between `slab.c:523` and `633`, after
which the free clears the bit of a block of the new layout), a failing bitmap assert,
a slab freed in use, and a slab taken out of a bin it is not in, in the states behind it. So every property
of `Slabs` that rests on layouts is stated of the runs up to the first such step: `Clean`
is `failed = "no" /\ ~stale`. Without the condition they are false of the code.

### 6.2 What is checked

| run | instance | properties |
|---|---|---|
| `SlabShared` | an owner and a thread of the other node, one class, two slabs of two blocks, with fairness | `TypeOK`, `Accounted`, `DirtyListed`, `FlushDrains` |
| `SlabMorph` | two threads of the arena, two classes (one and two units), one slab of four units, one change of CPU | `BlocksApart`, `BlocksRecorded`, `OldCounted`, `NeverMarks`, `BitmapsSound`, `OnlyMorphDeadlocks`, `BlockSpec` |
| `SlabLruNode` | a thread of the arena and one of the same node, as above | finding, see 6.3 |

- `Accounted`: bitmap and counter of an unlocked slab are exactly the blocks that
  are with clients, in caches, on their way back, waiting for the flusher, or
  lost.
- `DirtyListed`: remote frees are pending exactly when `r_dirty` is set, and then
  the slab is in `numa_list` or about to be entered.
- `FlushDrains`: once posted, the flusher empties the list, whatever is entered
  meanwhile.
- `BlocksApart`, `BlockSpec`: through any number of morphs no two blocks overlap,
  none reaches into header or table, and to the clients the layer is a `PageHeap`,
  until `stale`.
- `OldCounted`: `num_b` and the counts per new block are exact, so the new block
  under several old ones becomes free with the last of them, until `stale`.
- `BlocksRecorded`: a crash between any two persists of a morph, a free or an
  allocation leaves a record of every block a client holds, until `stale`.
- `BitmapsSound`: the asserts on indices, bitmaps and the table do not fail before
  `stale` (they can afterwards): what remote frees, fills and morphs do to the bits
  adds up as long as nobody takes one layout for another.
- `OnlyMorphDeadlocks`: there *are* circles of waiting threads
  (`slab.c:98` against `slab.c:473`, `slab.c:249` against the holder of the other
  bin); every one of them contains a thread in the search for a slab to morph.
- `NeverMarks`: the entries `slab_morphing` would mark `is_sb` never exist, so
  the loop at `pmalloc.c:185` that skips marked entries has nothing to skip, and
  reads one slot too far: the blocks that costs are in `lost`. Until `stale`, too.

In `SlabShared` there is one class, hence no morph and no old block, and `stale` stays
`FALSE`: what it checks is unconditional there.

*Bounds.* Two units to a block of the larger class are the least with a new block
over two old ones and an old one over two new ones. `LowPercent` 50 in place of 20 lets a
slab of two or four blocks be worth morphing with a block in use. `Cap` is 2, `NBanks` 1, and
`LogMax` 1 or 2 instead of thousands, so that a bank and a NUMA log are full after
a few calls. `MaxMoves` bounds the changes of CPU, `MaxDrift` how far lost updates
of `morphing_len` may go. `timestamp` is not kept: the walk over the LRU list may
end anywhere. One slab suffices for morphing, because a morph concerns one slab;
in `SlabShared` there are two, so that bins and `numa_list` have an order.

*Deadlock.* `CHECK_DEADLOCK FALSE`: the circles above are in the code, and asserts
end the program.

*Fairness.* Weak for the steps of a thread inside a call. Strong for the flusher:
a mutex that is free again and again is granted at some time, which is what the
queueing of a futex gives; with weak fairness a busy owner could keep it out for
ever. Nobody has to call.

### 6.3 Finding

`slab.c:610` (`SlabLruNode`): the thread that frees the last block of the old
layout sets `num_b` to 0 under `slab_lock`, releases it, and then puts the slab
into the LRU list under `LRU_lock`. A fill of another thread in between finds
`num_b == 0` and no `LRU_dlnode`, and the assert at `slab.c:476` fails.

### 6.4 Left out

The extent and the bookkeeping item under a slab; that a cache entry taken before
a morph writes into a `dmeta` that the morph has freed; that a morph leaves `rbitmap`
at the length of the old layout; the set of arenas a NUMA
log buffer was written for (there is one arena in the model) and what its entries
say; `vslab->eslab`. The unlocked reads of one free (`slab.c:523-543`, `705-723`) are
one step, so a free that reads `sc` of one layout and `num_b` of the next is not in the
model; it would be `stale` at once. A written field is taken to be
persistent when the code persists it or the cache line it shares; `slab->sc`,
which the code stores and never flushes after a morph (`slab.c:247`), counts as
persistent with `is_mixed`.

### 6.5 Proofs: `Slabs_proofs`, `SlabsBlocks_proofs`, `SlabsImages_proofs`

Everything the runs check of `Slabs`, except the liveness property, is proved for
any threads, size classes, slabs, banks, capacities, thresholds and bounds that
satisfy `SlabsAssumption` (sizes are positive and differ from class to class, a
slab has room for a header and one block of each class, the header of a mixed slab
is not the smaller one, a bank holds more than one entry). Each is, by its statement
or by that of the property, conditional on `~stale` (6.1): it speaks of every run up
to the first step that works with an outdated layout, and of nothing behind it.

| theorem | states |
|---|---|
| `Inductive` | `[]IndInv`, where `IndInv` begins with `~stale =>` |
| `Imaged` | `[](IndInv /\ RunImages)`, likewise |
| `Typed` | `[](~stale => TypeOK)` |
| `LockOrdered` | `[](~stale => OnlyMorphDeadlocks)` |
| `Accounting` | `[]Accounted` |
| `OldCounting` | `[]OldCounted` |
| `Disjoint` | `[]BlocksApart` |
| `DirtyFound` | `[]DirtyListed` |
| `Recorded` | `[]BlocksRecorded` |
| `Unmarked` | `[]NeverMarks` |
| `SoundBitmaps` | `[]BitmapsSound` |
| `BlockRefinement` | `BlockSpec`: the blocks clients hold are a `PageHeap` |

*The locks* (`Slabs_proofs`). `Locks` says at which `pc` a thread has which lock, and
which slab it has in hand. `OnlyMorphDeadlocks` speaks of circles of any length:
`LockOrder` takes
a circle without a thread in the search for a slab to morph and goes down the order: who has
`LRU_lock` waits for nothing, so nobody in the circle waits for `LRU_lock`, so
nobody in it has a slab's lock, so the flusher is not in it, and who is left waits for
a bin whose holder would have to be waiting for one of the locks already excluded.
That is an argument about locks, and needs no induction over the circle.

*The blocks* (`SlabsBlocks_proofs`). `Accounted` and `OldCounted` are silent about
a slab somebody has locked, so no step can be taken from them. `IndInv` is, while
`stale` is `FALSE`, `Locks`, `Outer` and `Shapes` (the types, which also the step that
stops the program keeps) and, while the program runs, `Good`:

- `Slabwise`, `Morphing`: a slab and the set of the blocks that are out of it are
  always in one of two relations. `Exact` holds outside a morphing, whether or not the
  slab is locked: each block is one of the layout or an old one behind the header,
  `used` is what they cover, `nbits`, `numb` and `dnum` count it. `Moving` holds
  between the persists of a morphing, when the blocks are still all of the layout
  before, as `my[t].old` lists them.
- `Once`: a block is in one place: held, lost, in one slot of one bank, in one
  thread's hands, or waiting for the flusher. Without it a free could not be
  told from a second one, and the counts could not go down by one.
- `Hands`: what a thread in the middle of a free remembers. The index it computed
  before the lock counts only if the layout is still the one it read; where it is
  not, the next step is `Outdated`.
- `Aged`, `Alive`, `Bins`, `Unbinned`, `Filling`: what is in the LRU list may be
  morphed, nobody works on a slab that is gone, a slab no bin will hold is empty,
  and a fill that succeeded left something to take.
- `Remote`: `DirtyListed`, with `numaList` without repetition.

The effect of every action on a slab is one of a few: a block goes out
(`Pop`), comes back (`FreeNew`, `FreeOld`, `Flush`), or the layout changes (`Unbin`,
`Metas`). For each there is a lemma about `Exact` or `Moving` alone; where the
block went is a lemma about `Whereabouts`; one lemma per action joins the
two.

*What is persistent* (`SlabsImages_proofs`). `RunImages` adds what the slab's own pages say, for each of the
steps of a morphing: outside it (`Settled`), the meta bits tell the held blocks of the
layout and the table the old ones; during it (`Shifting`), the meta bits of the
layout before do, until the table is written. An entry of a cache carries the index
whose bit `malloc` will set (`Known`). `BlocksRecorded` follows; it is not inductive
by itself, since `malloc` sets a bit without looking at the slab.

*The refinement.* In `IndInv` blocks are apart inside their slab, hence their addresses
are, hence an allocation takes a run that is free in `PageHeap`, and a free gives back
one that starts where the block starts (`RunTaken`, `RunGiven`). An entry taken from
a cache that was already held would be a stutter; `Once` rules it out, but the refinement does not
need that.

TLC checked `IndInv` and `RunImages` on the instances of `SlabShared` and `SlabMorph`.

*Only model-checked:* `FlushDrains` (liveness under fairness).

## 7. The radix tree: `Rtree`

### 7.1 State and actions

`root[lk]` is the child pointer of each leaf key, `elm[n][k]` the word of address
`k` in the `n`-th leaf (extent, class and slab bit in one machine word), `l1` and
`l2` the caches of every thread, `initLock` the tree's mutex. A lookup in a
thread's own caches is one step with the call; each load or store of shared
memory is a step of its own.

| code | actions |
|---|---|
| `rtree_leaf_elm_lookup` | `Call` (L1 hit; L2 hit with `Bubble`) |
| `rtree_leaf_elm_lookup_hard`, `rtree_child_leaf_tryread` | `Child` (with `Push`) |
| `rtree_leaf_init` | `LockInit`, `MakeLeaf` |
| `rtree_read`, `rtree_extent_read`, `rtree_szind_slab_read`, ... | `Look` |
| `rtree_write`, `rtree_clear`, `extent_rtree_write_acquired` | `Write` |
| `rtree_szind_slab_update` | `UpdateSlab`, `UpdateClass` |

Which calls may meet is the extent layer's doing (`May`): who stores to a page
has the extent to itself, a dependent read is made by the owner of the allocation,
and `extent_lock_from_addr` may look at any page at any time. `Write` of an extent
always makes the leaf it misses, as `extent.c:836` does; the look-ups at `extent.c:162`
and `1037` (dependent), `751` and `815` (neither) find leaves that are there.

### 7.2 What is checked

Run `Rtree`: two threads, five addresses in four leaves, an L1 of one slot and an
L2 of two entries. Two addresses share a leaf, so both threads can miss it at once;
the four leaf keys overflow the three cache entries.

- `CachesAgree`, `CachedOnce`, `OnlyLastEvicted`: the caches, never invalidated,
  say what the tree says; a leaf is cached in one place; a hit evicts nothing.
- `LeavesKept`, `AssertsHold`: no leaf is made twice, no assert fails.
- `MapSpec`: all threads together see one map (`PageMap`), in which a two-step
  update passes through one intermediate word.
- `CallsReturn`: under weak fairness of threads inside a call, every call returns.
  (`init_lock` is held for one step, and each thread wants it at most once in a
  call, so a waiting thread gets it.)

Deadlock is checked: somebody can always move. Loads and stores are
sequentially consistent in the model; the code uses acquire and release where a
read does not depend on an earlier one, and that is not checked here.

## 8. Proofs about the radix tree: `Rtree_proofs`

For any threads, addresses, leaf keys, cache sizes and callers that satisfy
`RtreeAssumption`:

| theorem | states |
|---|---|
| `Types` | `[]TypeOK` |
| `Asserts` | `[]AssertsHold` |
| `Coherence` | `[]CachesAgree` |
| `Uniqueness` | `[]CachedOnce` |
| `Leaves` | `[]LeavesKept` |
| `Eviction` | `OnlyLastEvicted` |
| `Refinement` | `MapSpec` |

*The argument.* `CachedOnce` is not inductive: that a leaf found in the tree may be
put into L1 needs that the thread has it nowhere in its caches, which was seen some
steps ago (`Missed`), and that two L1 slots never name one leaf needs that a key
has one slot (`Placed`). `AssertsHold` needs what each call relies on
(`Relied`: the element of a `rtree_write` is unset, that of a dependent read set)
and that no other thread stores to the page meanwhile (`Alone`, from `May`). The
refinement needs in addition that a thread about to act has the leaf the tree
has (`Acting`), which with `TreeOK` (one root element per leaf) makes its store a
store to the map. `IndInv` is the conjunction; one lemma per action shows it
kept and says what the step is in `PageMap` (`Steps` puts them together).

*Only model-checked:* `CallsReturn`.

## 9. Not modelled

- *The two entry files of a NUMA log, the minilog.* They are written and
  never read: `numa_log_recovery` is empty, and no code reads the minilog's ring. So
  nothing in the source says when an entry may be overwritten, and a model of them
  would have no property. That `numa_log_flush` does not wait for the flushers it
  wakes (`numa_log.c:100`) is listed as a hazard.
- *The decay clock* (`arena.c:635`): it decides when a decay starts and with which
  limit; `Extents` leaves both free.
- *Size class tables*: two constant tables and look-ups in them; their layout
  arithmetic for slabs is in `Slabs`.
- *Start and end of the program* (`pmalloc_init`, `pmalloc_close`, thread exit).
- *Composition of the layers.* `Slabs` gets its slabs from nowhere, and `BookLog`'s
  extents have no pages; the interface between them is `PageHeap`, which `Extents`
  implements.
- Lists, heaps, red-black trees, the pseudo-random generator, `nstime`, and the
  wrappers over pthread come from jemalloc and hold no state of the allocator.

In PROJECT.json the hazards in those parts carry a note and no property.
