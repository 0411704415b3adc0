------------------------------- MODULE BookLog -------------------------------
(***************************************************************************)
(* The bookkeeping log of one arena (log.c): a chain of chunks in a        *)
(* persistent file, to which a NORMAL item is appended for every extent    *)
(* handed out (a FILE item for a mapped chunk file, which is never freed)  *)
(* and a FREE item, or tombstone, for every one given back.  The volatile  *)
(* side keeps a bitmap of the items that count for every chunk.  fast_GC   *)
(* unlinks chunks whose bitmap is empty; slow_GC copies what counts into a *)
(* second log of the same file and flips the file's alt byte.  Frees from  *)
(* another NUMA node go through the arena's shadow tombs (add_tomb) and    *)
(* reach the log when the extent flusher runs (flush_tomb).                *)
(*                                                                         *)
(* log_lock is held by one process at a time; within it every write that   *)
(* is made persistent on its own is an action of its own, so a state of    *)
(* this module is also what a crash may leave in persistent memory.  An    *)
(* extent is named by the address its item carries.  Chunk 0 of the file   *)
(* is its head (alt, roots).                                               *)
(***************************************************************************)
EXTENDS Integers, Sequences, FiniteSets

CONSTANTS
  Threads,      \* client threads
  Addrs,        \* extents and mapped files, by address
  Files,        \* those that are mapped files
  FileChunks,   \* LOG_FILE_SIZE / LCHUNK_SIZE
  NItems,       \* N_ITEMS_PER_LCHUNK (126)
  Banks,        \* NBANKS (6)
  PerLine,      \* CACHE_LINE_SIZE / sizeof(ITEM_SIZE) (8)
  GCPeriod,     \* the 10000 that gc_timer is compared with
  FastRatio,    \* the 2 of add_log
  SlowRatio,    \* the 10 of add_log and slow_GC
  VersionMod,   \* 2^14: size_version_id has 14 bits
  SizeMod,      \* 2^64: num_of_items is a uint64_t
  MaxTaken,     \* bound: chunks allocated, every reuse counted
  MaxTombs,     \* bound: tombs waiting for the flusher
  MaxFast,      \* bound: fast GCs
  MaxSlow       \* bound: slow GCs

ASSUME BookLogAssumption ==
  /\ Threads \cap {"none", "flusher", "gc"} = {}
  /\ Files \subseteq Addrs /\ Files # {}
  /\ FileChunks \in Nat /\ FileChunks > 3
  /\ {NItems, Banks, PerLine, GCPeriod, VersionMod, SizeMod} \subseteq Nat \ {0}
  /\ SizeMod > 1
  /\ {FastRatio, SlowRatio, MaxTaken, MaxTombs, MaxFast, MaxSlow} \subseteq Nat

Nil    == 0
NoRef  == <<Nil, 0>>
Chunks == 1 .. FileChunks - 1
Slots  == 0 .. NItems - 1

(* An item of a chunk; a zeroed one is no record.                           *)
Blank      == [type |-> "none"]
Normal(a)  == [type |-> "normal", addr |-> a]
Tomb(r, v) == [type |-> "free", ref |-> r, ver |-> v]

VARIABLES
  used,       \* log_file_used / LCHUNK_SIZE
  taken,      \* chunks allocated so far (only for the bound MaxTaken)
  freeList,   \* global_free_list
  nxt,        \* lchunk->next
  id,         \* lchunk->id (and the copy in vlchunk->id)
  item,       \* lchunk->items
  root,       \* log_file_head->log[].root_lchunk
  alt,        \* log_file_head->alt
  cnt,        \* vlchunk->count
  bits,       \* vlchunk->bitmap, as a set of indices
  pre,        \* vlchunk->pre_lchunk
  vlog,       \* arena->log
  new,        \* new_vlog of slow_GC
  extLog,     \* extent->log or file->log; NoRef when there is no extent_t
  held,       \* extents handed out, with their item in the log
  freeing,    \* log_ptr of a thread in arena_dalloc, NoRef outside it
  moved,      \* threads whose log_ptr names the log before the last slow GC
  tombs,      \* arena->shadow_tomb
  posts,      \* GC_sem
  fasts,      \* fast GCs so far (only for the bound MaxFast)
  astray,     \* fast_GC has followed a pre_lchunk out of date (only for properties)
  slows,      \* slow GCs so far (only for the bound MaxSlow)
  gc,         \* where the thread that runs slow_GC is
  lock,       \* who holds log_lock
  at,         \* where its holder is
  job,        \* the item its holder appends
  cursor,     \* cursor_lchunk of slow_GC
  marks,      \* set bits of its bitmap still to be looked at
  failed      \* "no", or what stopped the program

spaceVars == <<used, taken, freeList>>
headVars  == <<root, alt>>
chunkVars == <<nxt, id, item, cnt, bits, pre>>
fileVars  == <<spaceVars, headVars, chunkVars>>
userVars  == <<extLog, held, freeing, moved>>
fastVars  == <<fasts, astray>>
walkVars  == <<new, cursor, marks>>
gcVars    == <<posts, slows, gc, walkVars>>
procVars  == <<lock, at, job>>
vars      == <<fileVars, vlog, userVars, gcVars, tombs, fastVars, procVars, failed>>

-----------------------------------------------------------------------------
(* count_to_index: neighbours in time go to different cache lines.          *)
IndexInLine(k) == (k \div (PerLine * Banks)) * (PerLine * Banks) + (k % (PerLine * Banks)) \div Banks
Index(k) ==
  LET nn == PerLine * Banks
  IN  (k \div nn) * nn + (k % Banks) * PerLine + (k % nn) \div Banks

Full(c) == Index(cnt[c]) >= NItems

(* num_of_chunks * N_ITEMS_PER_LCHUNK / num_of_items, against a ratio.      *)
Ratio(r) == (vlog.chunks * NItems) \div vlog.items >= r

(* Chunks by descending address, the order of vlchunk_cmp.                  *)
Descending(S) ==
  [k \in 1 .. Cardinality(S) |->
     CHOOSE c \in S : Cardinality({d \in S : d > c}) = k - 1]

NoLog == [side |-> 0, tree |-> {}, tail |-> Nil, nextId |-> 0, chunks |-> 0,
          items |-> 0, timer |-> 0]

(* arena_new: log_create (chunk 1 is the root of the first log, chunk 2 the  *)
(* one behind it), and the arena's first chunk file f is mapped and logged.  *)
InitFile(f) ==
  /\ item = [c \in Chunks |-> [i \in Slots |->
               IF c = 2 /\ i = Index(0) THEN Normal(f) ELSE Blank]]
  /\ bits = [c \in Chunks |-> IF c = 2 THEN {Index(0)} ELSE {}]
  /\ extLog = [a \in Addrs |-> IF a = f THEN <<2, Index(0)>> ELSE NoRef]
  /\ held = {f}

Init ==
  /\ used = 3
  /\ taken = 2
  /\ freeList = <<>>
  /\ nxt = [c \in Chunks |-> IF c = 1 THEN 2 ELSE Nil]
  /\ id = [c \in Chunks |-> IF c \in {1, 2} THEN c ELSE 0]
  /\ root = [s \in {0, 1} |-> IF s = 0 THEN 1 ELSE Nil]
  /\ alt = 0
  /\ cnt = [c \in Chunks |-> IF c = 2 THEN 1 ELSE 0]
  /\ pre = [c \in Chunks |-> IF c = 2 THEN 1 ELSE Nil]
  /\ vlog = [side |-> 0, tree |-> {2}, tail |-> 2, nextId |-> 3, chunks |-> 2,
             items |-> 1, timer |-> 0]
  /\ new = NoLog
  /\ \E f \in Files : InitFile(f)
  /\ freeing = [t \in Threads |-> NoRef]
  /\ moved = {}
  /\ tombs = <<>>
  /\ posts = 0
  /\ fasts = 0
  /\ astray = FALSE
  /\ slows = 0
  /\ gc = "wait"
  /\ lock = "none"
  /\ at = "out"
  /\ job = Blank
  /\ cursor = Nil
  /\ marks = {}
  /\ failed = "no"

-----------------------------------------------------------------------------
(* vlchunk_alloc: a chunk from global_free_list, else the next of the file. *)
(* A full file ends the program.                                            *)
NewChunk == IF freeList = <<>> THEN used ELSE Head(freeList)

TakeChunk(c, v) ==
  /\ taken < MaxTaken /\ taken' = taken + 1               \* bound
  /\ IF freeList = <<>>
       THEN used + 1 < FileChunks /\ used' = used + 1 /\ UNCHANGED freeList
       ELSE freeList' = Tail(freeList) /\ UNCHANGED used
  /\ id' = [id EXCEPT ![c] = v.nextId]
  /\ item' = [item EXCEPT ![c] = [i \in Slots |-> Blank]]
  /\ cnt' = [cnt EXCEPT ![c] = 0]
  /\ bits' = [bits EXCEPT ![c] = {}]

(* A fresh chunk behind the tail of log v, which then is Extended(v).       *)
Extend(v) ==
  LET c == NewChunk
  IN  /\ TakeChunk(c, v)
      /\ nxt' = [nxt EXCEPT ![c] = Nil, ![v.tail] = c]
      /\ pre' = [pre EXCEPT ![c] = v.tail]
SameId(v) == v.nextId
NextId(v) == v.nextId + 1
Extended(v) ==
  [v EXCEPT !.tree = @ \cup {NewChunk}, !.tail = NewChunk,
            !.nextId = NextId(v), !.chunks = @ + 1]

(* Item x goes into the next slot of chunk c, and its bit is set.           *)
Place(c) == <<c, Index(cnt[c])>>
Append1(c, x) ==
  /\ item' = [item EXCEPT ![c] = [@ EXCEPT ![Index(cnt[c])] = x]]
  /\ cnt' = [cnt EXCEPT ![c] = @ + 1]
  /\ UNCHANGED <<spaceVars, nxt, id, headVars, pre>>

(* The bitmaps once the item of r has lost its bit.                         *)
Cleared(r) == [bits EXCEPT ![r[1]] = @ \ {r[2]}]
SetBit(f, r) == [f EXCEPT ![r[1]] = @ \cup {r[2]}]

Version(c) == id[c] % VersionMod

Stop(why) ==
  /\ failed' = why
  /\ UNCHANGED <<fileVars, vlog, userVars, gcVars, tombs, fastVars, procVars>>

Goto(p) == at' = p
Leave == lock' = "none" /\ at' = "out" /\ job' = Blank

-----------------------------------------------------------------------------
(* arena_large_alloc, arena_slab_alloc, file_create: extent a, which nobody *)
(* holds, is logged.  Its extent_t may have been handed out before the last *)
(* owner logged its release.                                                *)
AllocBegin(t, a) ==
  /\ lock = "none"
  /\ freeing[t] = NoRef
  /\ a \notin held
  /\ lock' = t /\ at' = "item" /\ job' = Normal(a)
  /\ UNCHANGED <<fileVars, vlog, userVars, gcVars, tombs, fastVars>>

(* arena_dalloc reads extent->log and gives the extent to the dirty pool    *)
(* before it takes log_lock; there the extent may be merged away.           *)
FreeBegin(t, a) ==
  /\ lock # t
  /\ freeing[t] = NoRef
  /\ a \in held \ Files
  /\ held' = held \ {a}
  /\ freeing' = [freeing EXCEPT ![t] = extLog[a]]
  /\ extLog' \in {extLog, [extLog EXCEPT ![a] = NoRef]}
  /\ UNCHANGED <<fileVars, vlog, gcVars, moved, tombs, fastVars, procVars>>

(* The same NUMA node: add_log of a FREE item.                              *)
LogPtrLate(t) ==
  LET x == item[freeing[t][1]][freeing[t][2]]
  IN  IF x.type = "normal" THEN extLog[x.addr] ELSE freeing[t]
LogPtr(t) == freeing[t]

FreeLocal(t) ==
  /\ lock = "none"
  /\ freeing[t] # NoRef
  /\ lock' = t /\ at' = "item" /\ job' = Tomb(LogPtr(t), 0)
  /\ UNCHANGED <<fileVars, vlog, userVars, gcVars, tombs, fastVars>>

(* What a FREE of the item at r meets: the chunk is not of this log, or it  *)
(* is by chance, the item having moved.                                     *)
Misses(t, r) ==
  CASE r[1] \notin vlog.tree -> "no chunk"
    [] t \in moved           -> "moved"
    [] OTHER                 -> "no"

FreeRemoteFails(t) ==
  /\ lock = "none"
  /\ freeing[t] # NoRef
  /\ Misses(t, freeing[t]) # "no"
  /\ Stop(Misses(t, freeing[t]))

(* Another node: add_tomb.                                                  *)
FreeRemote(t) ==
  /\ lock = "none"
  /\ freeing[t] # NoRef
  /\ Misses(t, freeing[t]) = "no"
  /\ Len(tombs) < MaxTombs                                \* bound
  /\ bits' = Cleared(freeing[t])
  /\ tombs' = Append(tombs, Tomb(freeing[t], Version(freeing[t][1])))
  /\ freeing' = [freeing EXCEPT ![t] = NoRef]
  /\ UNCHANGED <<spaceVars, nxt, id, item, headVars, cnt, pre, vlog, gcVars, extLog, held,
                 moved, fastVars, procVars>>

(* numa_log_extent_flusher: flush_tomb for every shadow tomb.               *)
FlushBegin ==
  /\ lock = "none"
  /\ tombs # <<>>
  /\ lock' = "flusher" /\ at' = "item" /\ job' = Head(tombs)
  /\ tombs' = Tail(tombs)
  /\ UNCHANGED <<fileVars, vlog, userVars, gcVars, fastVars>>

(* After an item the flusher takes the next tomb, a client leaves.          *)
Finish ==
  IF lock = "flusher" /\ tombs # <<>>
    THEN /\ at' = "item" /\ job' = Head(tombs) /\ tombs' = Tail(tombs)
         /\ UNCHANGED lock
    ELSE Leave /\ UNCHANGED tombs

-----------------------------------------------------------------------------
(* add_log and flush_tomb: a full tail chunk is followed by a new one, ...  *)
Grow ==
  /\ at = "item"
  /\ Full(vlog.tail)
  /\ Extend(vlog)
  /\ vlog' = Extended(vlog)
  /\ UNCHANGED <<headVars, userVars, gcVars, tombs, fastVars, procVars>>

(* ... then a NORMAL item is written, and the extent points at it;          *)
WriteNormal ==
  /\ at = "item"
  /\ ~Full(vlog.tail)
  /\ job.type = "normal"
  /\ Append1(vlog.tail, job)
  /\ bits' = SetBit(bits, Place(vlog.tail))
  /\ vlog' = [vlog EXCEPT !.items = (@ + 1) % SizeMod]
  /\ extLog' = [extLog EXCEPT ![job.addr] = Place(vlog.tail)]
  /\ held' = held \cup {job.addr}
  /\ Leave
  /\ UNCHANGED <<freeing, moved, gcVars, tombs, fastVars>>

(* or a FREE item, and the bit of the item it ends is cleared;              *)
WriteFree ==
  /\ at = "item"
  /\ ~Full(vlog.tail)
  /\ lock \in Threads
  /\ job.type = "free"
  /\ Misses(lock, job.ref) = "no"
  /\ Append1(vlog.tail, Tomb(job.ref, Version(job.ref[1])))
  /\ bits' = SetBit(Cleared(job.ref), Place(vlog.tail))
  /\ freeing' = [freeing EXCEPT ![lock] = NoRef]
  /\ Goto("tick")
  /\ UNCHANGED <<vlog, extLog, held, moved, gcVars, tombs, fastVars, lock, job>>

WriteFreeFails ==
  /\ at = "item"
  /\ ~Full(vlog.tail)
  /\ lock \in Threads
  /\ job.type = "free"
  /\ Misses(lock, job.ref) # "no"
  /\ Stop(Misses(lock, job.ref))

(* or a tomb that was made before.                                          *)
WriteTomb ==
  /\ at = "item"
  /\ ~Full(vlog.tail)
  /\ lock = "flusher"
  /\ Append1(vlog.tail, job)
  /\ bits' = SetBit(bits, Place(vlog.tail))
  /\ Goto("tick")
  /\ UNCHANGED <<vlog, userVars, gcVars, tombs, fastVars, lock, job>>

(* Every GCPeriod-th FREE item looks at the share of the log in use.  The   *)
(* timer of a log made by slow_GC starts with what malloc returned.         *)
NextTimer == IF vlog.timer >= GCPeriod THEN GCPeriod + 1 ELSE vlog.timer + 1

Due == at = "tick" /\ NextTimer = GCPeriod

Tick ==
  /\ at = "tick"
  /\ Finish
  /\ \/ /\ NextTimer # GCPeriod
        /\ vlog' = [vlog EXCEPT !.timer = NextTimer]
        /\ UNCHANGED posts
     \/ /\ Due
        /\ vlog.items # 0
        /\ vlog' = [vlog EXCEPT !.timer = 0]
        /\ \/ Ratio(SlowRatio) /\ posts' = 1       \* bound: posts are not counted
           \/ ~Ratio(SlowRatio) /\ ~Ratio(FastRatio) /\ UNCHANGED posts
  /\ UNCHANGED <<fileVars, userVars, slows, gc, walkVars, fastVars>>

TickDivides ==
  /\ Due
  /\ vlog.items = 0
  /\ Stop("division by zero")

TickLoose ==
  /\ Due
  /\ vlog.items # 0
  /\ ~Ratio(SlowRatio)
  /\ Ratio(FastRatio)
  /\ fasts < MaxFast                                      \* bound
  /\ fasts' = fasts + 1
  /\ vlog' = [vlog EXCEPT !.timer = 0]
  /\ Goto("retire")
  /\ UNCHANGED <<fileVars, userVars, gcVars, tombs, astray, lock, job>>

-----------------------------------------------------------------------------
(* fast_GC: chunks without a set bit, from the highest address down.  Such a *)
(* chunk is marked free in the file (id 0), ...                             *)
Empty   == {c \in vlog.tree : bits[c] = {}}
Retired == {c \in Empty : id[c] = 0}
Highest(S) == CHOOSE c \in S : \A d \in S : d <= c
Lowest(S)  == CHOOSE c \in S : \A d \in S : c <= d

Retire ==
  /\ at = "retire"
  /\ Empty # Retired
  /\ id' = [id EXCEPT ![Highest(Empty \ Retired)] = 0]
  /\ Goto("unlink")
  /\ UNCHANGED <<spaceVars, nxt, item, headVars, cnt, bits, pre, vlog, userVars, gcVars, tombs,
                 fastVars, lock, job>>

(* The chunks of the log: its root, and those of its tree.                  *)
InUse == vlog.tree \cup {root[vlog.side]}

(* ... and its predecessor in the chain is led past it;                     *)
NotRelinked(c) == nxt
Relinked(c) == IF pre[c] = Nil THEN nxt ELSE [nxt EXCEPT ![pre[c]] = nxt[c]]

(* pre_lchunk is kept only when a chunk is made: it is right as long as it  *)
(* names the chunk of the log from which the chain leads to c.              *)
Preceded(c) == pre[c] \in InUse \ Retired /\ nxt[pre[c]] = c

Unlink ==
  /\ at = "unlink"
  /\ nxt' = Relinked(Lowest(Retired))
  /\ astray' = (astray \/ ~Preceded(Lowest(Retired)))
  /\ Goto("retire")
  /\ UNCHANGED <<spaceVars, id, item, headVars, cnt, bits, pre, vlog, userVars, gcVars, tombs,
                 fasts, lock, job>>

(* at the end all of them go to global_free_list.                           *)
FewerUnbounded(n) == vlog.items - n
Fewer(n) == (vlog.items - n) % SizeMod

FastDone ==
  /\ at = "retire"
  /\ Empty = Retired
  /\ freeList' = freeList \o Descending(Empty)
  /\ vlog' = [vlog EXCEPT !.tree = @ \ Empty,
                          !.chunks = @ - Cardinality(Empty),
                          !.items = Fewer(NItems * Cardinality(Empty))]
  /\ Finish
  /\ UNCHANGED <<used, taken, chunkVars, headVars, userVars, gcVars, fastVars>>

-----------------------------------------------------------------------------
(* slow_GC, woken by GC_sem, first looks at the counters without the lock:  *)
(* while another process holds it they may be in any state of the change.   *)
GcWake ==
  /\ gc = "wait"
  /\ posts > 0
  /\ vlog.items # 0
  /\ posts' = 0
  /\ \/ gc' = "wait" /\ (lock # "none" \/ ~Ratio(SlowRatio))
     \/ gc' = "lock" /\ (lock # "none" \/ Ratio(SlowRatio))
  /\ UNCHANGED <<fileVars, vlog, userVars, slows, walkVars, tombs, fastVars, procVars>>

GcDivides ==
  /\ vlog.items = 0
  /\ \/ gc = "wait" /\ posts > 0
     \/ gc = "lock" /\ lock = "none"
  /\ Stop("division by zero")

GcDrop ==
  /\ gc = "lock"
  /\ lock = "none"
  /\ vlog.items # 0
  /\ ~Ratio(SlowRatio)
  /\ gc' = "wait"
  /\ UNCHANGED <<fileVars, vlog, userVars, posts, slows, walkVars, tombs, fastVars, procVars>>

(* log_create_for_GC: root and first chunk of a log under the other alt;    *)
(* gc_timer is not initialised.                                             *)
UnbornInPlace == [NoLog EXCEPT !.side = alt]
Unborn == [NoLog EXCEPT !.side = 1 - alt]

GcRoot ==
  /\ gc = "lock"
  /\ lock = "none"
  /\ vlog.items # 0
  /\ Ratio(SlowRatio)
  /\ slows < MaxSlow /\ slows' = slows + 1               \* bound
  /\ TakeChunk(NewChunk, Unborn)
  /\ nxt' = [nxt EXCEPT ![NewChunk] = Nil]
  /\ pre' = [pre EXCEPT ![NewChunk] = Nil]
  /\ \E k \in 0 .. GCPeriod :
       new' = [Unborn EXCEPT !.tail = NewChunk, !.nextId = 1, !.chunks = 1, !.timer = k]
  /\ lock' = "gc"
  /\ Goto("first")
  /\ UNCHANGED <<headVars, vlog, userVars, posts, gc, cursor, marks, tombs, fastVars, job>>

GcFirst ==
  /\ at = "first"
  /\ Extend(new)
  /\ new' = Extended(new)
  /\ root' = [root EXCEPT ![new.side] = new.tail]
  /\ cursor' = nxt[root[alt]]
  /\ Goto("visit")
  /\ UNCHANGED <<alt, vlog, userVars, posts, slows, gc, marks, tombs, fastVars, lock, job>>

(* The walk along the chain: every chunk must be in the tree ...            *)
CountingFirst(c) ==
  LET all == {i \in bits[c] : item[c][i].type = "normal"}
  IN  IF all = {} THEN {} ELSE {Lowest(all)}
Counting(c) == {i \in bits[c] : item[c][i].type = "normal"}

GcVisit ==
  /\ at = "visit"
  /\ cursor \in vlog.tree
  /\ marks' = Counting(cursor)
  /\ Goto("copy")
  /\ UNCHANGED <<fileVars, vlog, new, userVars, posts, slows, gc, cursor, tombs, fastVars, lock,
                 job>>

GcVisitFails ==
  /\ at = "visit"
  /\ cursor # Nil
  /\ cursor \notin vlog.tree
  /\ Stop("chain")

(* ... and the extent of every item that counts must point at the item.     *)
Marked == <<cursor, Lowest(marks)>>
Owner  == item[cursor][Lowest(marks)].addr

GcCopyFails ==
  /\ at = "copy"
  /\ marks # {}
  /\ extLog[Owner] # Marked
  /\ Stop(IF extLog[Owner] = NoRef THEN "no extent" ELSE "extent log")

GcGrow ==
  /\ at = "copy"
  /\ marks # {}
  /\ extLog[Owner] = Marked
  /\ Full(new.tail)
  /\ Extend(new)
  /\ new' = Extended(new)
  /\ UNCHANGED <<headVars, vlog, userVars, posts, slows, gc, cursor, marks, tombs, fastVars,
                 procVars>>

NotRedirected(a) == extLog
Redirected(a) == [extLog EXCEPT ![a] = Place(new.tail)]

GcCopy ==
  /\ at = "copy"
  /\ marks # {}
  /\ extLog[Owner] = Marked
  /\ ~Full(new.tail)
  /\ Append1(new.tail, Normal(Owner))
  /\ bits' = SetBit(bits, Place(new.tail))
  /\ new' = [new EXCEPT !.items = (@ + 1) % SizeMod]
  /\ extLog' = Redirected(Owner)
  /\ marks' = marks \ {Lowest(marks)}
  /\ UNCHANGED <<vlog, held, freeing, moved, posts, slows, gc, cursor, tombs, fastVars, procVars>>

GcAdvance ==
  /\ at = "copy"
  /\ marks = {}
  /\ cursor' = nxt[cursor]
  /\ Goto("visit")
  /\ UNCHANGED <<fileVars, vlog, new, userVars, posts, slows, gc, marks, tombs, fastVars, lock,
                 job>>

(* The new log is complete: alt is flipped, ...                             *)
GcFlip ==
  /\ at = "visit"
  /\ cursor = Nil
  /\ alt' = new.side
  /\ Goto("swap")
  /\ UNCHANGED <<spaceVars, chunkVars, root, vlog, userVars, gcVars, tombs, fastVars, lock, job>>

(* ... then the shadow tombs are dropped, the arena gets the new log, and   *)
(* the chunks of the old one are free (log_destroy).                        *)
DestroyedButRoot == Descending(vlog.tree)
Destroyed == Descending(vlog.tree) \o <<root[vlog.side]>>

GcSwap ==
  /\ at = "swap"
  /\ tombs' = <<>>
  /\ freeList' = freeList \o Destroyed
  /\ moved' = moved \cup {t \in Threads : freeing[t] # NoRef /\ freeing[t][1] \in vlog.tree}
  /\ vlog' = new
  /\ new' = NoLog
  /\ gc' = "wait"
  /\ Leave
  /\ UNCHANGED <<used, taken, chunkVars, headVars, extLog, held, freeing, posts, slows, cursor,
                 marks, fastVars>>

-----------------------------------------------------------------------------
ClientStep ==
  \E t \in Threads :
    \/ \E a \in Addrs : AllocBegin(t, a) \/ FreeBegin(t, a)
    \/ FreeLocal(t)
    \/ FreeRemote(t)
LogStep ==
  \/ FlushBegin \/ Grow \/ WriteNormal \/ WriteFree \/ WriteTomb
  \/ Tick \/ TickLoose \/ Retire \/ Unlink \/ FastDone
GcStep ==
  \/ GcWake \/ GcDrop \/ GcRoot \/ GcFirst \/ GcVisit \/ GcGrow \/ GcCopy
  \/ GcAdvance \/ GcFlip \/ GcSwap
Failure ==
  \/ \E t \in Threads : FreeRemoteFails(t)
  \/ WriteFreeFails \/ TickDivides \/ GcDivides \/ GcVisitFails \/ GcCopyFails

Next ==
  /\ failed = "no"
  /\ \/ (ClientStep \/ LogStep \/ GcStep) /\ UNCHANGED failed
     \/ Failure

Spec == Init /\ [][Next]_vars

-----------------------------------------------------------------------------
Refs == Chunks \X Slots
Items == {Blank} \cup [type : {"normal"}, addr : Addrs]
           \cup [type : {"free"}, ref : Refs, ver : 0 .. VersionMod - 1]
Logs == [side : {0, 1}, tree : SUBSET Chunks, tail : Chunks \cup {Nil}, nextId : Nat,
         chunks : Nat, items : 0 .. SizeMod - 1, timer : 0 .. GCPeriod + 1]

(* Every variable holds a value of its type. *)
TypeOK ==
  /\ used \in Chunks /\ taken \in Nat /\ freeList \in Seq(Chunks)
  /\ root \in [{0, 1} -> Chunks \cup {Nil}] /\ alt \in {0, 1}
  /\ nxt \in [Chunks -> Chunks \cup {Nil}] /\ pre \in [Chunks -> Chunks \cup {Nil}]
  /\ id \in [Chunks -> Nat] /\ cnt \in [Chunks -> Nat]
  /\ item \in [Chunks -> [Slots -> Items]] /\ bits \in [Chunks -> SUBSET Slots]
  /\ vlog \in Logs /\ new \in Logs
  /\ extLog \in [Addrs -> Refs \cup {NoRef}]
  /\ freeing \in [Threads -> Refs \cup {NoRef}]
  /\ held \subseteq Addrs /\ moved \subseteq Threads
  /\ tombs \in Seq(Items) /\ job \in Items
  /\ posts \in {0, 1} /\ fasts \in Nat /\ astray \in BOOLEAN /\ slows \in Nat
  /\ gc \in {"wait", "lock"}
  /\ lock \in Threads \cup {"none", "flusher", "gc"}
  /\ at \in {"out", "item", "tick", "retire", "unlink", "first", "visit", "copy", "swap"}
  /\ cursor \in Chunks \cup {Nil} /\ marks \in SUBSET Slots
  /\ failed \in {"no", "no chunk", "moved", "division by zero", "chain", "no extent",
                 "extent log"}

(* The log that persistent memory holds, as the file's head leads to it:    *)
(* the chunks up to the n-th behind the root, and those not marked free.    *)
Reached[n \in Nat] ==
  IF n = 0 THEN {root[alt]} ELSE UNION {{c, nxt[c]} \ {Nil} : c \in Reached[n - 1]}
Chain  == {nxt[c] : c \in Reached[FileChunks]} \ {Nil}
InFile == {c \in Chain : id[c] # 0}

(* What that memory, in the chunks F, says of an extent: its NORMAL items,  *)
(* except those that a tombstone of the same log ends.                      *)
Records(F) ==
  LET dead   == {item[d][j] : d \in F, j \in Slots}
  IN  [a \in Addrs |-> Cardinality({r \in F \X Slots :
         item[r[1]][r[2]] = Normal(a) /\ Tomb(r, Version(r[1])) \notin dead})]

(* The log in force. *)
Current == IF at = "swap" THEN new ELSE vlog

(* The chain in persistent memory and the volatile tree are the same log:   *)
(* they hold the same chunks at every persist, and the chain ends at the    *)
(* tail, where the next item goes; unless fast_GC has followed a            *)
(* pre_lchunk out of date.                                                  *)
ChainIsTree ==
  ~astray =>
    /\ InFile = {c \in Current.tree : id[c] # 0}
    /\ Current.tail \in InFile /\ nxt[Current.tail] = Nil

(* log.c:386: that every chunk of the chain is found in the tree fails only *)
(* after fast_GC has followed a pre_lchunk out of date.                     *)
StrayFirst == failed = "chain" => astray

(* Every chunk ever cut from the file is in exactly one place: the root of  *)
(* a log, its tree, or once in the free list; and num_of_chunks is right.   *)
NewInUse ==
  IF lock # "gc" THEN {}
  ELSE new.tree \cup {IF at = "first" THEN new.tail ELSE root[new.side]}
Free == {freeList[k] : k \in DOMAIN freeList}
ChunksAccounted ==
  /\ Cardinality(InUse) + Cardinality(NewInUse) + Len(freeList) = used - 1
  /\ InUse \cup NewInUse \cup Free = 1 .. used - 1
  /\ vlog.chunks = Cardinality(InUse)

(* The item an extent in a client's hands points at is its own record, in a *)
(* chunk of a log in use, and counts: the next collection will not lose it. *)
(* Once fast_GC has followed a pre_lchunk out of date the chain that        *)
(* slow_GC follows is broken (see ChainFound), and a record can be lost.    *)
HeldRecorded ==
  ~astray => \A a \in held :
    /\ extLog[a][1] \in vlog.tree \cup new.tree
    /\ item[extLog[a][1]][extLog[a][2]] = Normal(a)
    /\ extLog[a][2] \in bits[extLog[a][1]]

(* The file is only appended to: no item is ever written over another,      *)
(* though neighbours in time go to slots far apart; the chunk next to be    *)
(* taken starts blank.                                                      *)
AppendOnly ==
  [][\A c \in Chunks \ {NewChunk}, i \in Slots :
       item[c][i] # Blank => item'[c][i] = item[c][i]]_vars

(* No tombstone, written or still waiting for the flusher, names a record   *)
(* that counts, though chunks are freed and used again in between: its      *)
(* version tells the chunk's lives apart.  Those that wait while slow_GC    *)
(* has flipped alt and not yet dropped them speak of the old log, whose     *)
(* versions the new one may use again; and a chain that has been led        *)
(* astray may still reach such a chunk of a later log.                      *)
Tombstones(F) ==
  (IF at = "swap" THEN {} ELSE {tombs[k] : k \in DOMAIN tombs})
    \cup {item[d][j] : d \in F, j \in Slots}
    \cup (IF lock = "flusher" THEN {job} ELSE {})
TombsHarmless ==
  LET F == InFile
  IN  ~astray => \A x \in Tombstones(F) : x.type = "free" /\ x.ref[1] \in F =>
        ~ /\ x.ver = Version(x.ref[1])
          /\ x.ref[2] \in bits[x.ref[1]]
          /\ item[x.ref[1]][x.ref[2]].type = "normal"

(* What the log promises about persistent memory. *)
Lingering ==
  LET said == Records(InFile)
  IN  [a \in Addrs |-> said[a] - (IF a \in held THEN 1 ELSE 0)]
Durable == INSTANCE DurableRecords WITH lingering <- Lingering
DurableSpec == Durable!Spec

(* log.c:386: every chunk of the chain is found in the tree. *)
ChainFound == failed # "chain"

(* log.c:207 and log.c:485: the chunk of an item to be ended is found. *)
ChunkFound == failed # "no chunk"
=============================================================================
