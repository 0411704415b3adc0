-------------------------------- MODULE Slabs --------------------------------
(***************************************************************************)
(* The slab layer of one arena: blocks of a few sizes cut from slabs       *)
(* (slab.c), taken in batches into the caches of the arena's threads       *)
(* (tcache.c), handed to clients and freed again by any thread             *)
(* (pmalloc.c), with the two-phase release of blocks freed from another    *)
(* NUMA node (numa_log.c) and the morphing of a nearly empty slab to       *)
(* another size class.                                                     *)
(*                                                                         *)
(* Each lock is a variable that names its holder.  What runs between two   *)
(* lock operations is one action, except where the code reads shared       *)
(* fields before it takes the lock, where it takes another lock inside, or *)
(* where it makes something persistent that a later persist builds on.     *)
(* assert() is compiled in: a failing assert, or the use of a slab that    *)
(* was freed, ends the program (variable failed).                          *)
(***************************************************************************)
EXTENDS Integers, Sequences, FiniteSets, FiniteSetsExt

CONSTANTS
  Threads,     \* threads that use blocks of the arena
  InitHome,    \* where each thread starts, see Homes
  Classes,     \* size classes, indices of sizeclasses[]
  Size,        \* Size[c] = sizeclasses[c].bitsize, in units
  NSlabs,      \* vslab_t that may exist at once
  SlabSize,    \* SLAB_SIZE in units
  Header,      \* roffset of a slab of one class: slab_t and its meta bits
  MixHeader,   \* toffset of a mixed slab: slab_t and meta_size
  TableLine,   \* sb_table entries per cache line, whose size is one unit
  LowPercent,  \* MEMORY_MORPH_THRESHOLOD, 20
  SearchPercent, \* MORHPING_LIST_SEARCH_THRESHOLD, 10
  NBanks,      \* NBANKS
  Cap,         \* NUM_MAX_CACHE
  OverBank,    \* the bank whose counter lies where is_sb of a slot past the end would
  LogMax,      \* entries of one NUMA log file
  MaxMoves,    \* bound: changes of CPU
  MaxDrift     \* bound: nobody calls once morphing_len is so far below zero

Slots == 0 .. NSlabs - 1
Banks == 0 .. NBanks - 1
Root  == -1       \* the head node of a list; no slab
None  == "none"
Flusher == "flusher"

(* Where a thread's own arena is: it is this one; another one on the same   *)
(* NUMA node; one on the other node.                                        *)
Homes == {"own", "near", "far"}

ASSUME SlabsAssumption ==
  /\ Classes \subseteq Nat /\ Classes # {} /\ Size \in [Classes -> Nat \ {0}]
  /\ \A c, d \in Classes : Size[c] = Size[d] => c = d
  /\ \A c \in Classes : Header + Size[c] <= SlabSize
  /\ {NSlabs, SlabSize, MixHeader, LowPercent, SearchPercent} \subseteq Nat
  /\ Header \in Nat \ {0} /\ Header <= MixHeader /\ TableLine \in Nat \ {0}
  /\ NBanks \in Nat \ {0} /\ Cap \in Nat \ {0, 1} /\ LogMax \in Nat \ {0}
  /\ InitHome \in [Threads -> Homes]
  /\ None \notin Threads /\ Flusher \notin Threads

VARIABLES
  v,         \* vslab_t
  pm,        \* slab_t: is_mixed % 4, the meta bits, sb_table
  bin,       \* arena->bins[c].vslabs
  now,       \* arena->bins[c].now_vslab
  lru,       \* arena->LRU_vslabs
  lruLen,    \* arena->LRU_len
  morphLen,  \* arena->morphing_len
  cache,     \* tcache->caches[c].avail, the slots below ncached
  turn,      \* tcache->caches[c].now
  held,      \* blocks in clients' hands
  lost,      \* blocks dropped from a cache without being put back
  home,      \* where each thread's arena is
  moves,     \* changes of CPU so far
  binLock, slabLock, lruLock, numaLock,
  numaList,  \* arena->numa_list
  sem,       \* arena->slab_sem, posts beyond one not counted
  logged,    \* tcache->slab_log.nle_id of the current turn
  pc, my,    \* where each thread is, and its locals
  failed,    \* "no", or what ended the program
  stale      \* history only, no guard reads it: has a free, the note of a far
             \* free or a morph worked with a layout the slab no longer has?

memVars   == <<v, pm>>
listVars  == <<bin, now>>
lruVars   == <<lru, lruLen, morphLen>>
cacheVars == <<cache, turn, held, lost>>
moveVars  == <<home, moves>>
remVars   == <<numaLock, numaList, sem, logged>>
vars == <<v, pm, bin, now, lru, lruLen, morphLen, cache, turn, held, lost, home, moves,
          binLock, slabLock, lruLock, numaLock, numaList, sem, logged, pc, my, failed, stale>>

-----------------------------------------------------------------------------
(* Layouts: class, roffset, nbits.                                          *)
Fit(c, off)  == [cls |-> c, off |-> off, n |-> (SlabSize - off) \div Size[c]]
Plain(c)     == Fit(c, Header)
(* sizeclass_reset, with the table get_sb_table_size asks for.              *)
Mixed(c, k)  == Fit(c, MixHeader + (k + TableLine - 1) \div TableLine)

At(sc, i)    == sc.off + i * Size[sc.cls]
Index(sc, a) == (a - sc.off) \div Size[sc.cls]
Indices      == 0 .. SlabSize

Block(s, sc, i) == [slab |-> s, at |-> At(sc, i), len |-> Size[sc.cls]]
NoBlock      == [slab |-> Root, at |-> 0, len |-> 0]

(* The blocks of layout sc that len units at a reach into, from the one     *)
(* that holds the first of them.                                            *)
ReachFirst(sc, a, len) == {Index(sc, a)} \intersect Indices
Reach(sc, a, len) == {i \in Indices : i >= Index(sc, a) /\ At(sc, i) < a + len}
Covered(sc, b) == Reach(sc, b.at, b.len)

(* bitmap_header.nbits is unsigned: below zero it is above every threshold. *)
Low(n)      == (n * LowPercent) \div 100
Few(n, cnt) == cnt \in 0 .. Low(n)

NewSlab(c) ==
  [live |-> TRUE, sc |-> Plain(c), scb |-> Plain(c), numb |-> 0, used |-> {}, nbits |-> 0,
   dnum |-> [i \in Indices |-> 0], rb |-> {}, rdirty |-> FALSE]
NewImage == [phase |-> 0, meta |-> {}, table |-> <<>>]
AnyClass == CHOOSE c \in Classes : TRUE
NoSlab   == [NewSlab(AnyClass) EXCEPT !.live = FALSE]

NoWork == [cls |-> AnyClass, cur |-> Root, idx |-> 0, blk |-> NoBlock, sc |-> Plain(AnyClass),
           scb |-> Plain(AnyClass), val |-> 0, next |-> "idle", old |-> {}, then |-> "idle"]

-----------------------------------------------------------------------------
(* The lists of dl.c, front to back; Root stands for the head node.    *)
Members(l)  == {l[i] : i \in DOMAIN l}
After(l, s) == LET i == CHOOSE j \in DOMAIN l : l[j] = s
               IN  IF i = Len(l) THEN Root ELSE l[i + 1]
Front(l)    == IF l = <<>> THEN Root ELSE l[1]
Without(l, s) ==
  LET i == CHOOSE j \in DOMAIN l : l[j] = s
  IN  IF s \in Members(l) THEN [j \in 1 .. Len(l) - 1 |-> IF j < i THEN l[j] ELSE l[j + 1]]
                          ELSE l
Shorter(l)  == SubSeq(l, 1, Len(l) - 1)

-----------------------------------------------------------------------------
Init ==
  /\ v = [s \in Slots |-> NoSlab]
  /\ pm = [s \in Slots |-> NewImage]
  /\ bin = [c \in Classes |-> <<>>]
  /\ now = [c \in Classes |-> Root]
  /\ lru = <<>> /\ lruLen = 0 /\ morphLen = 0
  /\ cache = [t \in Threads |-> [c \in Classes |-> [b \in Banks |-> <<>>]]]
  /\ turn = [t \in Threads |-> [c \in Classes |-> NBanks - 1]]
  /\ held = {} /\ lost = {}
  /\ home = InitHome /\ moves = 0
  /\ binLock = [c \in Classes |-> None]
  /\ slabLock = [s \in Slots |-> None]
  /\ lruLock = None /\ numaLock = None
  /\ numaList = <<>> /\ sem = 0
  /\ logged = [t \in Threads |-> 0]
  /\ pc = [t \in Threads |-> "idle"]
  /\ my = [t \in Threads |-> NoWork]
  /\ failed = "no" /\ stale = FALSE

Go(t, p)     == pc' = [pc EXCEPT ![t] = p]
Be(t, p, w)  == pc' = [pc EXCEPT ![t] = p] /\ my' = [my EXCEPT ![t] = w]
Rest(t, p)   == Be(t, p, NoWork)
NoUnlockSlab(s) == UNCHANGED slabLock
NoUnlockBin(c)  == UNCHANGED binLock
UnlockSlab(s) == slabLock' = [slabLock EXCEPT ![s] = None]
UnlockBin(c)  == binLock' = [binLock EXCEPT ![c] = None]
FailIf(c, what) == failed' = IF c THEN what ELSE "no"
Sound        == failed' = "no"

-----------------------------------------------------------------------------
(* pmalloc_malloc_to, small sizes                                           *)

Filled(t, c) == {b \in Banks : cache[t][c][b] # <<>>}

(* cache_bitmap_findnxt: the next filled bank, from the last one used.      *)
NextBank(t, c) ==
  LET later == {b \in Filled(t, c) : b > turn[t][c]}
  IN  Min(IF later # {} THEN later ELSE Filled(t, c))

(* The loop at pmalloc.c:185 looks at is_sb one slot above the top.  For    *)
(* the last bank, full, that slot is outside the bank: the byte belongs to  *)
(* ncached[OverBank] of the next class's cache, and if it is not zero the   *)
(* top entry is dropped.                                                    *)
Overread(t, c, b) ==
  /\ b = NBanks - 1 /\ Len(cache[t][c][b]) = Cap
  /\ c + 1 \in Classes /\ cache[t][c + 1][OverBank] # <<>>

TakeFrom(t, c) ==
  LET b    == NextBank(t, c)
      full == cache[t][c][b]
      rest == IF Overread(t, c, b) THEN Shorter(full) ELSE full
      e    == rest[Len(rest)]
  IN  /\ cache' = [cache EXCEPT ![t][c][b] = Shorter(rest)]
      /\ turn' = [turn EXCEPT ![t][c] = b]
      /\ lost' = IF rest = full THEN lost ELSE lost \union {full[Len(full)].blk}
      /\ pm' = [pm EXCEPT ![e.blk.slab].meta = @ \union {e.mi}]
      /\ held' = held \union {e.blk}

MallocHit(t, c) ==
  /\ pc[t] = "idle" /\ home[t] = "own"
  /\ Filled(t, c) # {}
  /\ TakeFrom(t, c)
  /\ Sound
  /\ UNCHANGED <<v, listVars, lruVars, moveVars, binLock, slabLock, lruLock, remVars, pc, my>>

Take(t) ==
  /\ pc[t] = "take"
  /\ TakeFrom(t, my[t].cls)
  /\ Rest(t, "idle")
  /\ Sound
  /\ UNCHANGED <<v, listVars, lruVars, moveVars, binLock, slabLock, lruLock, remVars>>

-----------------------------------------------------------------------------
(* tcache_fill_cache, under the bin lock of the class                       *)

(* The loop looks at the slab now_vslab names first, or at the front.       *)
MallocMiss(t, c) ==
  LET first == IF now[c] = Root THEN Front(bin[c]) ELSE now[c]
  IN  /\ pc[t] = "idle" /\ home[t] = "own"
      /\ Filled(t, c) = {}
      /\ binLock[c] = None
      /\ binLock' = [binLock EXCEPT ![c] = t]
      /\ now' = [now EXCEPT ![c] = first]
      /\ Be(t, IF first = Root THEN "get" ELSE "visit", [NoWork EXCEPT !.cls = c, !.cur = first])
      /\ Sound
      /\ UNCHANGED <<memVars, bin, lruVars, cacheVars, moveVars, slabLock, lruLock, remVars>>

(* slab_pop_one_cache is called with slab_lock held, from the first call    *)
(* for a slab to the last.                                                  *)
AtSlab(t) ==
  \/ pc[t] = "pop"
  \/ pc[t] = "visit" /\ slabLock[my[t].cur] = None

(* It refuses a slab of another class or a full one, counting the block past *)
(* the end that morphing may have found in use; remote frees make room in a *)
(* full one, if numa_lock is to be had without waiting.                     *)
RefusesFull(r, c) ==
  \/ r.sc.cls # c
  \/ r.nbits = r.sc.n /\ ~(r.rdirty /\ numaLock = None)
Refuses(r, c) ==
  \/ r.sc.cls # c
  \/ r.nbits = r.sc.n + 1
  \/ r.nbits = r.sc.n /\ ~(r.rdirty /\ numaLock = None)

PopNone(t) ==
  LET c == my[t].cls
      s == my[t].cur
      n == IF After(bin[c], s) = Root THEN Front(bin[c]) ELSE After(bin[c], s)
  IN  /\ AtSlab(t)
      /\ Refuses(v[s], c)
      /\ UnlockSlab(s)
      /\ Be(t, IF n = now[c] THEN "get" ELSE "visit", 
            [my[t] EXCEPT !.cur = IF n = now[c] THEN Root ELSE n])
      /\ Sound
      /\ UNCHANGED <<memVars, listVars, lruVars, cacheVars, moveVars, binLock, lruLock, remVars>>

(* What the owner and the flusher do with the remote frees of a slab.       *)
ReclaimDirty(r) == [r EXCEPT !.used = @ \ r.rb, !.nbits = @ - Cardinality(r.rb), !.rb = {}]
ReclaimOne(r) == [r EXCEPT !.used = @ \ r.rb, !.nbits = @ - 1, !.rb = {}, !.rdirty = FALSE]
Reclaim(r) ==
  [r EXCEPT !.used = @ \ r.rb, !.nbits = @ - Cardinality(r.rb), !.rb = {}, !.rdirty = FALSE]

(* update_arena_LRU_morphing_slab, when it has something to do, writes      *)
(* morphing_len with no lock of its own: it is read here, written in SetLen.*)
Crosses(r, n, before, after) ==
  /\ r.numb = 0
  /\ Few(n, before) # Few(n, after)

Pop(t) ==
  LET c     == my[t].cls
      s     == my[t].cur
      dirty == v[s].nbits = v[s].sc.n
      r     == IF dirty THEN Reclaim(v[s]) ELSE v[s]
      i     == Min(Indices \ r.used)
      b     == i % NBanks
      entry == [blk |-> Block(s, r.sc, i), mi |-> i]
      bank  == Append(cache[t][c][b], entry)
      next  == IF Len(bank) = Cap THEN "full" ELSE IF r.numb = 0 THEN "touch" ELSE "pop"
  IN  /\ AtSlab(t)
      /\ ~Refuses(v[s], c)
      /\ FailIf(v[s].nbits \notin 0 .. v[s].sc.n \/ i >= r.sc.n, "bitmap")
      /\ slabLock' = [slabLock EXCEPT ![s] = t]
      /\ v' = [v EXCEPT ![s] = [r EXCEPT !.used = @ \union {i}, !.nbits = @ + 1]]
      /\ pm' = IF dirty THEN [pm EXCEPT ![s].meta = @ \ v[s].rb] ELSE pm
      /\ numaList' = IF dirty THEN Without(numaList, s) ELSE numaList
      /\ cache' = [cache EXCEPT ![t][c][b] = bank]
      /\ IF Crosses(r, r.sc.n, r.nbits, r.nbits + 1)
         THEN Be(t, "len", [my[t] EXCEPT !.val = IF r.nbits < 0 THEN morphLen + 1 ELSE morphLen - 1,
                                         !.next = next])
         ELSE Go(t, next) /\ UNCHANGED my
      /\ UNCHANGED <<listVars, lruVars, turn, held, lost, moveVars, binLock, lruLock,
                     numaLock, sem, logged>>

SetLen(t) ==
  /\ pc[t] = "len"
  /\ morphLen' = my[t].val
  /\ FailIf(morphLen' > lruLen, "morphing_len")
  /\ Be(t, my[t].next, [my[t] EXCEPT !.val = 0])
  /\ UNCHANGED <<memVars, listVars, lru, lruLen, cacheVars, moveVars, binLock, slabLock,
                 lruLock, remVars>>

(* A slab that blocks were taken from goes to the tail of the LRU list.     *)
Touch(t) ==
  LET s == my[t].cur
  IN  /\ pc[t] = "touch"
      /\ lruLock = None
      /\ FailIf(s \notin Members(lru), "LRU_dlnode")
      /\ lru' = IF s \in Members(lru) THEN Append(Without(lru, s), s) ELSE lru
      /\ Go(t, "pop")
      /\ UNCHANGED <<memVars, listVars, lruLen, morphLen, cacheVars, moveVars, binLock,
                     slabLock, lruLock, remVars, my>>

(* A bank is full: both locks are released, and malloc goes on.             *)
PopFull(t) ==
  LET c == my[t].cls
      s == my[t].cur
  IN  /\ pc[t] = "full"
      /\ UnlockSlab(s)
      /\ now' = [now EXCEPT ![c] = s]
      /\ UnlockBin(c)
      /\ Be(t, "take", [NoWork EXCEPT !.cls = c])
      /\ Sound
      /\ UNCHANGED <<memVars, bin, lruVars, cacheVars, moveVars, lruLock, remVars>>

-----------------------------------------------------------------------------
(* slab_get_one: another class's slab, or a new one                         *)

(* morphing_len and LRU_len are read with no lock.                          *)
Get(t) ==
  /\ pc[t] = "get"
  /\ Go(t, IF morphLen > 0 /\ morphLen * 100 > lruLen * SearchPercent
           THEN "search" ELSE "create")
  /\ Sound
  /\ UNCHANGED <<memVars, listVars, lruVars, cacheVars, moveVars, binLock, slabLock, lruLock,
                 remVars, my>>

Search(t) ==
  /\ pc[t] = "search"
  /\ lruLock = None
  /\ lruLock' = t
  /\ Be(t, "walk", [my[t] EXCEPT !.cur = Front(lru)])
  /\ Sound
  /\ UNCHANGED <<memVars, listVars, lruVars, cacheVars, moveVars, binLock, slabLock, remVars>>

(* The walk ends at the first slab used too recently.  timestamp advances   *)
(* with the fills of every class, so that may be any slab of the list.      *)
WalkEnd(t) ==
  /\ pc[t] = "walk"
  /\ lruLock' = None
  /\ Be(t, "create", [my[t] EXCEPT !.cur = Root])
  /\ Sound
  /\ UNCHANGED <<memVars, listVars, lruVars, cacheVars, moveVars, binLock, slabLock, remVars>>

(* nbits is tested before slab_lock is asked for.                           *)
EmptyEnough(r, c) == Few(r.sc.n, r.nbits)
Candidate(r, c)   == Few(r.sc.n, r.nbits) /\ r.sc.cls # c

WalkOn(t) ==
  LET s == my[t].cur
  IN  /\ pc[t] = "walk"
      /\ s # Root
      /\ IF Candidate(v[s], my[t].cls) THEN Go(t, "seize") /\ UNCHANGED my
         ELSE Be(t, "walk", [my[t] EXCEPT !.cur = After(lru, s)])
      /\ Sound
      /\ UNCHANGED <<memVars, listVars, lruVars, cacheVars, moveVars, binLock, slabLock,
                     lruLock, remVars>>

(* The first block in use must not lie under the new header and table, and  *)
(* no block does when nbits has wrapped and the table would not fit.        *)
NeverUnder(r, sc) == FALSE
Under(r, sc)      == r.nbits < 0 \/ \E i \in r.used : At(r.sc, i) < sc.off

Keeps(r)      == r.nbits # 0
Refusal(r, c) == Keeps(r) /\ Under(r, Mixed(c, r.nbits))

(* slab_morphing up to the bin lock of the slab's old class.  It does not   *)
(* look at r_dirty.  Entries of the slab that it finds in the cache of the  *)
(* new class it would mark is_sb.                                           *)
Seize(t) ==
  LET s      == my[t].cur
      r      == v[s]
      c      == my[t].cls
      sc     == Mixed(c, r.nbits)
      marks  == \E b \in Banks : \E e \in Members(cache[t][c][b]) : e.blk.slab = s
      unfit  == (\E i \in r.used : i >= r.sc.n) \/ (Keeps(r) /\ r.used = {})
  IN  /\ pc[t] = "seize"
      /\ slabLock[s] = None
      /\ failed' = IF marks THEN "marked" ELSE IF unfit THEN "bitmap" ELSE "no"
      /\ IF Refusal(r, c)
         THEN /\ Be(t, "walk", [my[t] EXCEPT !.cur = After(lru, s)])
              /\ UNCHANGED <<memVars, slabLock>>
         ELSE /\ Be(t, "unbin", [my[t] EXCEPT !.sc = r.sc,
                                              !.old = IF Keeps(r) THEN r.used ELSE {}])
              /\ slabLock' = [slabLock EXCEPT ![s] = t]
              /\ IF Keeps(r)
                 THEN /\ v' = [v EXCEPT ![s] = [r EXCEPT !.sc = sc, !.scb = r.sc,
                                                         !.numb = r.nbits, !.nbits = 0]]
                      /\ pm' = [pm EXCEPT ![s].phase = 2]
                 ELSE UNCHANGED memVars
      /\ UNCHANGED <<listVars, lruVars, cacheVars, moveVars, binLock, lruLock, remVars>>

(* What both kinds of morphing do to the bins.  A slab that is in neither   *)
(* has no node to delete.                                                   *)
Rebin(t, last) ==
  LET s == my[t].cur
      a == my[t].sc.cls
      c == my[t].cls
  IN  /\ binLock[a] = None
      /\ bin' = [bin EXCEPT ![a] = Without(@, s), ![c] = <<s>> \o @]
      /\ now' = [now EXCEPT ![a] = IF @ = s THEN After(bin[a], s) ELSE @,
                            ![c] = IF last THEN s ELSE @]
      /\ FailIf(s \notin Members(bin[a]) \/ (last /\ s \in Members(numaList)), "unlinked")

(* Nothing in use: the slab starts afresh.                                  *)
Reuse(t) ==
  LET s == my[t].cur
  IN  /\ pc[t] = "unbin" /\ my[t].old = {}
      /\ Rebin(t, TRUE)
      /\ v' = [v EXCEPT ![s] = NewSlab(my[t].cls)]
      /\ pm' = [pm EXCEPT ![s] = NewImage]
      /\ UnlockSlab(s)
      /\ lruLock' = None
      /\ Be(t, "visit", [NoWork EXCEPT !.cls = my[t].cls, !.cur = s])
      /\ UNCHANGED <<lruVars, cacheVars, moveVars, binLock, remVars>>

(* Blocks in use: is_mixed becomes 3 before the table is persistent.        *)
Unbin(t) ==
  LET s == my[t].cur
  IN  /\ pc[t] = "unbin" /\ my[t].old # {}
      /\ Rebin(t, FALSE)
      /\ lru' = Without(lru, s) /\ lruLen' = lruLen - 1 /\ morphLen' = morphLen - 1
      /\ v' = [v EXCEPT ![s].used = {}]
      /\ pm' = [pm EXCEPT ![s].phase = 3]
      /\ Go(t, "table")
      /\ UNCHANGED <<cacheVars, moveVars, binLock, slabLock, lruLock, remVars, my>>

TabledShort(p, old) == [p EXCEPT !.table = [i \in old \ {Max(old)} |-> 0], !.meta = {}]
Tabled(p, old)      == [p EXCEPT !.table = [i \in old |-> 0], !.meta = {}]

Table(t) ==
  LET s == my[t].cur
  IN  /\ pc[t] = "table"
      /\ pm' = [pm EXCEPT ![s] = Tabled(@, my[t].old)]
      /\ v' = [v EXCEPT ![s].dnum = [i \in Indices |-> 0]]
      /\ Go(t, "metas")
      /\ FailIf(Cardinality(my[t].old) # v[s].numb, "sb_table")
      /\ UNCHANGED <<listVars, lruVars, cacheVars, moveVars, binLock, slabLock, lruLock,
                     remVars, my>>

Metas(t) ==
  LET s     == my[t].cur
      sc    == v[s].sc
      over  == [i \in Indices |->
                  Cardinality({j \in my[t].old : i \in Covered(sc, Block(s, my[t].sc, j))})]
      inUse == {i \in Indices : over[i] > 0}
  IN  /\ pc[t] = "metas"
      /\ FailIf(Max(inUse) > sc.n \/ Cardinality(inUse) > sc.n + 1, "bitmap")
      /\ v' = [v EXCEPT ![s] = [@ EXCEPT !.dnum = over, !.used = inUse,
                                         !.nbits = Cardinality(inUse)]]
      /\ pm' = [pm EXCEPT ![s].meta = inUse, ![s].phase = 0]
      /\ UnlockSlab(s)
      /\ lruLock' = None
      /\ now' = [now EXCEPT ![my[t].cls] = s]
      /\ Be(t, "visit", [NoWork EXCEPT !.cls = my[t].cls, !.cur = s])
      /\ UNCHANGED <<bin, lruVars, cacheVars, moveVars, binLock, remVars>>

(* slab_create: the slab is in the LRU list before it is in the bin.        *)
Create(t) ==
  LET dead == {s \in Slots : ~v[s].live}
      s    == Min(dead)
      c    == my[t].cls
  IN  /\ pc[t] = "create"
      /\ dead # {}
      /\ lruLock = None
      /\ v' = [v EXCEPT ![s] = NewSlab(c)]
      /\ pm' = [pm EXCEPT ![s] = NewImage]
      /\ lru' = Append(lru, s) /\ lruLen' = lruLen + 1 /\ morphLen' = morphLen + 1
      /\ Be(t, "insert", [my[t] EXCEPT !.cur = s])
      /\ Sound
      /\ UNCHANGED <<listVars, cacheVars, moveVars, binLock, slabLock, lruLock, remVars>>

Insert(t) ==
  LET s == my[t].cur
      c == my[t].cls
  IN  /\ pc[t] = "insert"
      /\ bin' = [bin EXCEPT ![c] = <<s>> \o @]
      /\ now' = [now EXCEPT ![c] = s]
      /\ Go(t, "visit")
      /\ Sound
      /\ UNCHANGED <<memVars, lruVars, cacheVars, moveVars, binLock, slabLock, lruLock, remVars, my>>

-----------------------------------------------------------------------------
(* slab_free_small and migrate_putback                                      *)

(* Without the slab's lock they read sc, sc_b, num_b and the dmeta of the   *)
(* block, and decide: does the block belong to the layout before the last   *)
(* morphing?  What they read may be in the middle of a morphing, or of the  *)
(* past by the time they use it.                                            *)
ByTable(b) ==
  LET r == v[b.slab]
      i == Index(r.sc, b.at)
  IN  r.numb # 0 /\ i \in Indices /\ r.dnum[i] # 0

Start(t, b, then) ==
  LET r == v[b.slab]
      i == Index(r.sc, b.at)
  IN  /\ Be(t, IF ByTable(b) THEN "old" ELSE "unset",
               [NoWork EXCEPT !.cur = b.slab, !.blk = b, !.idx = i, !.sc = r.sc, !.scb = r.scb,
                              !.then = then])
      /\ FailIf(i \notin 0 .. r.sc.n, "index")

Free(t, b) ==
  /\ pc[t] = "idle" /\ b \in held
  /\ home[t] # "far"
  /\ held' = held \ {b}
  /\ Start(t, b, "idle")
  /\ UNCHANGED <<memVars, listVars, lruVars, cache, turn, lost, moveVars, binLock, slabLock,
                 lruLock, remVars>>

Done(t) == Rest(t, my[t].then)

(* A block taken for one of the slab's own layout: its meta bit goes, and   *)
(* the thread keeps the block if it may.  No lock covers any of it.         *)
ToCache(t) ==
  /\ home[t] = "own" /\ my[t].then = "idle"
  /\ Len(cache[t][my[t].sc.cls][my[t].idx % NBanks]) < Cap

Unset(t) ==
  LET c     == my[t].sc.cls
      i     == my[t].idx
      entry == [blk |-> my[t].blk, mi |-> i]
  IN  /\ pc[t] = "unset"
      /\ pm' = [pm EXCEPT ![my[t].cur].meta = @ \ {i}]
      /\ IF ToCache(t)
         THEN /\ cache' = [cache EXCEPT ![t][c][i % NBanks] = Append(@, entry)]
              /\ Done(t)
         ELSE Go(t, "new") /\ UNCHANGED <<cache, my>>
      /\ Sound
      /\ UNCHANGED <<v, listVars, lruVars, turn, held, lost, moveVars, binLock, slabLock, lruLock,
                     remVars>>

(* Otherwise it goes back to the bitmap.                                    *)
FreeNew(t) ==
  LET s == my[t].cur
      r == v[s]
  IN  /\ pc[t] = "new"
      /\ slabLock[s] = None
      /\ slabLock' = [slabLock EXCEPT ![s] = t]
      /\ v' = [v EXCEPT ![s] = [r EXCEPT !.used = @ \ {my[t].idx}, !.nbits = @ - 1]]
      /\ IF r.nbits # 0 /\ Crosses(r, my[t].sc.n, r.nbits, r.nbits - 1)
         THEN Be(t, "len", [my[t] EXCEPT !.val = morphLen + 1, !.next = "freed", !.blk = NoBlock])
         ELSE Be(t, "freed", [my[t] EXCEPT !.blk = NoBlock])
      /\ Sound
      /\ UNCHANGED <<pm, listVars, lruVars, cacheVars, moveVars, binLock, lruLock, remVars>>

Freed(t) ==
  LET s == my[t].cur
  IN  /\ pc[t] = "freed"
      /\ UnlockSlab(s)
      /\ IF v[s].nbits = 0 /\ ~v[s].rdirty
         THEN Be(t, "unlink", [my[t] EXCEPT !.next = "drop"])
         ELSE Done(t)
      /\ Sound
      /\ UNCHANGED <<memVars, listVars, lruVars, cacheVars, moveVars, binLock, lruLock, remVars>>

(* A block of the layout before: its entry of the table is marked, and the  *)
(* blocks of the new layout that no old block reaches into become free.     *)
UncoverFirst(r, over) ==
  [r EXCEPT !.numb = @ - 1, !.dnum = [i \in Indices |-> IF i = Min(over) THEN @[i] - 1 ELSE @[i]]]
Uncover(r, over) ==
  LET out == {i \in over : r.dnum[i] = 1}
  IN  [r EXCEPT !.numb = @ - 1, !.used = @ \ out, !.nbits = @ - Cardinality(out),
                !.dnum = [i \in Indices |-> IF i \in over THEN @[i] - 1 ELSE @[i]]]

(* Past the entries the table may hold anything, up to its last line.       *)
FreeOld(t) ==
  LET s    == my[t].cur
      r    == v[s]
      w    == my[t]
      j    == Index(w.scb, w.blk.at)
      left == Uncover(r, Reach(w.sc, w.blk.at, Size[w.scb.cls]))
  IN  /\ pc[t] = "old"
      /\ slabLock[s] = None
      /\ IF j \in DOMAIN pm[s].table /\ w.sc = r.sc THEN Sound ELSE failed' \in {"no", "sb_table"}
      /\ v' = [v EXCEPT ![s] = left]
      /\ pm' = [pm EXCEPT ![s].meta = @ \ {i \in Indices : r.dnum[i] # 0 /\ left.dnum[i] = 0},
                          ![s].table[j] = (@ + 2) % 4]
      /\ CASE left.nbits = 0 -> Be(t, "unlink", [my[t] EXCEPT !.next = "check", !.blk = NoBlock])
           [] left.nbits # 0 /\ left.numb = 0 -> Be(t, "relist", [my[t] EXCEPT !.blk = NoBlock])
           [] OTHER -> Done(t)
      /\ UNCHANGED <<listVars, lruVars, cacheVars, moveVars, binLock, slabLock, lruLock, remVars>>

(* The last old block is gone: the slab may be morphed again.               *)
Relist(t) ==
  LET s == my[t].cur
  IN  /\ pc[t] = "relist"
      /\ lruLock = None
      /\ lru' = Append(lru, s) /\ lruLen' = lruLen + 1
      /\ morphLen' = IF v[s].nbits <= Low(v[s].sc.n) THEN morphLen + 1 ELSE morphLen
      /\ Done(t)
      /\ Sound
      /\ UNCHANGED <<memVars, listVars, cacheVars, moveVars, binLock, slabLock, lruLock, remVars>>

(* The last block is gone.  nbits is tested once more under the bin lock,   *)
(* and once more under no lock.                                             *)
Unlink(t) ==
  LET s     == my[t].cur
      c     == my[t].sc.cls
      empty == v[s].nbits = 0
  IN  /\ pc[t] = "unlink"
      /\ binLock[c] = None
      /\ FailIf(empty /\ s \notin Members(bin[c]), "unlinked")
      /\ bin' = IF empty THEN [bin EXCEPT ![c] = Without(@, s)] ELSE bin
      /\ now' = IF empty /\ now[c] = s /\ s \in Members(bin[c])
                THEN [now EXCEPT ![c] = After(bin[c], s)] ELSE now
      /\ Go(t, "check")
      /\ UNCHANGED <<memVars, lruVars, cacheVars, moveVars, binLock, slabLock, lruLock, remVars, my>>

Caches(t) == UNION {UNION {Members(cache[t][c][b]) : b \in Banks} : c \in Classes}
Cached    == UNION {{e.blk : e \in Caches(t)} : t \in Threads}

(* The slab is freed, which nobody else may notice: no thread at work on    *)
(* it, no list, no cache and no client.                                     *)
Destroy(t, s, l) ==
  LET inUse  == \E u \in Threads \ {t} : pc[u] # "idle" /\ my[u].cur = s
      listed == s \in Members(numaList) \union Members(l) \union
                     UNION {Members(bin[c]) : c \in Classes}
      out    == \E b \in held \union Cached : b.slab = s
  IN  /\ v' = [v EXCEPT ![s] = NoSlab]
      /\ pm' = [pm EXCEPT ![s] = NewImage]
      /\ FailIf(inUse \/ listed \/ out, "freed slab")

Check(t) ==
  LET s == my[t].cur
  IN  /\ pc[t] = "check"
      /\ IF v[s].nbits = 0 /\ my[t].next = "drop"
         THEN Go(t, "drop") /\ Sound /\ UNCHANGED <<memVars, my>>
         ELSE /\ Done(t)
              /\ IF v[s].nbits = 0 THEN Destroy(t, s, lru) ELSE Sound /\ UNCHANGED memVars
      /\ UNCHANGED <<listVars, lruVars, cacheVars, moveVars, binLock, slabLock, lruLock, remVars>>

Drop(t) ==
  LET s == my[t].cur
  IN  /\ pc[t] = "drop"
      /\ lruLock = None
      /\ lru' = Without(lru, s) /\ lruLen' = lruLen - 1 /\ morphLen' = morphLen - 1
      /\ IF s \in Members(lru)
         THEN Destroy(t, s, Without(lru, s))
         ELSE failed' = "LRU_dlnode" /\ UNCHANGED memVars
      /\ Done(t)
      /\ UNCHANGED <<listVars, cacheVars, moveVars, binLock, slabLock, lruLock, remVars>>
-----------------------------------------------------------------------------
(* A free from the other NUMA node is logged and noted in the slab          *)

(* numa_log_alloc: a full file wakes the flusher.                           *)
FarFree(t, b) ==
  LET s    == b.slab
      full == logged[t] = LogMax
  IN  /\ pc[t] = "idle" /\ b \in held
      /\ home[t] = "far"
      /\ held' = held \ {b}
      /\ logged' = [logged EXCEPT ![t] = IF full THEN 1 ELSE @ + 1]
      /\ sem' = IF full THEN 1 ELSE sem
      /\ Be(t, "far", [NoWork EXCEPT !.cur = s, !.blk = b, !.sc = v[s].sc,
                                     !.idx = Index(v[s].sc, b.at)])
      /\ Sound
      /\ UNCHANGED <<memVars, listVars, lruVars, cache, turn, lost, moveVars, binLock, slabLock,
                     lruLock, numaLock, numaList>>

(* bitmap_set_bits is an exclusive or; the index is that of the layout read *)
(* before, whatever the block and the slab are now.                         *)
FarMark(t) ==
  LET s == my[t].cur
      i == my[t].idx
      r == v[s]
  IN  /\ pc[t] = "far"
      /\ slabLock[s] = None
      /\ FailIf(i \notin Indices, "wild")
      /\ v' = [v EXCEPT ![s].rdirty = TRUE,
                        ![s].rb = IF i \in r.rb THEN @ \ {i} ELSE @ \union {i}]
      /\ IF r.rdirty THEN Done(t) ELSE Be(t, "enlist", [my[t] EXCEPT !.blk = NoBlock])
      /\ UNCHANGED <<pm, listVars, lruVars, cacheVars, moveVars, binLock, slabLock, lruLock, remVars>>

(* ql_tail_insert of an element that is in the ring already cuts off others.*)
Enlist(t) ==
  LET s     == my[t].cur
      twice == s \in Members(numaList)
  IN  /\ pc[t] = "enlist"
      /\ numaLock = None
      /\ numaList' = IF twice THEN numaList ELSE Append(numaList, s)
      /\ FailIf(twice /\ Len(numaList) > 1, "numa_list")
      /\ Done(t)
      /\ UNCHANGED <<memVars, listVars, lruVars, cacheVars, moveVars, binLock, slabLock, lruLock,
                     numaLock, sem, logged>>

-----------------------------------------------------------------------------
(* numa_log_slab_flusher                                                    *)

Wake ==
  /\ sem > 0 /\ numaLock = None
  /\ sem' = 0
  /\ numaLock' = Flusher
  /\ Sound
  /\ UNCHANGED <<memVars, listVars, lruVars, cacheVars, moveVars, binLock, slabLock, lruLock,
                 numaList, logged, pc, my>>

Rotate(l)  == Append(Tail(l), Front(l))
Dequeue(l) == Tail(l)

(* The first slab leaves the list.  Only one with r_dirty set is locked.    *)
Flush ==
  LET s == Front(numaList)
      r == v[s]
  IN  /\ numaLock = Flusher /\ numaList # <<>>
      /\ r.rdirty => slabLock[s] = None
      /\ v' = IF r.rdirty THEN [v EXCEPT ![s] = Reclaim(r)] ELSE v
      /\ pm' = IF r.rdirty THEN [pm EXCEPT ![s].meta = @ \ r.rb] ELSE pm
      /\ numaList' = Dequeue(numaList)
      /\ Sound
      /\ UNCHANGED <<listVars, lruVars, cacheVars, moveVars, binLock, slabLock, lruLock,
                     numaLock, sem, logged, pc, my>>

FlushEnd ==
  /\ numaLock = Flusher /\ numaList = <<>>
  /\ numaLock' = None
  /\ Sound
  /\ UNCHANGED <<memVars, listVars, lruVars, cacheVars, moveVars, binLock, slabLock, lruLock,
                 numaList, sem, logged, pc, my>>

-----------------------------------------------------------------------------
(* numa_migrate_check: a thread found on another CPU puts its cache back    *)
(* entry by entry, then takes the arena of the CPU it is on.                *)

Migrate(t) ==
  /\ pc[t] = "idle" /\ moves < MaxMoves
  /\ moves' = moves + 1
  /\ Rest(t, "putback")
  /\ Sound
  /\ UNCHANGED <<memVars, listVars, lruVars, cacheVars, home, binLock, slabLock, lruLock, remVars>>

AllFilled(t) == {c \in Classes : Filled(t, c) # {}}

PutBack(t) ==
  LET c == Min(AllFilled(t))
      b == Min(Filled(t, c))
  IN  /\ pc[t] = "putback" /\ AllFilled(t) # {}
      /\ Start(t, Front(cache[t][c][b]).blk, "putback")
      /\ cache' = [cache EXCEPT ![t][c][b] = Tail(@)]
      /\ UNCHANGED <<memVars, listVars, lruVars, turn, held, lost, moveVars, binLock, slabLock, lruLock,
                     remVars>>

Settle(t) ==
  /\ pc[t] = "putback" /\ AllFilled(t) = {}
  /\ \E h \in Homes : home' = [home EXCEPT ![t] = h]
  /\ Rest(t, "idle")
  /\ Sound
  /\ UNCHANGED <<memVars, listVars, lruVars, cacheVars, moves, binLock, slabLock, lruLock, remVars>>

-----------------------------------------------------------------------------
Fill(t) ==
  \/ PopNone(t) \/ Pop(t) \/ SetLen(t) \/ Touch(t) \/ PopFull(t) \/ Take(t)
  \/ Get(t) \/ Search(t) \/ WalkEnd(t) \/ WalkOn(t) \/ Create(t) \/ Insert(t)
  \/ Seize(t) \/ Reuse(t) \/ Unbin(t) \/ Table(t) \/ Metas(t)

Return(t) ==
  \/ Unset(t) \/ FreeNew(t) \/ Freed(t) \/ FreeOld(t) \/ Relist(t) \/ Unlink(t) \/ Check(t) \/ Drop(t)
  \/ FarMark(t) \/ Enlist(t) \/ PutBack(t) \/ Settle(t)

(* Would the next step of t work with a layout that is not the one of the   *)
(* slab and the block?  A free takes for the slab's layout what it read     *)
(* before, the note of a far free takes any block for one of the slab's own *)
(* layout, and a morph leaves remote frees noted by the layout it replaces. *)
Outdated(t) ==
  LET r == v[my[t].cur]
      w == my[t]
  IN  \/ pc[t] \in {"unset", "new", "old", "far"} /\ w.sc # r.sc
      \/ pc[t] \in {"unset", "new", "far"} /\ w.blk.len # Size[w.sc.cls]
      \/ pc[t] = "old" /\ (w.scb # r.scb \/ w.blk.len = Size[w.sc.cls])
      \/ pc[t] = "seize" /\ r.rdirty /\ ~Refusal(r, w.cls)

(* What a thread does inside a call that it has begun.                      *)
Inside(t) ==
  /\ Fill(t) \/ Return(t)
  /\ stale' = (stale \/ Outdated(t))

Call(t) ==
  /\ morphLen > -MaxDrift
  /\ \/ \E c \in Classes : MallocHit(t, c) \/ MallocMiss(t, c)
     \/ \E b \in held : Free(t, b) \/ FarFree(t, b)
     \/ Migrate(t)
  /\ UNCHANGED stale

FlusherStep ==
  /\ Wake \/ Flush \/ FlushEnd
  /\ UNCHANGED stale

Next ==
  /\ failed = "no"
  /\ \/ \E t \in Threads : Call(t) \/ Inside(t)
     \/ FlusherStep

(* Threads inside a call run on; nobody has to call.  The flusher gets a    *)
(* mutex that is free again and again.                                      *)
Fairness ==
  /\ SF_vars(failed = "no" /\ FlusherStep)
  /\ \A t \in Threads : WF_vars(failed = "no" /\ Inside(t))

Spec     == Init /\ [][Next]_vars
FairSpec == Spec /\ Fairness

-----------------------------------------------------------------------------
(* Properties                                                               *)

(* What Clean asks for is more than the code gives: a morph may come        *)
(* between the reads of a free and what it does with them, and a far free   *)
(* has no eye for old blocks.  After that (stale) the program runs on with  *)
(* bits and counts that are wrong, and what the properties below say of a   *)
(* Clean state is false.  Until then they hold.                             *)
Running == failed = "no"
Clean   == Running /\ ~stale

Pcs == {"idle", "take", "visit", "pop", "len", "touch", "full", "get", "search", "walk", "seize",
        "unbin", "table", "metas", "create", "insert", "old", "unset", "new", "freed", "unlink", "check",
        "drop", "relist", "far", "enlist", "putback"}

(* Types, and the locks: each is held by threads that are where the code    *)
(* holds it.                                                                *)
TypeOK ==
  /\ \A s \in Slots : v[s].used \subseteq Indices /\ v[s].nbits \in Int /\ v[s].numb \in Int
  /\ \A c \in Classes : Members(bin[c]) \subseteq Slots /\ now[c] \in Slots \union {Root}
  /\ Members(lru) \subseteq Slots /\ lruLen \in Int /\ morphLen \in Int
  /\ \A t \in Threads : home[t] \in Homes /\ pc[t] \in Pcs /\ logged[t] \in 0 .. LogMax
  /\ \A c \in Classes : binLock[c] # None => pc[binLock[c]] # "idle"
  /\ lruLock # None => pc[lruLock] \in {"walk", "seize", "unbin", "table", "metas"}

InFlight  == {my[t].blk : t \in {u \in Threads : my[u].blk # NoBlock}}
Returned(s) == {Block(s, v[s].sc, i) : i \in v[s].rb}
Blocks    == held \union lost \union Cached \union InFlight \union
             UNION {Returned(s) : s \in Slots}

(* No two blocks that are with a client, in a cache, on their way back or   *)
(* waiting for the flusher overlap, nor does one overlap the header, meta   *)
(* bits and table of its slab, whatever layouts the slab went through, as   *)
(* long as no free, far free or morph has worked with an outdated layout.   *)
BlocksApart ==
  Clean =>
    /\ \A a, b \in Blocks :
         a # b /\ a.slab = b.slab => a.at + a.len <= b.at \/ b.at + b.len <= a.at
    /\ \A b \in Blocks : v[b.slab].sc.off <= b.at /\ b.at + b.len <= SlabSize

(* bitmap and nbits of a slab nobody has locked are exactly the blocks of   *)
(* its layout that some block out there reaches into: neither a leak nor a  *)
(* block that would be handed out twice.  It holds until a free, a far free *)
(* or a morph works with an outdated layout.                                *)
Accounted ==
  Clean => \A s \in Slots : v[s].live /\ slabLock[s] = None =>
    /\ v[s].used = UNION {Covered(v[s].sc, b) : b \in {x \in Blocks : x.slab = s}}
    /\ v[s].nbits = Cardinality(v[s].used)

(* num_b of a slab counts the blocks of the old layout that are left, and   *)
(* num_b of a dmeta those that reach into its block, until a free, a far    *)
(* free or a morph works with an outdated layout.                           *)
OldCounted ==
  Clean => \A s \in Slots : v[s].live /\ slabLock[s] = None =>
    LET old == {b \in Blocks : b.slab = s /\ b.len # Size[v[s].sc.cls]}
    IN  /\ v[s].numb = Cardinality(old)
        /\ \A i \in Indices :
             v[s].dnum[i] = Cardinality({b \in old : i \in Covered(v[s].sc, b)})

(* After a crash, also between two persists of a morph, the slab's header,  *)
(* meta bits and table still record each block a client holds: by the meta  *)
(* bit of the layout that is_mixed tells, or by an entry of the table that  *)
(* is not freed.  It holds until a free clears the meta bit of a layout     *)
(* that a morph has replaced since the free read it (slab.c:523, 633), or   *)
(* a far free or a morph works with an outdated layout.                     *)
MetaLayout(s) == IF pm[s].phase >= 2 THEN v[s].scb ELSE v[s].sc

BlocksRecorded ==
  Clean => \A b \in held :
    LET s  == b.slab
        sc == MetaLayout(s)
    IN  \/ b.len = Size[sc.cls] /\ Index(sc, b.at) \in pm[s].meta
        \/ /\ b.len = Size[v[s].scb.cls]
           /\ Index(v[s].scb, b.at) \in DOMAIN pm[s].table
           /\ pm[s].table[Index(v[s].scb, b.at)] = 0

(* A slab with remote frees is where the flusher will find it, or the       *)
(* thread that set r_dirty is about to put it there, until a free, a far    *)
(* free or a morph works with an outdated layout.                           *)
DirtyListed ==
  Clean => \A s \in Slots :
    /\ v[s].rdirty <=> v[s].rb # {}
    /\ v[s].rdirty => \/ s \in Members(numaList)
                      \/ \E t \in Threads : pc[t] = "enlist" /\ my[t].cur = s

(* slab_morphing looks for blocks of the slab in the cache of the class it  *)
(* morphs to: there are none, so no cache entry is ever marked is_sb, until *)
(* a free, a far free or a morph works with an outdated layout.             *)
NeverMarks == ~stale => failed # "marked"

(* The asserts about indices (slab.c:531, 713), sb_table (553, 733) and     *)
(* bitmaps (368, 434; in morphing 189, 227, 277, 287, 311, 318, 342) do not *)
(* fail before a free, a far free or a morph works with an outdated layout. *)
(* In that step and after it they can.                                      *)
BitmapsSound == ~stale => failed \notin {"bitmap", "sb_table", "index"}

(* Who waits for whom.                                                      *)
WaitsFor(u) ==
  CASE u = Flusher ->
         IF numaLock = Flusher /\ numaList # <<>> /\ v[Front(numaList)].rdirty
         THEN slabLock[Front(numaList)] ELSE None
    [] u # Flusher /\ pc[u] \in {"visit", "seize", "old", "new", "far"} -> slabLock[my[u].cur]
    [] u # Flusher /\ pc[u] \in {"touch", "search", "create", "drop", "relist"} -> lruLock
    [] u # Flusher /\ pc[u] \in {"unbin", "unlink"} -> binLock[my[u].sc.cls]
    [] u # Flusher /\ pc[u] = "enlist" -> numaLock
    [] OTHER -> None

Deadlocked(D) == D # {} /\ \A u \in D : WaitsFor(u) \in D

(* Threads wait for one another in a circle only through a search for a     *)
(* slab to morph, which asks for the slab's lock, then for the lock of its  *)
(* old bin, with LRU_lock held: all other nestings agree on an order.       *)
OnlyMorphDeadlocks ==
  \A D \in SUBSET (Threads \union {Flusher}) :
    Deadlocked(D) => \E t \in D \ {Flusher} : pc[t] \in {"seize", "unbin"}

(* Held blocks, to the clients, are runs of a heap: allocated apart from    *)
(* all others, and undisturbed until they are freed.  Once a free, a far    *)
(* free or a morph has worked with an outdated layout nothing is promised.  *)
Place(b) == b.slab * SlabSize + b.at
Runs(H) ==
  [p \in 0 .. NSlabs * SlabSize - 1 |->
     LET here == {b \in H : Place(b) = p}
     IN  IF here = {} THEN 0 ELSE (CHOOSE b \in here : TRUE).len]
heldRuns == Runs(held)
BlockHeap == INSTANCE PageHeap WITH
  NPages <- NSlabs * SlabSize,
  Sizes  <- {Size[c] : c \in Classes},
  heap   <- heldRuns
BlockSpec == BlockHeap!Init /\ [][stale \/ BlockHeap!Next]_heldRuns

(* Once its semaphore is posted the flusher empties the list of slabs with  *)
(* remote frees, however the other threads go on.                           *)
FlushDrains == (sem > 0 /\ Running) ~> (numaList = <<>> \/ ~Running)

(* assert(vslab->LRU_dlnode != NULL), slab.c:476.                           *)
LruNodeFound == failed # "LRU_dlnode"
=============================================================================
