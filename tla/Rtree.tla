------------------------------- MODULE Rtree -------------------------------
(***************************************************************************)
(* The radix tree from page addresses to extents or slabs (rtree.c,        *)
(* rtree.h) and the two caches of leaves that each thread keeps for it     *)
(* (rtree_tsd.h).  With 48-bit addresses the tree has two levels: an array *)
(* of child pointers and the leaves.  A leaf is allocated by the first     *)
(* thread that has to write to it, under init_lock; it is never freed, and *)
(* everything else is done with atomic loads and stores.                   *)
(*                                                                         *)
(* A lookup in a thread's own caches is one step with the call; every load *)
(* or store of shared memory is a step of its own, but the load that       *)
(* rtree_write and rtree_clear assert about: it is one step with the       *)
(* store, since one thread at a time writes to a page.                     *)
(***************************************************************************)
EXTENDS Integers, Sequences

CONSTANTS
  Threads,
  Keys,       \* page addresses
  LeafKeys,   \* the values of rtree_leafkey
  Leafkey,    \* Leafkey[k]: which leaf k belongs to
  Slots,      \* 0 .. RTREE_CTX_NCACHE - 1
  Slot,       \* Slot[lk] = rtree_cache_direct_map of the keys of leaf lk
  NL2,        \* RTREE_CTX_NCACHE_L2
  Exts,       \* extents and vslabs
  Uses        \* Uses[t]: the operations thread t calls, and for which addresses

Null      == "null"
NoKey     == -1          \* RTREE_LEAFKEY_INVALID
Unlocked  == "unlocked"
NoLeaf    == 0           \* leaves are numbered in the order they are allocated
L2Range   == 0 .. NL2 - 1

Ops == {"rtree_write", "write_acquired", "rtree_clear", "szind_slab_update", "read", "probe"}

ASSUME RtreeAssumption ==
  /\ Leafkey \in [Keys -> LeafKeys] /\ Slot \in [LeafKeys -> Slots]
  /\ Uses \in [Threads -> SUBSET (Ops \X Keys)]
  /\ LeafKeys \subseteq Nat /\ Keys # {} /\ NL2 \in Nat \ {0}
  /\ Null \notin Exts /\ Unlocked \notin Threads

(* The three fields of a leaf element, which share one machine word.        *)
Classes == {"none", "large", "slab"}   \* szind: MAX_PSZ_IDX, some psizeclass, SLAB_SCIND
Words   == [ext : Exts \union {Null}, szind : Classes, slab : BOOLEAN]
Zero    == [ext |-> Null, szind |-> "large", slab |-> FALSE]
Cleared == [ext |-> Null, szind |-> "none", slab |-> FALSE]

(* What clients store: a slab's class is SLAB_SCIND.  Left out are the      *)
(* extents of class MAX_PSZ_IDX that a merge (extent.c:1062) and a          *)
(* registration (extent.c:824) store: nothing here depends on the class.    *)
Given == {w \in Words : w.ext # Null /\ w.szind # "none" /\ (w.slab <=> w.szind = "slab")}

VARIABLES
  root,      \* root[lk]: the child pointer
  elm,       \* elm[n][k]: element k of leaf n
  initLock,
  l1, l2,    \* rtree_ctx_t: cache and l2_cache of each thread
  pc, my,    \* where each thread is, and its call
  said,      \* the answer of a lookup, until the next call
  failed     \* an assert fails

cacheVars == <<l1, l2>>
treeVars  == <<root, elm, initLock>>
vars      == <<root, elm, initLock, l1, l2, pc, my, said, failed>>

Stores        == Ops \ {"read", "probe"}
(* dependent, init_missing                                                  *)
Dependent(op) == op \in {"rtree_clear", "szind_slab_update", "read"}
Inits(op)     == op \in {"rtree_write", "write_acquired"}

NoCall == [op |-> "read", key |-> CHOOSE k \in Keys : TRUE, leaf |-> NoLeaf, word |-> Zero]
Empty  == [key |-> NoKey, leaf |-> NoLeaf]

Init ==
  /\ root = [lk \in LeafKeys |-> NoLeaf]
  /\ elm = <<>>
  /\ initLock = Unlocked
  /\ l1 = [t \in Threads |-> [s \in Slots |-> Empty]]
  /\ l2 = [t \in Threads |-> [i \in L2Range |-> Empty]]
  /\ pc = [t \in Threads |-> "idle"]
  /\ my = [t \in Threads |-> NoCall]
  /\ said = [t \in Threads |-> Zero]
  /\ failed = FALSE

WordOf(k) ==
  IF root[Leafkey[k]] = NoLeaf THEN Zero ELSE elm[root[Leafkey[k]]][k]

-----------------------------------------------------------------------------
(* The caches of one thread                                                 *)

Holds(e, lk) == e.key = lk
HitL1(t, lk) == Holds(l1[t][Slot[lk]], lk)
HitL2(t, lk) == {i \in L2Range : Holds(l2[t][i], lk)}

(* The entry found goes to L1.  The one it replaces goes to L2, one place   *)
(* ahead of where the found one was, whose own place the next takes.        *)
BubbleLost(q, i, e) == [q EXCEPT ![IF i = 0 THEN 0 ELSE i - 1] = e]
Bubble(q, i, e) ==
  IF i = 0 THEN [q EXCEPT ![0] = e] ELSE [q EXCEPT ![i] = q[i - 1], ![i - 1] = e]

(* A leaf found in the tree goes to L1, the entry it replaces to the front  *)
(* of L2, and the last of L2 is dropped.                                    *)
PushOver(q, e) == [q EXCEPT ![0] = e]
Push(q, e)     == [i \in L2Range |-> IF i = 0 THEN e ELSE q[i - 1]]

CacheKeyOnly(t, lk, leaf, q) ==
  /\ l1' = [l1 EXCEPT ![t][Slot[lk]].key = lk]
  /\ l2' = [l2 EXCEPT ![t] = q]
Cache(t, lk, leaf, q) ==
  /\ l1' = [l1 EXCEPT ![t][Slot[lk]] = [key |-> lk, leaf |-> leaf]]
  /\ l2' = [l2 EXCEPT ![t] = q]

-----------------------------------------------------------------------------
(* Calls                                                                    *)

At(k)        == {t \in Threads : pc[t] # "idle" /\ my[t].key = k}
Storing(k)   == {t \in At(k) : my[t].op \in Stores}
Relying(k)   == {t \in At(k) : my[t].op = "read"}

(* Who stores to a page holds the extent it belongs to, and a read that     *)
(* depends on an allocation is made by its owner; extent_lock_from_addr may *)
(* look at any page at any time.                                            *)
May(op, k) ==
  LET isSet == WordOf(k).ext # Null
  IN  \/ op = "probe"
      \/ op = "read" /\ isSet /\ Storing(k) = {}
      \/ /\ op \in Stores /\ Storing(k) = {} /\ Relying(k) = {}
         /\ op = "rtree_write" => ~isSet
         /\ Dependent(op) => isSet

(* rtree_leaf_elm_lookup                                                    *)
Call(t, op, k, w) ==
  LET lk   == Leafkey[k]
      old  == l1[t][Slot[lk]]
      i    == CHOOSE j \in HitL2(t, lk) : \A h \in HitL2(t, lk) : j <= h
      hit  == HitL1(t, lk) \/ HitL2(t, lk) # {}
      leaf == CASE HitL1(t, lk) -> old.leaf
                [] hit /\ ~HitL1(t, lk) -> l2[t][i].leaf
                [] OTHER -> NoLeaf
  IN  /\ pc[t] = "idle" /\ <<op, k>> \in Uses[t] /\ May(op, k)
      /\ my' = [my EXCEPT ![t] = [op |-> op, key |-> k, leaf |-> leaf, word |-> w]]
      /\ pc' = [pc EXCEPT ![t] = IF hit THEN "act" ELSE "child"]
      /\ failed' = (hit /\ leaf = NoLeaf)
      /\ IF hit /\ ~HitL1(t, lk)
         THEN Cache(t, lk, leaf, Bubble(l2[t], i, old))
         ELSE UNCHANGED cacheVars
      /\ said' = [said EXCEPT ![t] = Zero]
      /\ UNCHANGED treeVars

Answer(t, w) ==
  /\ said' = [said EXCEPT ![t] = w]
  /\ pc' = [pc EXCEPT ![t] = "idle"]
  /\ my' = [my EXCEPT ![t] = NoCall]

(* A look at a page whose leaf is not there is over.                        *)
KeepLooking(t) == UNCHANGED <<pc, my, said>>
GiveUp(t)      == Answer(t, Zero)

(* rtree_child_leaf_tryread                                                 *)
Child(t) ==
  LET lk   == Leafkey[my[t].key]
      leaf == root[lk]
      op   == my[t].op
  IN  /\ pc[t] = "child"
      /\ failed' = (leaf = NoLeaf /\ Dependent(op))
      /\ CASE leaf # NoLeaf ->
                /\ Cache(t, lk, leaf, Push(l2[t], l1[t][Slot[lk]]))
                /\ my' = [my EXCEPT ![t].leaf = leaf]
                /\ pc' = [pc EXCEPT ![t] = "act"]
                /\ UNCHANGED said
           [] leaf = NoLeaf /\ Inits(op) ->
                pc' = [pc EXCEPT ![t] = "lock"] /\ UNCHANGED <<cacheVars, my, said>>
           [] OTHER -> GiveUp(t) /\ UNCHANGED cacheVars
      /\ UNCHANGED treeVars

(* rtree_leaf_init: another thread may have been faster.                    *)
LockInit(t) ==
  /\ pc[t] = "lock"
  /\ initLock = Unlocked
  /\ initLock' = t
  /\ pc' = [pc EXCEPT ![t] = "make"]
  /\ failed' = FALSE
  /\ UNCHANGED <<root, elm, cacheVars, my, said>>

NoUnlockInit == UNCHANGED initLock
UnlockInit   == initLock' = Unlocked

MakeAgain(lk) == TRUE
Make(lk)      == root[lk] = NoLeaf

MakeLeaf(t) ==
  LET lk   == Leafkey[my[t].key]
      leaf == IF Make(lk) THEN Len(elm) + 1 ELSE root[lk]
  IN  /\ pc[t] = "make"
      /\ elm' = IF Make(lk) THEN Append(elm, [k \in Keys |-> Zero]) ELSE elm
      /\ root' = [root EXCEPT ![lk] = leaf]
      /\ UnlockInit
      /\ Cache(t, lk, leaf, Push(l2[t], l1[t][Slot[lk]]))
      /\ my' = [my EXCEPT ![t].leaf = leaf]
      /\ pc' = [pc EXCEPT ![t] = "act"]
      /\ failed' = FALSE
      /\ UNCHANGED said

-----------------------------------------------------------------------------
(* What is done with the element                                            *)

Put(t, w) == elm' = [elm EXCEPT ![my[t].leaf][my[t].key] = w]

Finish(t) ==
  /\ pc' = [pc EXCEPT ![t] = "idle"]
  /\ my' = [my EXCEPT ![t] = NoCall]

(* rtree_read and its kin: one load of the word.                            *)
Look(t) ==
  /\ pc[t] = "act" /\ my[t].op \in {"read", "probe"}
  /\ Answer(t, elm[my[t].leaf][my[t].key])
  /\ failed' = FALSE
  /\ UNCHANGED <<treeVars, cacheVars>>

(* rtree_write, rtree_clear and extent_rtree_write_acquired.                *)
Write(t) ==
  LET op  == my[t].op
      old == elm[my[t].leaf][my[t].key]
  IN  /\ pc[t] = "act" /\ op \in Stores \ {"szind_slab_update"}
      /\ failed' = \/ op = "rtree_write" /\ old.ext # Null
                   \/ op = "rtree_clear" /\ old.ext = Null
      /\ Put(t, my[t].word)
      /\ Finish(t)
      /\ UNCHANGED <<root, initLock, cacheVars, said>>

(* rtree_leaf_elm_szind_slab_update changes the word twice.                 *)
TakeSlab(w, x)  == [w EXCEPT !.slab = x.slab]
TakeClassStale(w, x) == [w EXCEPT !.szind = x.szind, !.slab = FALSE]
TakeClass(w, x) == [w EXCEPT !.szind = x.szind]

UpdateSlab(t) ==
  /\ pc[t] = "act" /\ my[t].op = "szind_slab_update"
  /\ Put(t, TakeSlab(elm[my[t].leaf][my[t].key], my[t].word))
  /\ pc' = [pc EXCEPT ![t] = "class"]
  /\ failed' = FALSE
  /\ UNCHANGED <<root, initLock, cacheVars, my, said>>

UpdateClass(t) ==
  /\ pc[t] = "class"
  /\ Put(t, TakeClass(elm[my[t].leaf][my[t].key], my[t].word))
  /\ Finish(t)
  /\ failed' = FALSE
  /\ UNCHANGED <<root, initLock, cacheVars, said>>

-----------------------------------------------------------------------------
(* The words a call may carry: rtree_write is called for the pages inside a *)
(* slab only, extent_rtree_write_acquired to enter an extent and, with no   *)
(* extent, to take it out again.                                            *)
Carries(op, k) ==
  CASE op = "rtree_clear" -> {Cleared}
    [] op = "rtree_write" -> {w \in Given : w.slab}
    [] op = "szind_slab_update" -> {w \in Given : w.ext = WordOf(k).ext}
    [] op \in {"read", "probe"} -> {Zero}
    [] OTHER -> Given \union {Cleared}

Inside(t) ==
  Child(t) \/ LockInit(t) \/ MakeLeaf(t) \/ Look(t) \/ Write(t) \/ UpdateSlab(t) \/ UpdateClass(t)

Step(t) ==
  \/ \E use \in Uses[t] : \E w \in Carries(use[1], use[2]) : Call(t, use[1], use[2], w)
  \/ Inside(t)

Next == ~failed /\ \E t \in Threads : Step(t)

Spec == Init /\ [][Next]_vars

(* A thread inside a call runs on; nobody has to call.                      *)
FairSpec == Spec /\ \A t \in Threads : WF_vars(~failed /\ Inside(t))

-----------------------------------------------------------------------------
(* Properties                                                               *)

(* Types; init_lock is held only by a thread inside rtree_leaf_init.        *)
Entries == [key : LeafKeys \union {NoKey}, leaf : Nat]
Calls   == [op : Ops, key : Keys, leaf : Nat, word : Words]

TypeOK ==
  /\ root \in [LeafKeys -> Nat]
  /\ elm \in Seq([Keys -> Words])
  /\ initLock \in Threads \union {Unlocked}
  /\ l1 \in [Threads -> [Slots -> Entries]]
  /\ l2 \in [Threads -> [L2Range -> Entries]]
  /\ pc \in [Threads -> {"idle", "child", "lock", "make", "act", "class"}]
  /\ my \in [Threads -> Calls]
  /\ said \in [Threads -> Words]
  /\ failed \in BOOLEAN
  /\ initLock # Unlocked => pc[initLock] = "make"

(* No assert of rtree.h or rtree.c fails: a cached entry has a leaf, a      *)
(* lookup that depends on an allocation finds one, and rtree_write and      *)
(* rtree_clear find the element unset and set.                              *)
AssertsHold == ~failed

(* What a thread has cached is what the tree says, although the tree grows  *)
(* under other threads' hands and nothing is ever invalidated.              *)
Agrees(e) == e.key # NoKey => e.leaf # NoLeaf /\ root[e.key] = e.leaf
CachesAgree ==
  \A t \in Threads :
    /\ \A s \in Slots : Agrees(l1[t][s])
    /\ \A i \in L2Range : Agrees(l2[t][i])

(* The asserts at rtree.c:274: a leaf is in one place of a thread's caches. *)
CachedOnce ==
  \A t \in Threads :
    /\ \A s \in Slots, i \in L2Range : l1[t][s].key # NoKey => l1[t][s].key # l2[t][i].key
    /\ \A i, j \in L2Range : i # j /\ l2[t][i].key # NoKey => l2[t][i].key # l2[t][j].key
    /\ \A r, s \in Slots : r # s /\ l1[t][r].key # NoKey => l1[t][r].key # l1[t][s].key

(* Every leaf that was allocated is in the tree, at one place: two threads  *)
(* that miss the same leaf never lose what one of them wrote.               *)
LeavesKept ==
  \A n \in 1 .. Len(elm) : \E lk \in LeafKeys :
    root[lk] = n /\ \A other \in LeafKeys \ {lk} : root[other] # n

(* A hit keeps every leaf cached, and a miss loses at most the last of L2.  *)
Cached(t) == {l1[t][s].key : s \in Slots} \union {l2[t][i].key : i \in L2Range}
OnlyLastEvicted ==
  [][\A t \in Threads :
       Cached(t) \ Cached(t)' \subseteq {NoKey, IF pc[t] = "idle" THEN NoKey ELSE l2[t][NL2 - 1].key}]_vars

(* Through its caches every thread sees one shared map.                     *)
Question(t) ==
  IF pc[t] = "idle" THEN [op |-> "none", key |-> NoCall.key, word |-> Zero]
  ELSE [op   |-> IF my[t].op \in Stores THEN "store" ELSE "look",
        key  |-> my[t].key, word |-> my[t].word]

Map == INSTANCE PageMap WITH
  Part  <- TakeSlab,
  map   <- [k \in Keys |-> WordOf(k)],
  asked <- [t \in Threads |-> Question(t)]
MapSpec == Map!Spec

(* Every call returns, also when two threads want to make the same leaf.    *)
CallsReturn == \A t \in Threads : (pc[t] # "idle") ~> (pc[t] = "idle" \/ failed)
=============================================================================
