------------------------------ MODULE LRUCache ------------------------------
(***************************************************************************)
(* TableCache over one shard of ShardedLRUCache: threads get a reader for  *)
(* an SSTable, hold it and release it, while others evict and prune.  The  *)
(* shards share nothing.  Each critical section of mu_ is one step; what   *)
(* TableCache::get does between lookup() and insert() is outside of it.    *)
(*                                                                         *)
(* A handle is a number: the order in which insert() allocated it.         *)
(***************************************************************************)
EXTENDS Integers, Sequences, FiniteSets, FiniteSetsExt, Functions

CONSTANTS
    Thread,      \* threads that use the cache
    Id,          \* SSTable ids, the cache's keys
    Charge(_),   \* approximate_memory_usage of the reader of an id
    Capacities,  \* what capacity_ of a shard may be; 0 turns caching off
    MaxHandle,   \* bound: handles allocated
    none

Handle == 1..MaxHandle

ASSUME CacheAssumption ==
    /\ Capacities \subseteq Nat /\ MaxHandle \in Nat
    /\ \A i \in Id : Charge(i) \in Nat
    /\ none \notin Handle /\ none \notin Id

VARIABLES
    capacity, \* capacity_, set once when the cache is built
    cache,  \* the LRUCache object
    key,    \* [Handle -> its key]
    next,   \* the next handle malloc returns
    want,   \* [Thread -> the id a get() that missed is opening]
    held    \* [Thread -> the handle the thread must release]

vars == <<capacity, cache, key, next, want, held>>

Cache ==
    [table : [Id -> Handle \cup {none}],     \* table_
     lru : Seq(Handle),                      \* lru_: unpinned, oldest first
     in_use : SUBSET Handle,                 \* in_use_: pinned by a client
     usage : Nat,                            \* usage_
     refs : [Handle -> Nat],
     in_cache : SUBSET Handle,
     deleted : [Handle -> Nat]]              \* how often the deleter ran

TypeOK ==
    /\ capacity \in Capacities
    /\ cache \in Cache
    /\ key \in [Handle -> Id \cup {none}]
    /\ next \in 1..MaxHandle + 1
    /\ want \in [Thread -> Id \cup {none}]
    /\ held \in [Thread -> Handle \cup {none}]

Init ==
    /\ capacity \in Capacities
    /\ cache = [table |-> [i \in Id |-> none], lru |-> <<>>, in_use |-> {},
                usage |-> 0, refs |-> [h \in Handle |-> 0], in_cache |-> {},
                deleted |-> [h \in Handle |-> 0]]
    /\ key = [h \in Handle |-> none]
    /\ next = 1
    /\ want = [t \in Thread |-> none]
    /\ held = [t \in Thread |-> none]

-----------------------------------------------------------------------------
(***************************************************************************)
(* The private operations, on a cache object c.                            *)
(***************************************************************************)
\* e->prev and e->next become neighbours; the other entries keep their order.
Unlink(list, h) ==
    LET i == CHOOSE i \in DOMAIN list : list[i] = h
    IN  IF h \in Range(list)
        THEN SubSeq(list, 1, i - 1) \o SubSeq(list, i + 1, Len(list))
        ELSE list

LRU_remove(c, h) ==
    [c EXCEPT !.lru = Unlink(@, h), !.in_use = @ \ {h}]

\* Mutant of Ref: a hit leaves the entry among the unpinned ones.
RefInPlace(c, h) == [c EXCEPT !.refs[h] = @ + 1]

Ref(c, h) ==
    LET pinned == IF c.refs[h] = 1 /\ h \in c.in_cache
                  THEN [LRU_remove(c, h) EXCEPT !.in_use = @ \cup {h}]
                  ELSE c
    IN  [pinned EXCEPT !.refs[h] = @ + 1]

\* Mutant of Unref: the entry is not freed with its last reference.
UnrefLeaks(c, h) ==
    LET less == [c EXCEPT !.refs[h] = @ - 1]
    IN  IF less.refs[h] = 1 /\ h \in c.in_cache
        THEN [LRU_remove(less, h) EXCEPT !.lru = Append(@, h)]
        ELSE less

Unref(c, h) ==
    LET less == [c EXCEPT !.refs[h] = @ - 1]
    IN  IF less.refs[h] = 0
        THEN [less EXCEPT !.deleted[h] = @ + 1]
        ELSE IF less.refs[h] = 1 /\ h \in c.in_cache
        THEN [LRU_remove(less, h) EXCEPT !.lru = Append(@, h)]
        ELSE less

\* Mutant of FinishErase: the charge is not given back.
FinishEraseCharged(c, h) ==
    Unref([LRU_remove(c, h) EXCEPT !.in_cache = @ \ {h}], h)

FinishErase(c, h) ==
    Unref([LRU_remove(c, h) EXCEPT !.in_cache = @ \ {h},
                                   !.usage = @ - Charge(key[h])], h)

\* table_.remove(key) and finish_erase of what it returned.
EraseKey(c, i) ==
    IF c.table[i] = none THEN c
    ELSE FinishErase([c EXCEPT !.table[i] = none], c.table[i])

\* The body of the loops of insert and prune: erase what lru_.next points to.
EraseNext(c) == EraseKey(c, key[Head(c.lru)])

\* The loop's body n times.
EraseOldest(c, n) ==
    LET after[k \in 0..n] == IF k = 0 THEN c ELSE EraseNext(after[k - 1])
    IN  after[n]

\* Mutant of Evicted: eviction by count, one entry for each insert.
EvictOne(c) == IF c.usage > capacity THEN EraseOldest(c, Min({1, Len(c.lru)}))
               ELSE c

\* insert's eviction loop: until the charge fits or nothing is unpinned.
Evicted(c) ==
    EraseOldest(c, Min({n \in 0..Len(c.lru) :
                          \/ EraseOldest(c, n).usage <= capacity
                          \/ n = Len(c.lru)}))

\* insert into a cache that caches: the caller's reference and the table's.
\* An entry of the same key is erased, and stays alive while it is pinned.
Inserted(c, h, i) ==
    LET e == [c EXCEPT !.refs[h] = 2, !.in_cache = @ \cup {h},
                       !.in_use = @ \cup {h}, !.usage = @ + Charge(i),
                       !.table[i] = h]
    IN  IF c.table[i] = none THEN e ELSE FinishErase(e, c.table[i])

-----------------------------------------------------------------------------
(***************************************************************************)
(* TableCache::get.                                                        *)
(***************************************************************************)
Idle(t) == want[t] = none /\ held[t] = none

Hit(t, i) ==
    /\ Idle(t) /\ cache.table[i] # none
    /\ cache' = Ref(cache, cache.table[i])
    /\ held' = [held EXCEPT ![t] = cache.table[i]]
    /\ UNCHANGED <<capacity, key, next, want>>

Miss(t, i) ==
    /\ Idle(t) /\ cache.table[i] = none
    /\ want' = [want EXCEPT ![t] = i]
    /\ UNCHANGED <<capacity, cache, key, next, held>>

\* SSTableReader::create fails: nothing was inserted.
OpenFails(t) ==
    /\ want[t] # none
    /\ want' = [want EXCEPT ![t] = none]
    /\ UNCHANGED <<capacity, cache, key, next, held>>

\* The reader is open: insert it, whatever others did meanwhile.
Insert(t) ==
    /\ want[t] # none /\ next \in Handle
    /\ key' = [key EXCEPT ![next] = want[t]]
    /\ cache' = IF capacity > 0 THEN Evicted(Inserted(cache, next, want[t]))
                ELSE [cache EXCEPT !.refs[next] = 1]
    /\ held' = [held EXCEPT ![t] = next]
    /\ want' = [want EXCEPT ![t] = none]
    /\ next' = next + 1
    /\ UNCHANGED capacity

\* The shared_ptr's deleter.
Release(t) ==
    /\ held[t] # none
    /\ cache' = Unref(cache, held[t])
    /\ held' = [held EXCEPT ![t] = none]
    /\ UNCHANGED <<capacity, key, next, want>>

\* TableCache::evict, from reclaim().
Evict(i) ==
    /\ cache.table[i] # none
    /\ cache' = EraseKey(cache, i)
    /\ UNCHANGED <<capacity, key, next, want, held>>

Prune ==
    /\ cache.lru # <<>>
    /\ cache' = EraseOldest(cache, Len(cache.lru))
    /\ UNCHANGED <<capacity, key, next, want, held>>

Next ==
    \/ \E t \in Thread : \/ \E i \in Id : Hit(t, i) \/ Miss(t, i)
                         \/ OpenFails(t) \/ Insert(t) \/ Release(t)
    \/ \E i \in Id : Evict(i)
    \/ Prune

Spec == Init /\ [][Next]_vars

-----------------------------------------------------------------------------
(***************************************************************************)
(* Properties.                                                             *)
(***************************************************************************)
Holders(h) == {t \in Thread : held[t] = h}

\* A reader that someone holds was not deleted, one that nobody can reach any
\* more was, and none is deleted twice, whatever replaced or evicted it.
DeletedWhenUnreachable ==
    \A h \in 1..(next - 1) :
        cache.deleted[h] =
            IF h \in cache.in_cache \/ Holders(h) # {} THEN 0 ELSE 1

\* The entry's reference count, its list and the table agree: an entry on
\* lru_ is evictable, so nobody holds it, and one on in_use_ is held.
ListsMatchHolders ==
    /\ Range(cache.lru) = {h \in cache.in_cache : Holders(h) = {}}
    /\ cache.in_use = cache.in_cache \ Range(cache.lru)
    /\ IsInjective(cache.lru)
    /\ cache.in_cache = {cache.table[i] : i \in Id} \ {none}

\* usage_ is the charge of the entries in the table, not one unit more or
\* less: a drift would stop the cache from caching, or from evicting.
UsageIsCharge ==
    cache.usage = MapThenSumSet(LAMBDA h : Charge(key[h]), cache.in_cache)

\* The capacity is soft only as far as it has to be: insert() leaves more
\* than the capacity charged only when every entry is held.
InsertEvictsEnough ==
    [][next' # next => cache'.usage <= capacity \/ cache'.lru = <<>>]_vars
=============================================================================
