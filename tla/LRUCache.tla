------------------------------ MODULE LRUCache ------------------------------
(***************************************************************************)
(* The page cache of the RDMA memory pool: DSMEngine::ShardedLRUCache with *)
(* its LRUCache shards (src/backend/storage/DSMEngine/cache.cc) and the    *)
(* free list of page frames the shards share (lru.hh).                     *)
(*                                                                         *)
(* Every operation of a shard runs under the shard's SpinMutex, so each is *)
(* one action.  The free list has its own mutex, taken inside pop_front    *)
(* only, at the very end of an insertion.  Callers pass value = nullptr,   *)
(* charge = 1 and no deleter, as every call in the repository does, so an  *)
(* inserted handle gets its frame from the entry it evicts, or from the    *)
(* free list.                                                              *)
(***************************************************************************)
EXTENDS Integers, Sequences, FiniteSets, Functions

CONSTANTS
  Keys,        \* page ids (KeyType)
  Handles,     \* addresses operator new can return for an LRUHandle
  Threads,     \* callers; each holds at most one handle at a time
  NumShards,   \* kNumShards
  NumFrames,   \* page frames given to the free list; also the capacity
  ShardOf,     \* Shard(HashKeyType(key)), a function on Keys
  NULL

Shards == 0 .. NumShards - 1
Frames == 1 .. NumFrames

\* NULL is no handle, no page frame and no key.
ASSUME ConstantsAssumption ==
  /\ NumShards \in Nat \ {0}
  /\ NumFrames \in Nat
  /\ ShardOf \in [Keys -> Shards]
  /\ NULL \notin Handles \cup Frames \cup Keys
  /\ IsFiniteSet(Threads)
  /\ IsFiniteSet(Handles)

\* ShardedLRUCache's constructor: shard s gets (capacity + s) / kNumShards.
Capacity(s) == (NumFrames + s) \div NumShards

VARIABLES
  live,      \* allocated LRUHandles; the fields of the others are NULL or 0
  key,       \* LRUHandle::page_id
  value,     \* LRUHandle::value, the page frame
  refs,      \* LRUHandle::refs
  in_cache,  \* the handles whose in_cache flag is set
  table,     \* each shard's HandleTable; a key belongs to one shard only
  lru,       \* each shard's lru_ list, oldest entry first
  in_use,    \* the shards' in_use_ lists; their order is never read
  usage,     \* usage_ of each shard
  freelist,  \* FreeList::list_
  held       \* the handle each caller has got and not released

cacheVars ==
  <<live, key, value, refs, in_cache, table, lru, in_use, usage, freelist, held>>

shardOf(h) == ShardOf[key[h]]

\* The field f of the handles, once those in the set S are deleted.
Free(f, S) == [h \in Handles |-> IF h \in S THEN NULL ELSE f[h]]

(***************************************************************************)
(* Allocation: allocate_page_array pushes every frame on the free list and *)
(* creates an empty cache.                                                 *)
(***************************************************************************)
CacheInit ==
  /\ live = {}
  /\ key = [h \in Handles |-> NULL]
  /\ value = [h \in Handles |-> NULL]
  /\ refs = [h \in Handles |-> 0]
  /\ in_cache = {}
  /\ table = [k \in Keys |-> NULL]
  /\ lru = [s \in Shards |-> <<>>]
  /\ in_use = {}
  /\ usage = [s \in Shards |-> 0]
  /\ freelist = [i \in Frames |-> i]
  /\ held = [t \in Threads |-> NULL]

-----------------------------------------------------------------------------
(***************************************************************************)
(* The circular lists.                                                     *)
(***************************************************************************)
\* LRU_Remove: unlink e from the list s, if e is on it.
LRU_Remove(s, e) ==
  IF e \in Range(s)
    THEN LET p == CHOOSE i \in 1 .. Len(s) : s[i] = e
         IN  [i \in 1 .. Len(s) - 1 |-> IF i < p THEN s[i] ELSE s[i + 1]]
    ELSE s

\* LRU_Append: e becomes the newest entry of s.
LRU_Append(s, e) == Append(s, e)

\* The list without its n oldest entries.
DropOldest(s, n) == SubSeq(s, n + 1, Len(s))

-----------------------------------------------------------------------------
(***************************************************************************)
(* Lookup and Release.                                                     *)
(***************************************************************************)
\* Faulty variant: the entry stays on lru_ while it is in use.
FaultyRefKeepsOnLru(t, e) ==
  /\ refs' = [refs EXCEPT ![e] = @ + 1]
  /\ held' = [held EXCEPT ![t] = e]
  /\ UNCHANGED <<live, key, value, in_cache, table, lru, in_use, usage, freelist>>

\* Faulty variant: a second reference to an entry in use is not counted.
FaultyRefCountsOnce(t, e) ==
  /\ refs' = [refs EXCEPT ![e] = IF @ = 1 THEN 2 ELSE @]
  /\ IF refs[e] = 1 /\ e \in in_cache
       THEN /\ lru' = [lru EXCEPT ![shardOf(e)] = LRU_Remove(@, e)]
            /\ in_use' = in_use \cup {e}
       ELSE UNCHANGED <<lru, in_use>>
  /\ held' = [held EXCEPT ![t] = e]
  /\ UNCHANGED <<live, key, value, in_cache, table, usage, freelist>>

\* Ref(e), on behalf of caller t: an entry nobody used leaves lru_ for in_use_.
Ref(t, e) ==
  /\ refs' = [refs EXCEPT ![e] = @ + 1]
  /\ IF refs[e] = 1 /\ e \in in_cache
       THEN /\ lru' = [lru EXCEPT ![shardOf(e)] = LRU_Remove(@, e)]
            /\ in_use' = in_use \cup {e}
       ELSE UNCHANGED <<lru, in_use>>
  /\ held' = [held EXCEPT ![t] = e]
  /\ UNCHANGED <<live, key, value, in_cache, table, usage, freelist>>

\* LRUCache::Lookup: nullptr, and no effect, when the key has no mapping.
Lookup(t, k) ==
  /\ held[t] = NULL
  /\ IF table[k] # NULL THEN Ref(t, table[k]) ELSE UNCHANGED cacheVars

\* Faulty variant: a handle that left the cache is deleted one reference early.
FaultyReleaseEarly(t) ==
  LET e == held[t]
      n == refs[e] - 1
      gone == IF n = 0 \/ (n = 1 /\ e \notin in_cache) THEN {e} ELSE {}
  IN  /\ e # NULL
      /\ refs' = [refs EXCEPT ![e] = n]
      /\ live' = live \ gone
      /\ key' = Free(key, gone)
      /\ value' = Free(value, gone)
      /\ IF n = 1 /\ e \in in_cache
           THEN /\ in_use' = in_use \ {e}
                /\ lru' = [lru EXCEPT ![shardOf(e)] = LRU_Append(@, e)]
           ELSE UNCHANGED <<lru, in_use>>
      /\ held' = [held EXCEPT ![t] = NULL]
      /\ UNCHANGED <<in_cache, table, usage, freelist>>

\* LRUCache::Release, whose body is Unref: the last reference deletes the
\* handle; when only the cache's reference is left, the entry becomes the
\* newest of lru_.
Release(t) ==
  LET e == held[t]
      n == refs[e] - 1
      gone == IF n = 0 THEN {e} ELSE {}
  IN  /\ e # NULL
      /\ refs' = [refs EXCEPT ![e] = n]
      /\ live' = live \ gone
      /\ key' = Free(key, gone)
      /\ value' = Free(value, gone)
      /\ IF n = 1 /\ e \in in_cache
           THEN /\ in_use' = in_use \ {e}
                /\ lru' = [lru EXCEPT ![shardOf(e)] = LRU_Append(@, e)]
           ELSE UNCHANGED <<lru, in_use>>
      /\ held' = [held EXCEPT ![t] = NULL]
      /\ UNCHANGED <<in_cache, table, usage, freelist>>

-----------------------------------------------------------------------------
(***************************************************************************)
(* Insertion, with the eviction loop.                                      *)
(***************************************************************************)
Caching(k) == Capacity(ShardOf[k]) > 0

\* Faulty variant: the entry of the same key is not erased.
FaultyDuplicate(k) == NULL

\* Faulty variant: the hash table compares hashes and not keys, so that an
\* insertion replaces an entry of another key.
FaultyDuplicateByHash(k) ==
  LET same == {h \in in_use : shardOf(h) = ShardOf[k]}
  IN  IF Caching(k) /\ same # {} THEN CHOOSE h \in same : TRUE ELSE NULL

\* What table_.Insert(e) returns: the entry of the same key, to be erased.
Duplicate(k) == IF Caching(k) THEN table[k] ELSE NULL

\* Faulty variant: an entry that is replaced still counts.
FaultyUsedKeepsReplaced(k) == usage[ShardOf[k]] + (IF Caching(k) THEN 1 ELSE 0)

\* The shard's lru_ and usage_ when the eviction loop starts.
UnusedEntries(k) == LRU_Remove(lru[ShardOf[k]], Duplicate(k))
Used(k) == usage[ShardOf[k]] + (IF Caching(k) /\ Duplicate(k) = NULL THEN 1 ELSE 0)

\* Faulty variant: the loop stops one entry early.
FaultyEvictionsOneLess(k) ==
  LET over == Used(k) - Capacity(ShardOf[k]) - 1
      most == Len(UnusedEntries(k))
  IN  IF over <= 0 THEN 0 ELSE IF over <= most THEN over ELSE most

\* while (usage_ > capacity_ && lru_.next != &lru_): how often its body runs.
Evictions(k) ==
  LET over == Used(k) - Capacity(ShardOf[k])
      most == Len(UnusedEntries(k))
  IN  IF over <= 0 THEN 0 ELSE IF over <= most THEN over ELSE most

\* FreeList::pop_front.
PopFront == IF freelist = <<>> THEN NULL ELSE Head(freelist)

\* Faulty variant: the frame of an evicted entry is not passed on.
FaultyFrameNoHandover(k) == PopFront

\* The new handle's frame in LookupInsert: that of the first entry evicted
\* (BUFFER_HANDOVER) or, should that be nullptr, of the next one that has a
\* frame (e->value == nullptr); from the free list when nothing is evicted.
LookupInsertFrame(k) ==
  LET n == Evictions(k)
      frame(i) == value[UnusedEntries(k)[i]]
      got == {i \in 1 .. n : frame(i) # NULL}
  IN  IF n = 0 THEN PopFront
      ELSE IF got = {} THEN NULL
      ELSE frame(CHOOSE i \in got : \A j \in got : i <= j)

\* Faulty variant: the frame of the replaced entry is passed on, which a
\* caller may still use.
FaultyFrameOfDuplicate(k) ==
  IF Duplicate(k) # NULL THEN value[Duplicate(k)]
  ELSE IF Evictions(k) = 0 THEN PopFront ELSE value[UnusedEntries(k)[1]]

\* In Insert, which has BUFFER_HANDOVER only.
InsertFrame(k) ==
  IF Evictions(k) = 0 THEN PopFront ELSE value[UnusedEntries(k)[1]]

\* The part LookupInsert and Insert share: a new handle e for caller t; what
\* table_.Insert(e) returns for a duplicate key is erased; the oldest entries
\* of the shard are evicted while it is over its capacity; the frame is taken
\* over from them or popped from the free list.  A shard of capacity 0 does
\* not keep the handle.
AddEntry(t, k, e, frame) ==
  LET s == ShardOf[k]
      kept == IF Caching(k) THEN {e} ELSE {}
      n == Evictions(k)
      out == {table[key[UnusedEntries(k)[i]]] : i \in 1 .. n} \cup ({Duplicate(k)} \ {NULL})
      gone == {h \in out : refs[h] = 1}
  IN  /\ live' = (live \ gone) \cup {e}
      /\ key' = [Free(key, gone) EXCEPT ![e] = k]
      /\ value' = [Free(value, gone) EXCEPT ![e] = frame]
      /\ refs' = [h \in Handles |-> IF h = e THEN IF Caching(k) THEN 2 ELSE 1
                                    ELSE IF h \in out THEN refs[h] - 1 ELSE refs[h]]
      /\ in_cache' = (in_cache \ out) \cup kept
      /\ in_use' = (in_use \ out) \cup kept
      /\ table' = [j \in Keys |-> IF Caching(k) /\ j = k THEN e
                                  ELSE IF table[j] \in out THEN NULL ELSE table[j]]
      /\ lru' = [lru EXCEPT ![s] = DropOldest(UnusedEntries(k), n)]
      /\ usage' = [usage EXCEPT ![s] = Used(k) - n]
      /\ freelist' = IF n > 0 \/ freelist = <<>> THEN freelist ELSE Tail(freelist)
      /\ held' = [held EXCEPT ![t] = e]

\* Faulty variant: the table is not searched first.
FaultyLookupInsertBlind(t, k) ==
  /\ held[t] = NULL
  /\ \E e \in Handles \ live : AddEntry(t, k, e, LookupInsertFrame(k))

\* LRUCache::LookupInsert: a hit is a Lookup.
LookupInsert(t, k) ==
  /\ held[t] = NULL
  /\ \/ table[k] # NULL /\ Ref(t, table[k])
     \/ table[k] = NULL /\ \E e \in Handles \ live : AddEntry(t, k, e, LookupInsertFrame(k))

\* LRUCache::Insert: replaces an entry of the same key.
Insert(t, k) ==
  /\ held[t] = NULL
  /\ \E e \in Handles \ live : AddEntry(t, k, e, InsertFrame(k))

-----------------------------------------------------------------------------
(***************************************************************************)
(* Removal.                                                                *)
(***************************************************************************)
\* FinishErase of the entries in the set out, all of shard s, which leaves
\* the shard's list as rest.
FinishErase(s, out, rest) ==
  LET gone == {h \in out : refs[h] = 1}
  IN  /\ live' = live \ gone
      /\ key' = Free(key, gone)
      /\ value' = Free(value, gone)
      /\ refs' = [h \in Handles |-> IF h \in out THEN refs[h] - 1 ELSE refs[h]]
      /\ in_cache' = in_cache \ out
      /\ in_use' = in_use \ out
      /\ table' = [j \in Keys |-> IF table[j] \in out THEN NULL ELSE table[j]]
      /\ lru' = [lru EXCEPT ![s] = rest]
      /\ usage' = [usage EXCEPT ![s] = @ - Cardinality(out)]
      /\ UNCHANGED <<freelist, held>>

\* LRUCache::Erase.
Erase(k) ==
  /\ table[k] # NULL
  /\ FinishErase(ShardOf[k], {table[k]}, LRU_Remove(lru[ShardOf[k]], table[k]))

\* LRUCache::Prune: drop every entry nobody uses.
Prune(s) ==
  /\ lru[s] # <<>>
  /\ FinishErase(s, {table[key[h]] : h \in Range(lru[s])}, <<>>)

CacheNext ==
  \/ \E t \in Threads, k \in Keys :
       Lookup(t, k) \/ LookupInsert(t, k) \/ Insert(t, k)
  \/ \E t \in Threads : Release(t)
  \/ \E k \in Keys : Erase(k)
  \/ \E s \in Shards : Prune(s)

CacheSpec == CacheInit /\ [][CacheNext]_cacheVars
-----------------------------------------------------------------------------
(***************************************************************************)
(* Properties.                                                             *)
(***************************************************************************)
\* The type of every field.
CacheTypeOK ==
  /\ live \subseteq Handles
  /\ key \in [Handles -> Keys \cup {NULL}]
  /\ value \in [Handles -> Frames \cup {NULL}]
  /\ refs \in [Handles -> Nat]
  /\ in_cache \subseteq Handles
  /\ table \in [Keys -> Handles \cup {NULL}]
  /\ lru \in [Shards -> Seq(Handles)]
  /\ in_use \subseteq Handles
  /\ usage \in [Shards -> Nat]
  /\ freelist \in Seq(Frames)
  /\ held \in [Threads -> Handles \cup {NULL}]

Holders(h) == {t \in Threads : held[t] = h}

\* cache.h:44-54 and 327-334: every cached entry is on exactly one list of its
\* own shard, once: lru_ when the cache has the only reference to it, in_use_
\* when a caller has one too.  Handles that left the cache are on neither.
OnOneList ==
  /\ \A s \in Shards :
       /\ Range(lru[s]) = {h \in in_cache : refs[h] = 1 /\ shardOf(h) = s}
       /\ IsInjective(lru[s])
  /\ in_use = {h \in in_cache : refs[h] >= 2}

\* A handle is in the hash table, under its own key, exactly while its in_cache
\* flag is set: FinishErase and table_.Remove always go together.
TableMatchesCache ==
  /\ \A k \in Keys : table[k] # NULL => table[k] \in in_cache /\ key[table[k]] = k
  /\ \A h \in in_cache : h \in live /\ key[h] \in Keys /\ table[key[h]] = h

\* The reference count of an allocated handle is the number of callers that
\* hold it, plus one for the cache (Ref, Unref, "refs for the returned handle").
RefsCounted ==
  \A h \in live :
    refs[h] = Cardinality(Holders(h)) + (IF h \in in_cache THEN 1 ELSE 0)

\* A caller never holds a deleted handle, whatever others evict, erase, prune
\* or replace in the meantime (Unref deletes at refs == 0 only).
HeldIsLive == \A t \in Threads : held[t] # NULL => held[t] \in live

\* usage_ is the number of entries of the shard.
UsageCounted ==
  \A s \in Shards : usage[s] = Cardinality({h \in in_cache : shardOf(h) = s})

\* A shard exceeds its capacity only as far as the callers pin entries, however
\* long they go on: with pinned entries only, the eviction loop of an insertion
\* (cache.cc:182 and 264) ends above capacity_, and entries released later stay
\* until the next insertion.  So the assertion at cache.cc:204 holds where a
\* shard has a frame for each caller, and is else exceeded by pinning alone.
UsageBounded ==
  \A s \in Shards : usage[s] <= Capacity(s) \/ usage[s] <= Cardinality(Threads)

\* A page frame has one owner: no two allocated handles share one, and a frame
\* on the free list belongs to no handle and is there once (BUFFER_HANDOVER
\* passes a frame on from a handle that is deleted in the same step).
FramesExclusive ==
  /\ \A g, h \in live : value[g] # NULL /\ value[g] = value[h] => g = h
  /\ \A h \in live : value[h] \notin Range(freelist)
  /\ IsInjective(freelist)

\* cache.h:39-42: an entry that somebody still holds leaves the cache through
\* Erase or Insert of its own key only: never by eviction, on behalf of
\* whatever other key, and never by Prune.
PinnedLeavesByRequest ==
  [][\A h \in in_cache : h \in live' \ in_cache'
       => Erase(key[h]) \/ \E t \in Threads : Insert(t, key[h])]_cacheVars
=============================================================================
