---------------------------- MODULE MemPoolProofs ---------------------------
(***************************************************************************)
(* The safety properties of MemPool, and that it implements PagePool,      *)
(* proved for every number of pages, frames, shards, handles and workers,  *)
(* as long as no shard has fewer frames than there are workers.            *)
(***************************************************************************)
EXTENDS MemPool, LRUCacheProofs

\* A step that names no prover has 30 seconds of SMT.
USE SMTT(30)

-----------------------------------------------------------------------------
(***************************************************************************)
(* The capacities of the shards add up to no more than the frames.         *)
(***************************************************************************)
\* A share of the frames for each shard, as large as its capacity.
FramesOf(s) == {f \in Frames : (f + s) % NumShards = 0}

\* Multiples of NumShards, in the order of their factors.
LEMMA Multiples ==
  ASSUME NEW N \in Nat \ {0}, NEW i \in Nat, NEW j \in Nat, i < j
  PROVE  i * N \in Nat /\ i * N + N <= j * N /\ (i * N) % N = 0 /\ (i * N) \div N = i
<1>1. i * N \in Nat /\ j * N \in Nat /\ (j - i - 1) * N \in Nat
  OBVIOUS
<1>2. j * N = i * N + N + (j - i - 1) * N
  OBVIOUS
<1> QED BY <1>1, <1>2

\* A shard's share has as many frames as the shard may have entries.
LEMMA ShareOfShard ==
  ASSUME NEW s \in Shards
  PROVE  /\ Capacity(s) \in Nat /\ IsFiniteSet(FramesOf(s))
         /\ Cardinality(FramesOf(s)) = Capacity(s)
<1> DEFINE N == NumShards
           c == (NumFrames + s) \div N
           g == [i \in 1 .. c |-> i * N - s]
<1>1. N \in Nat \ {0} /\ NumFrames \in Nat /\ s \in Nat /\ s < N /\ N = NumShards
  BY ConstantsAssumption DEF Shards
<1>2. c \in Nat /\ c * N <= NumFrames + s /\ NumFrames + s < c * N + N /\ Capacity(s) = c
  BY <1>1 DEF Capacity
<1> HIDE DEF N, c
<1>3. ASSUME NEW i \in 1 .. c
      PROVE  i * N - s \in FramesOf(s)
  <2>1. i * N \in Nat /\ i * N >= N /\ i * N <= c * N /\ (i * N) % N = 0 /\ c * N \in Nat
    <3>1. 0 * N + N <= i * N
      BY <1>1, <1>2, Multiples
    <3>2. i < c => i * N + N <= c * N
      BY <1>1, <1>2, Multiples
    <3>3. (i * N) % N = 0 /\ i * N \in Nat /\ c * N \in Nat
      BY <1>1, <1>2, Multiples, i < i + 1
    <3> QED BY <1>1, <1>2, <3>1, <3>2, <3>3
  <2>2. i * N - s \in Frames
    BY <1>1, <1>2, <2>1 DEF Frames
  <2>3. (i * N - s) + s = i * N
    BY <1>1, <2>1
  <2> QED BY ZenonT(60), <1>1, <2>1, <2>2, <2>3 DEF FramesOf
<1>4. ASSUME NEW f \in FramesOf(s)
      PROVE  \E i \in 1 .. c : g[i] = f
  <2>1. f \in Nat /\ f >= 1 /\ f <= NumFrames /\ (f + s) % N = 0
    BY <1>1 DEF FramesOf, Frames
  <2>2. PICK i \in Nat : i = (f + s) \div N /\ i * N = f + s
    BY <1>1, <2>1
  <2>3. i >= 1
    BY <1>1, <2>1, <2>2
  <2>4. i <= c
    <3>1. c < i => c * N + N <= i * N
      BY ZenonT(60), <1>1, <1>2, Multiples
    <3> QED BY <1>1, <1>2, <2>1, <2>2, <3>1
  <2> QED BY <1>1, <1>2, <2>1, <2>2, <2>3, <2>4
<1>5. \A i, j \in 1 .. c : g[i] = g[j] => i = j
  <2> SUFFICES ASSUME NEW i \in 1 .. c, NEW j \in 1 .. c, i < j
               PROVE  i * N - s # j * N - s
    BY <1>2
  <2>1. i * N \in Nat /\ i * N + N <= j * N
    BY <1>2, <1>1, Multiples
  <2> QED BY <1>1, <1>2, <2>1
<1>6. g \in Bijection(1 .. c, FramesOf(s))
  <2>1. g \in [1 .. c -> FramesOf(s)]
    BY ZenonT(60), <1>3
  <2> QED BY ZenonT(60), <1>4, <1>5, <2>1 DEF Bijection, Injection, Surjection, IsInjective
<1>7. ExistsBijection(1 .. c, FramesOf(s))
  BY ZenonT(60), <1>6 DEF ExistsBijection
<1>8. IsFiniteSet(1 .. c) /\ Cardinality(1 .. c) = c
  BY <1>2, FS_Interval
<1> QED BY ZenonT(60), <1>2, <1>7, <1>8, FS_Bijection

\* Shares do not overlap.
LEMMA SharesDisjoint ==
  ASSUME NEW r \in Shards, NEW s \in Shards, NEW f \in FramesOf(r), f \in FramesOf(s)
  PROVE  r = s
<1>1. NumShards \in Nat \ {0} /\ r \in 0 .. NumShards - 1 /\ s \in 0 .. NumShards - 1 /\ f \in Nat
  BY ConstantsAssumption DEF Shards, FramesOf, Frames
<1>2. PICK a \in Nat, b \in Nat : f + r = a * NumShards /\ f + s = b * NumShards
  <2>1. (f + r) % NumShards = 0 /\ (f + s) % NumShards = 0
    BY ZenonT(60) DEF FramesOf
  <2>2. \E a \in Nat : f + r = a * NumShards
    <3>1. f + r = ((f + r) \div NumShards) * NumShards /\ (f + r) \div NumShards \in Nat
      BY <1>1, <2>1
    <3> QED BY <3>1
  <2>3. \E b \in Nat : f + s = b * NumShards
    <3>1. f + s = ((f + s) \div NumShards) * NumShards /\ (f + s) \div NumShards \in Nat
      BY <1>1, <2>1
    <3> QED BY ZenonT(60), <3>1
  <2> QED BY ZenonT(60), <2>2, <2>3
<1>3. a < b => f + r + NumShards <= f + s
  BY <1>1, <1>2, Multiples
<1>4. b < a => f + s + NumShards <= f + r
  BY <1>1, <1>2, Multiples
<1>5. a = b
  BY <1>1, <1>2, <1>3, <1>4
<1> QED BY <1>1, <1>2, <1>5

\* A finite set fits into one that is at least as large.
LEMMA SmallerFits ==
  ASSUME NEW S, NEW T, IsFiniteSet(S), IsFiniteSet(T), Cardinality(S) <= Cardinality(T)
  PROVE  \E f : f \in Injection(S, T)
<1>1. PICK m \in Nat, n \in Nat : m = Cardinality(S) /\ n = Cardinality(T)
  BY ZenonT(60), FS_CardinalityType
<1>2. ExistsBijection(1 .. m, S) /\ ExistsBijection(1 .. n, T)
  BY ZenonT(60), <1>1, FS_CardinalityType
<1>3. PICK e, g : e \in Bijection(1 .. m, S) /\ g \in Bijection(1 .. n, T)
  BY <1>2 DEF ExistsBijection
<1> DEFINE f == [x \in S |-> CHOOSE i \in 1 .. m : e[i] = x]
<1>4. \A x \in S : f[x] \in 1 .. m /\ e[f[x]] = x
  BY ZenonT(60), <1>3 DEF Bijection, Surjection
<1> HIDE DEF f
<1>5. f \in Injection(S, 1 .. n) /\ g \in Injection(1 .. n, T)
  <2>1. 1 .. m \subseteq 1 .. n
    BY <1>1
  <2>2. f \in [S -> 1 .. n]
    BY ZenonT(60), <1>4, <2>1 DEF f
  <2>3. ASSUME NEW x \in S, NEW y \in S, f[x] = f[y] PROVE x = y
    BY ZenonT(60), <1>4, <2>3
  <2> QED BY ZenonT(60), <1>3, <2>2, <2>3 DEF Bijection, Injection, IsInjective
<1>6. [x \in S |-> g[f[x]]] \in Injection(S, T)
  BY <1>5 DEF Injection, IsInjective
<1> QED BY ZenonT(60), <1>6

\* A shard that is not full implies that the free list is not empty, if no
\* shard is beyond its capacity and every handle is cached: the shares of the
\* other shards hold all their entries.
LEMMA FrameLeft ==
  ASSUME CacheInv, FramesInv, WithinCapacity, NEW s \in Shards, usage[s] < Capacity(s)
  PROVE  freelist # <<>>
<1> DEFINE E(r) == {h \in in_cache : shardOf(h) = r}
           fit(r) == CHOOSE f : f \in Injection(E(r), FramesOf(r))
           all == [h \in in_cache |-> fit(shardOf(h))[h]]
<1>1. IsFiniteSet(in_cache) /\ IsFiniteSet(Frames) /\ Cardinality(Frames) \in Nat
  <2>1. IsFiniteSet(Frames)
    BY ConstantsAssumption, FS_Interval DEF Frames
  <2> QED BY ZenonT(60), <2>1, CachedFinite, FS_CardinalityType DEF CacheInv
<1>2. ASSUME NEW r \in Shards
      PROVE  fit(r) \in Injection(E(r), FramesOf(r)) /\ Cardinality(E(r)) = usage[r]
  <2>1. IsFiniteSet(E(r)) /\ Cardinality(E(r)) = usage[r]
    BY ZenonT(60), CachedFinite DEF CacheInv, UsageCounted
  <2>2. IsFiniteSet(FramesOf(r)) /\ Cardinality(E(r)) <= Cardinality(FramesOf(r))
    BY ZenonT(60), <2>1, ShareOfShard DEF WithinCapacity
  <2> HIDE DEF E
  <2>3. \E f : f \in Injection(E(r), FramesOf(r))
    BY ZenonT(60), <2>1, <2>2, SmallerFits
  <2> QED BY ZenonT(60), <2>1, <2>3
<1>3. \A h \in in_cache : shardOf(h) \in Shards /\ h \in E(shardOf(h))
  BY ZenonT(60), CachedRefs
<1> HIDE DEF fit
<1>4. \A r \in Shards : /\ fit(r) \in [E(r) -> FramesOf(r)]
                        /\ \A g, h \in E(r) : fit(r)[g] = fit(r)[h] => g = h
  BY ZenonT(60), <1>2 DEF Injection, IsInjective
<1>5. \A h \in in_cache : all[h] \in FramesOf(shardOf(h))
  BY ZenonT(40), <1>3, <1>4
<1>6. all \in Injection(in_cache, Frames)
  <2>1. all \in [in_cache -> Frames]
    BY <1>3, <1>5 DEF FramesOf
  <2>2. ASSUME NEW g \in in_cache, NEW h \in in_cache, all[g] = all[h]
        PROVE  g = h
    <3>1. shardOf(g) = shardOf(h)
      BY ZenonT(60), <1>3, <1>5, <2>2, SharesDisjoint
    <3>2. g \in E(shardOf(h)) /\ h \in E(shardOf(h))
      BY ZenonT(60), <1>3, <3>1
    <3>3. fit(shardOf(h))[g] = fit(shardOf(h))[h]
      BY ZenonT(60), <2>2, <3>1
    <3> QED BY ZenonT(60), <1>3, <1>4, <3>2, <3>3
  <2> HIDE DEF all
  <2> QED BY <2>1, <2>2 DEF Injection, IsInjective
<1>7. all \notin Surjection(in_cache, Frames)
  <2> SUFFICES ASSUME all \in Surjection(in_cache, Frames)
               PROVE  FALSE
    OBVIOUS
  <2>1. \A f \in Frames : \E h \in in_cache : all[h] = f
    BY ZenonT(60) DEF Surjection
  <2>2. ASSUME NEW f \in FramesOf(s)
        PROVE  \E h \in E(s) : fit(s)[h] = f
    <3>1. PICK h \in in_cache : all[h] = f
      BY ZenonT(60), <2>1 DEF FramesOf
    <3>2. shardOf(h) = s
      BY ZenonT(60), <1>3, <1>5, <3>1, SharesDisjoint
    <3> QED BY ZenonT(60), <3>1, <3>2
  <2>3. fit(s) \in Surjection(E(s), FramesOf(s))
    BY ZenonT(60), <1>4, <2>2 DEF Surjection
  <2>4. IsFiniteSet(FramesOf(s)) /\ Cardinality(FramesOf(s)) = Capacity(s) /\ Capacity(s) \in Nat
    BY ZenonT(60), ShareOfShard
  <2> HIDE DEF E
  <2>5. Cardinality(E(s)) = Cardinality(FramesOf(s))
    BY ZenonT(60), <1>2, <2>3, <2>4, FS_Injection
  <2> QED BY <1>2, <2>4, <2>5 DEF CacheInv, CacheTypeOK
<1> HIDE DEF all
<1>8. Cardinality(in_cache) < Cardinality(Frames)
  <2>1. /\ Cardinality(in_cache) <= Cardinality(Frames)
        /\ Cardinality(in_cache) # Cardinality(Frames)
    BY ZenonT(60), <1>1, <1>6, <1>7, FS_Injection
  <2> QED BY <1>1, <2>1, FS_CardinalityType
<1> SUFFICES ASSUME freelist = <<>> PROVE FALSE
  OBVIOUS
<1> DEFINE own == [h \in in_cache |-> value[h]]
<1>9. own \in Surjection(in_cache, Frames)
  <2>1. Range(freelist) = {}
    BY DEF Range
  <2>2. {value[h] : h \in in_cache} = Frames
    BY ZenonT(60), <2>1 DEF FramesInv
  <2> QED BY ZenonT(60), <2>2 DEF Surjection
<1> HIDE DEF own
<1>10. Cardinality(Frames) <= Cardinality(in_cache)
  BY ZenonT(60), <1>1, <1>9, FS_Surjection
<1> QED BY <1>1, <1>8, <1>10, FS_CardinalityType

-----------------------------------------------------------------------------
(***************************************************************************)
(* What the cache operations do to the pool.                               *)
(***************************************************************************)
\* With a worker there is a frame in every shard, and handing out references
\* does not take a shard over its capacity.
LEMMA ShardsHaveRoom ==
  ASSUME NEW t \in Threads, NEW s \in Shards
  PROVE  Capacity(s) \in Nat /\ Capacity(s) > 0
<1>1. Cardinality(Threads) \in Nat /\ Cardinality(Threads) # 0
  BY ZenonT(60), ConstantsAssumption, FS_CardinalityType, FS_EmptySet
<1>2. Capacity(s) \in Nat
  BY ZenonT(60), ShareOfShard
<1> QED BY <1>1, <1>2, WorkersAssumption

\* The entries of victims, by their place in lru_, are the handles themselves.
LEMMA OutIsVictims ==
  ASSUME CacheInv, NEW k \in Keys, table[k] = NULL
  PROVE  /\ {table[key[UnusedEntries(k)[i]]] : i \in 1 .. Evictions(k)}
              \cup ({Duplicate(k)} \ {NULL}) = Victims(k)
         /\ \A h \in Victims(k) : /\ h \in in_cache /\ refs[h] = 1
                                  /\ \A u \in Threads : held[u] # h
<1>1. \A i \in 1 .. Evictions(k) : LET v == UnusedEntries(k)[i]
                                   IN  /\ v \in in_cache /\ refs[v] = 1
                                       /\ table[key[v]] = v
  BY ZenonT(60), EvictionFacts
<1>2. Duplicate(k) = NULL
  BY DEF Duplicate
<1>3. \A h \in Victims(k) : h \in in_cache /\ refs[h] = 1
  BY <1>1 DEF Victims
<1>4. \A h \in Victims(k) : \A u \in Threads : held[u] # h
  BY ZenonT(60), <1>3, CachedRefs
<1>5. {table[key[UnusedEntries(k)[i]]] : i \in 1 .. Evictions(k)} = Victims(k)
  BY <1>1 DEF Victims
<1> QED BY ZenonT(60), <1>2, <1>3, <1>4, <1>5

\* A miss of LookupInsert: at most one entry leaves, nobody holds it, and the
\* new handle has its frame or one from the free list.
Missed(t, k, e, V) ==
  /\ V \subseteq in_cache
  /\ \A h \in V : \A u \in Threads : held[u] # h
  /\ live' = (live \ V) \cup {e}
  /\ in_cache' = (in_cache \ V) \cup {e}
  /\ \A h \in live \ V : key'[h] = key[h] /\ value'[h] = value[h]
  /\ key'[e] = k
  /\ \A j \in Keys : table'[j] = IF j = k THEN e ELSE IF table[j] \in V THEN NULL ELSE table[j]
  /\ held' = [held EXCEPT ![t] = e]
  /\ value'[e] \in Frames
  /\ value'[e] \in Range(freelist) \cup {value[h] : h \in V}
  /\ Range(freelist') \subseteq Range(freelist)
  /\ Frames \subseteq Range(freelist') \cup {value'[h] : h \in live'}
  /\ WithinCapacity'

\* A miss of LookupInsert is such a step.
LEMMA MissStep ==
  ASSUME CacheInv, CacheInv', FramesInv, WithinCapacity,
         NEW t \in Threads, NEW k \in Keys, held[t] = NULL, table[k] = NULL,
         NEW e \in Handles \ live, AddEntry(t, k, e, LookupInsertFrame(k))
  PROVE  Missed(t, k, e, Victims(k))
<1> DEFINE s == ShardOf[k]
           n == Evictions(k)
           list == UnusedEntries(k)
           V == Victims(k)
           F == LookupInsertFrame(k)
<1>1. s \in Shards /\ Capacity(s) \in Nat /\ Capacity(s) > 0 /\ Caching(k)
  <2>1. s \in Shards
    BY ZenonT(60), ConstantsAssumption
  <2> QED BY ZenonT(60), <2>1, ShardsHaveRoom DEF Caching
<1>2. Used(k) = usage[s] + 1 /\ usage[s] \in Nat /\ usage[s] <= Capacity(s)
  BY ZenonT(60), <1>1 DEF Used, Duplicate, CacheInv, CacheTypeOK, WithinCapacity
<1>3. n \in 0 .. Len(list) /\ list \in Seq(Handles)
  <2>1. n \in 0 .. Len(list)
    BY ZenonT(60), EvictionFacts
  <2>2. list \in Seq(Handles)
    BY ZenonT(60), <1>1, RemoveFromList DEF UnusedEntries, CacheInv, OnOneList, CacheTypeOK
  <2> QED BY ZenonT(60), <2>1, <2>2
<1>4. n <= 1
  <2>1. n = LET over == Used(k) - Capacity(s)
            IN  IF over <= 0 THEN 0 ELSE IF over <= Len(list) THEN over ELSE Len(list)
    BY ZenonT(60) DEF Evictions
  <2>2. Used(k) - Capacity(s) \in Int /\ Used(k) - Capacity(s) <= 1
    BY <1>1, <1>2
  <2>3. Len(list) \in Nat
    BY <1>3
  <2> HIDE DEF n, list, s
  <2> QED BY <2>1, <2>2, <2>3
<1>5. V = {list[i] : i \in 1 .. n}
  BY ZenonT(60) DEF Victims
<1>6. \A h \in V : h \in in_cache /\ refs[h] = 1 /\ \A u \in Threads : held[u] # h
  BY ZenonT(60), OutIsVictims
<1>7. /\ live' = (live \ V) \cup {e}
      /\ key' = [Free(key, V) EXCEPT ![e] = k]
      /\ value' = [Free(value, V) EXCEPT ![e] = F]
      /\ in_cache' = (in_cache \ V) \cup {e}
      /\ table' = [j \in Keys |-> IF j = k THEN e
                                  ELSE IF table[j] \in V THEN NULL ELSE table[j]]
      /\ usage' = [usage EXCEPT ![s] = Used(k) - n]
      /\ freelist' = (IF n > 0 \/ freelist = <<>> THEN freelist ELSE Tail(freelist))
      /\ held' = [held EXCEPT ![t] = e]
  <2> DEFINE out == {table[key[UnusedEntries(k)[i]]] : i \in 1 .. Evictions(k)}
                      \cup ({Duplicate(k)} \ {NULL})
             gone == {h \in out : refs[h] = 1}
  <2>1. out = V
    BY ZenonT(60), OutIsVictims
  <2>2. gone = V
    BY ZenonT(60), <1>6, <2>1
  <2>3. /\ live' = (live \ gone) \cup {e}
        /\ key' = [Free(key, gone) EXCEPT ![e] = k]
        /\ value' = [Free(value, gone) EXCEPT ![e] = F]
        /\ in_cache' = (in_cache \ out) \cup (IF Caching(k) THEN {e} ELSE {})
        /\ table' = [j \in Keys |-> IF Caching(k) /\ j = k THEN e
                                    ELSE IF table[j] \in out THEN NULL ELSE table[j]]
        /\ usage' = [usage EXCEPT ![s] = Used(k) - n]
        /\ freelist' = (IF n > 0 \/ freelist = <<>> THEN freelist ELSE Tail(freelist))
        /\ held' = [held EXCEPT ![t] = e]
    BY ZenonT(60) DEF AddEntry
  <2> HIDE DEF out, gone, V, n, F, s
  <2> QED BY ZenonT(60), <1>1, <2>1, <2>2, <2>3
<1> HIDE DEF n, list, V, F, s
<1>8. WithinCapacity'
  <2>1. UsageBounded
    BY DEF UsageBounded, WithinCapacity
  <2>2. UsageBounded'
    BY ZenonT(60), <2>1, AddEntryBounded DEF F
  <2> SUFFICES ASSUME NEW r \in Shards
               PROVE  usage'[r] <= Capacity(r)
    BY ZenonT(60) DEF WithinCapacity, Capacity
  <2>3. usage'[r] <= Capacity(r) \/ usage'[r] <= Cardinality(Threads)
    BY ZenonT(60), <2>2 DEF UsageBounded, Capacity
  <2>4. usage'[r] \in Nat /\ Capacity(r) \in Nat /\ Cardinality(Threads) \in Nat
    BY ZenonT(60), ShareOfShard, ConstantsAssumption, FS_CardinalityType DEF CacheInv, CacheTypeOK
  <2> QED BY <2>3, <2>4, WorkersAssumption
<1>9. /\ \A h \in live \ V : key'[h] = key[h] /\ value'[h] = value[h]
      /\ key'[e] = k /\ value'[e] = F
  <2>1. \A h \in Handles : /\ key'[h] = IF h = e THEN k ELSE Free(key, V)[h]
                           /\ value'[h] = IF h = e THEN F ELSE Free(value, V)[h]
    BY ZenonT(60), <1>7 DEF Free
  <2>2. \A h \in live \ V : h \in Handles /\ h # e
    BY ZenonT(60) DEF CacheInv, CacheTypeOK
  <2> QED BY <2>1, <2>2, FreeKeeps
<1>10. \A j \in Keys : table'[j] = IF j = k THEN e ELSE IF table[j] \in V THEN NULL ELSE table[j]
  BY ZenonT(60), <1>7
<1>11. V \subseteq in_cache /\ V \subseteq live
  BY ZenonT(60), <1>6 DEF FramesInv
<1>12. /\ F \in Frames /\ F \in Range(freelist) \cup {value[h] : h \in V}
       /\ Range(freelist') \subseteq Range(freelist)
       /\ \A f \in Range(freelist) : f \in Range(freelist') \/ f = F
       /\ \A h \in V : value[h] = F
  <2>1. CASE n = 0
    <3>1. V = {}
      <4>1. 1 .. n = {}
        BY <2>1
      <4> QED BY ZenonT(60), <1>5, <4>1
    <3>2. usage'[s] = usage[s] + 1
      <4>1. usage \in [Shards -> Nat]
        BY ZenonT(60) DEF CacheInv, CacheTypeOK
      <4>2. usage'[s] = Used(k) - n
        BY ZenonT(60), <1>1, <1>7, <4>1
      <4> QED BY <1>2, <2>1, <4>2
    <3>3. usage'[s] <= Capacity(s)
      BY ZenonT(60), <1>1, <1>8 DEF WithinCapacity, Capacity
    <3>4. freelist # <<>>
      <4>1. usage[s] < Capacity(s)
        BY <1>1, <1>2, <3>2, <3>3
      <4> QED BY ZenonT(60), <1>1, <4>1, FrameLeft
    <3>5. F = Head(freelist) /\ freelist' = Tail(freelist) /\ freelist \in Seq(Frames)
      <4>1. freelist \in Seq(Frames)
        BY ZenonT(60) DEF CacheInv, CacheTypeOK
      <4>2. F = Head(freelist)
        BY ZenonT(60), <2>1, <3>4 DEF F, n, LookupInsertFrame, PopFront
      <4>3. ~ (n > 0)
        BY <2>1
      <4> QED BY ZenonT(60), <1>7, <3>4, <4>1, <4>2, <4>3
    <3>6. F \in Frames /\ F \in Range(freelist)
      BY <3>4, <3>5 DEF Range
    <3>7. Range(freelist') \subseteq Range(freelist)
      BY <3>4, <3>5 DEF Range
    <3>8. ASSUME NEW f \in Range(freelist), f # F
          PROVE  f \in Range(freelist')
      <4>1. PICK i \in 1 .. Len(freelist) : f = freelist[i]
        BY <3>5 DEF Range
      <4>2. i # 1 /\ i - 1 \in 1 .. Len(freelist')
        BY <3>4, <3>5, <3>8, <4>1
      <4>3. freelist'[i - 1] = f
        BY <3>4, <3>5, <4>1, <4>2
      <4>4. DOMAIN freelist' = 1 .. Len(freelist')
        BY <3>4, <3>5
      <4> QED BY ZenonT(60), <4>2, <4>3, <4>4 DEF Range
    <3> QED BY ZenonT(60), <3>1, <3>6, <3>7, <3>8
  <2>2. CASE n = 1
    <3>1. V = {list[1]} /\ list[1] \in live
      <4>1. 1 .. n = {1}
        BY <2>2
      <4> QED BY ZenonT(60), <1>5, <1>11, <4>1
    <3>2. value[list[1]] # NULL /\ value[list[1]] \in Frames
      BY ZenonT(60), <3>1 DEF FramesInv, CacheInv, CacheTypeOK
    <3>3. F = value[list[1]]
      <4> DEFINE got == {i \in 1 .. n : value[list[i]] # NULL}
      <4>1. got = {1}
        BY <2>2, <3>2
      <4>2. (CHOOSE i \in got : \A j \in got : i <= j) = 1
        BY <4>1
      <4>3. F = IF n = 0 THEN PopFront ELSE IF got = {} THEN NULL
                ELSE value[list[CHOOSE i \in got : \A j \in got : i <= j]]
        BY ZenonT(60) DEF F, LookupInsertFrame, n, list
      <4> QED BY <2>2, <4>1, <4>2, <4>3
    <3>4. freelist' = freelist
      BY <1>7, <2>2
    <3> QED BY ZenonT(60), <3>1, <3>2, <3>3, <3>4
  <2> QED BY <1>3, <1>4, <2>1, <2>2
<1>13. Frames \subseteq Range(freelist') \cup {value'[h] : h \in live'}
  <2> SUFFICES ASSUME NEW f \in Frames, f \notin Range(freelist')
               PROVE  \E h \in live' : value'[h] = f
    OBVIOUS
  <2>1. e \in live' /\ value'[e] = F
    BY ZenonT(60), <1>7, <1>9
  <2>2. CASE f \in Range(freelist)
    BY ZenonT(60), <1>12, <2>1, <2>2
  <2>3. CASE \E h \in live : f = value[h]
    <3>1. PICK h \in live : f = value[h]
      BY ZenonT(60), <2>3
    <3>2. CASE h \in V
      BY ZenonT(60), <1>12, <2>1, <3>1, <3>2
    <3>3. CASE h \notin V
      BY ZenonT(60), <1>7, <1>9, <3>1, <3>3
    <3> QED BY ZenonT(60), <3>2, <3>3
  <2> QED BY ZenonT(60), <2>2, <2>3 DEF FramesInv
<1> QED BY ZenonT(60), <1>6, <1>7, <1>8, <1>9, <1>10, <1>11, <1>12, <1>13 DEF Missed, V

\* Release of a cached handle deletes nothing.
LEMMA ReleaseStep ==
  ASSUME CacheInv, FramesInv, NEW t \in Threads, Release(t)
  PROVE  /\ live' = live /\ in_cache' = in_cache /\ table' = table
         /\ key' = key /\ value' = value /\ usage' = usage /\ freelist' = freelist
         /\ held' = [held EXCEPT ![t] = NULL]
<1> DEFINE e == held[t]
           n == refs[e] - 1
           gone == IF n = 0 THEN {e} ELSE {}
<1>1. e # NULL /\ e \in in_cache /\ e \in Handles
  BY ZenonT(60) DEF Release, CacheInv, HeldIsLive, FramesInv, CacheTypeOK
<1>2. refs[e] \in Nat /\ refs[e] # 1
  BY ZenonT(60), <1>1, CachedRefs
<1>3. gone = {}
  BY <1>2
<1>4. /\ live' = live \ gone /\ key' = Free(key, gone) /\ value' = Free(value, gone)
      /\ held' = [held EXCEPT ![t] = NULL]
      /\ UNCHANGED <<in_cache, table, usage, freelist>>
  BY ZenonT(60) DEF Release
<1> HIDE DEF gone
<1>5. Free(key, gone) = key /\ Free(value, gone) = value
  BY ZenonT(60), <1>3 DEF Free, CacheInv, CacheTypeOK
<1> QED BY ZenonT(60), <1>3, <1>4, <1>5

-----------------------------------------------------------------------------
(***************************************************************************)
(* The steps of the handlers keep the invariant.                           *)
(***************************************************************************)
\* What a worker has when it has a handle.
LEMMA HandleFacts ==
  ASSUME CacheInv, FramesInv, NEW h \in live
  PROVE  /\ h \in Handles /\ h \in in_cache /\ h # NULL
         /\ value[h] \in Frames /\ key[h] \in Keys
         /\ value[h] \notin Range(freelist)
         /\ \A g \in live : value[g] = value[h] => g = h
BY ConstantsAssumption
   DEF CacheInv, CacheTypeOK, FramesInv, FramesExclusive, TableMatchesCache

\* A step of worker t outside the part that writes its page: the pages stay,
\* and so do the handles of the others; a new handle is one t is to write to.
CacheStep(t) ==
  /\ UNCHANGED <<rw_mtx, page, page_id>>
  /\ \A u \in Threads \ {t} :
       /\ pc'[u] = pc[u] /\ req'[u] = req[u] /\ held'[u] = held[u]
       /\ held[u] # NULL => key'[held[u]] = key[held[u]] /\ value'[held[u]] = value[held[u]]
  /\ live' = in_cache'
  /\ \A h \in live' :
       \/ h \in live /\ key'[h] = key[h] /\ value'[h] = value[h]
       \/ h = held'[t] /\ pc'[t] = "lock" /\ value'[h] \in Frames
  /\ Range(freelist') \subseteq Range(freelist)
  /\ Frames \subseteq Range(freelist') \cup {value'[h] : h \in live'}
  /\ pc[t] \in {"idle", "release"} /\ pc'[t] \in {"idle", "release", "lock"}
  /\ pc'[t] = "idle" => held'[t] = NULL
  /\ pc'[t] = "lock" => held'[t] # NULL /\ req'[t].page_data # NULL
  /\ held'[t] # NULL => req'[t].page_id = key'[held'[t]] /\ req'[t] # NoRequest
  /\ held'[t] = NULL => req'[t].page_data = NULL

\* Such steps keep the invariant of the handlers.
LEMMA CacheStepPreserves ==
  ASSUME CacheInv, PoolInv, CacheInv', PoolTypeOK', WithinCapacity',
         NEW t \in Threads, CacheStep(t)
  PROVE  PoolInv'
<1> USE DEF PoolInv
<1>1. FramesInv'
  <2>1. \A h \in live' : value'[h] \in Frames
    BY HandleFacts DEF CacheStep
  <2>2. \A h \in live' : value'[h] # NULL
    BY ZenonT(60), <2>1, ConstantsAssumption
  <2>3. Range(freelist') \subseteq Frames
    BY DEF CacheStep, FramesInv
  <2>4. Range(freelist') \cup {value'[h] : h \in live'} = Frames
    BY ZenonT(40), <2>1, <2>3 DEF CacheStep
  <2>5. \A f \in Range(freelist') : page'[f][1] = NULL
    BY DEF CacheStep, FramesInv
  <2>6. live' = in_cache'
    BY DEF CacheStep
  <2> QED BY ZenonT(60), <2>2, <2>4, <2>5, <2>6 DEF FramesInv, Range, Frames
<1>2. WorkerInv'
  <2> SUFFICES ASSUME NEW u \in Threads
               PROVE  /\ pc'[u] = "idle" => held'[u] = NULL
                      /\ Writing(u)' => held'[u] # NULL
                      /\ held'[u] # NULL => req'[u].page_id = key'[held'[u]] /\ req'[u] # NoRequest
                      /\ held'[u] = NULL => req'[u].page_data = NULL
                      /\ Writing(u)' => req'[u].page_data # NULL
                      /\ \A h \in Handles : rw_mtx'[h] = u <=> Locked(u)' /\ held'[u] = h
    BY ZenonT(60) DEF WorkerInv, NoRequest, Writing, Locked
  <2>1. CASE u = t
    <3>1. ~ Locked(t) /\ ~ Locked(t)' /\ (Writing(t)' <=> pc'[t] = "lock")
      BY ZenonT(60) DEF CacheStep, Locked, Writing
    <3>2. \A h \in Handles : rw_mtx'[h] # t
      BY ZenonT(60), <3>1 DEF CacheStep, WorkerInv
    <3> QED BY ZenonT(60), <2>1, <3>1, <3>2 DEF CacheStep
  <2>2. CASE u # t
    BY SMTT(20), <2>2 DEF CacheStep, WorkerInv, Writing, Locked
  <2> QED BY ZenonT(60), <2>1, <2>2
<1>3. ContentsInv'
  <2>1. ASSUME NEW u \in Threads, pc'[u] \in {"copy2", "copyid"}
        PROVE  /\ page'[frame(u)'][1] = req'[u]
               /\ pc'[u] = "copyid" => page'[frame(u)'][2] = req'[u]
    <3>1. u # t
      BY ZenonT(40), <2>1 DEF CacheStep
    <3>2. pc[u] = pc'[u] /\ req'[u] = req[u] /\ held'[u] = held[u] /\ held[u] # NULL
      BY ZenonT(40), <2>1, <3>1 DEF CacheStep, WorkerInv, Writing
    <3>3. frame(u)' = frame(u)
      BY ZenonT(40), <3>1, <3>2 DEF CacheStep, frame
    <3> QED BY ZenonT(40), <2>1, <3>2, <3>3 DEF CacheStep, ContentsInv
  <2>2. ASSUME NEW h \in live'
        PROVE  Intact(h)' \/ \E u \in Threads : held'[u] = h /\ Writing(u)'
    <3>1. CASE h = held'[t] /\ pc'[t] = "lock"
      BY ZenonT(60), <3>1 DEF Writing
    <3>2. CASE h \in live /\ key'[h] = key[h] /\ value'[h] = value[h]
      <4>1. CASE Intact(h)
        BY ZenonT(60), <3>2, <4>1 DEF Intact, CacheStep
      <4>2. CASE \E u \in Threads : held[u] = h /\ Writing(u)
        <5>1. PICK u \in Threads : held[u] = h /\ Writing(u)
          BY ZenonT(60), <4>2
        <5>2. u # t
          BY ZenonT(60), <5>1 DEF CacheStep, Writing
        <5> QED BY ZenonT(60), <5>1, <5>2 DEF CacheStep, Writing
      <4> QED BY ZenonT(40), <3>2, <4>1, <4>2 DEF ContentsInv
    <3> QED BY ZenonT(60), <3>1, <3>2 DEF CacheStep
  <2> QED BY ZenonT(40), <2>1, <2>2 DEF ContentsInv, frame
<1> QED BY ZenonT(60), <1>1, <1>2, <1>3

\* What a step of worker t's handler sets keeps its type.
LEMMA StepTypes ==
  ASSUME PoolTypeOK, NEW t \in Threads,
         NEW to \in {"idle", "lock", "copy1", "copy2", "copyid", "release"},
         NEW r \in Requests, pc' = [pc EXCEPT ![t] = to],
         req' = [req EXCEPT ![t] = r], UNCHANGED <<rw_mtx, page, page_id>>,
         down' \in BOOLEAN
  PROVE  PoolTypeOK'
BY DEF PoolTypeOK, Requests, NoRequest, Halves, Frames

\* A hit only takes a reference.
LEMMA HitStep ==
  ASSUME CacheInv, PoolInv, NEW t \in Threads, NEW k \in Keys, held[t] = NULL,
         table[k] # NULL, Ref(t, table[k])
  PROVE  /\ CacheInv' /\ WithinCapacity'
         /\ UNCHANGED <<live, key, value, in_cache, table, usage, freelist>>
         /\ held' = [held EXCEPT ![t] = table[k]]
         /\ table[k] \in live /\ key[table[k]] = k
<1>1. table[k] \in in_cache /\ table[k] \in live /\ key[table[k]] = k
  BY DEF CacheInv, TableMatchesCache
<1>2. CacheInv'
  BY ZenonT(60), <1>1, RefPreserves
<1>3. /\ UNCHANGED <<live, key, value, in_cache, table, usage, freelist>>
      /\ held' = [held EXCEPT ![t] = table[k]]
  BY ZenonT(60) DEF Ref
<1>4. WithinCapacity'
  BY ZenonT(60), <1>3 DEF PoolInv, WithinCapacity, Capacity
<1> QED BY ZenonT(60), <1>1, <1>2, <1>3, <1>4

\* flush_page_handler takes a request and pins an entry.
LEMMA FlushPinPreserves ==
  ASSUME CacheInv, PoolInv, NEW t \in Threads, NEW k \in Keys, NEW d \in Data,
         FlushPin(t, k, d)
  PROVE  CacheInv' /\ PoolInv'
<1> DEFINE r == [page_id |-> k, page_data |-> d]
<1>1. /\ pc[t] = "idle" /\ pc' = [pc EXCEPT ![t] = "lock"]
      /\ req' = [req EXCEPT ![t] = r] /\ LookupInsert(t, k)
      /\ UNCHANGED <<rw_mtx, page, page_id, down>>
  BY DEF FlushPin, At, Take
<1>2. r \in Requests /\ r # NoRequest /\ r.page_id = k /\ r.page_data # NULL
  BY ZenonT(60), WorkersAssumption, ConstantsAssumption DEF Requests, NoRequest
<1>3. CacheInv' /\ held[t] = NULL
  BY ZenonT(60), <1>1, LookupInsertPreserves DEF LookupInsert
<1> HIDE DEF r
<1>4. PoolTypeOK'
  BY ZenonT(40), <1>1, <1>2, StepTypes DEF PoolInv, PoolTypeOK
<1>5. /\ pc'[t] = "lock" /\ req'[t] = r
      /\ \A u \in Threads \ {t} : pc'[u] = pc[u] /\ req'[u] = req[u]
  BY ZenonT(60), <1>1 DEF PoolInv, PoolTypeOK
<1>6. held \in [Threads -> Handles \cup {NULL}] /\ NULL \notin Handles
  BY ZenonT(60), ConstantsAssumption DEF CacheInv, CacheTypeOK
<1>7. CASE table[k] # NULL /\ Ref(t, table[k])
  <2>1. /\ WithinCapacity' /\ UNCHANGED <<live, key, value, in_cache, freelist>>
        /\ held' = [held EXCEPT ![t] = table[k]]
        /\ table[k] \in live /\ key[table[k]] = k
    BY ZenonT(60), <1>3, <1>7, HitStep
  <2>2. held'[t] = table[k] /\ \A u \in Threads \ {t} : held'[u] = held[u]
    BY ZenonT(60), <1>6, <2>1
  <2>3. Frames \subseteq Range(freelist') \cup {value'[h] : h \in live'}
    BY ZenonT(60), <2>1 DEF PoolInv, FramesInv
  <2>4. CacheStep(t)
    BY ZenonT(60), <1>1, <1>2, <1>5, <1>7, <2>1, <2>2, <2>3 DEF CacheStep, PoolInv, FramesInv
  <2> QED BY ZenonT(60), <1>3, <1>4, <2>1, <2>4, CacheStepPreserves
<1>8. ASSUME table[k] = NULL, NEW e \in Handles \ live, AddEntry(t, k, e, LookupInsertFrame(k))
      PROVE  PoolInv'
  <2>1. PICK V : V = Victims(k)
    BY ZenonT(60)
  <2>2. Missed(t, k, e, V)
    BY ZenonT(60), <1>3, <1>8, <2>1, MissStep DEF PoolInv
  <2>3. held'[t] = e /\ e # NULL /\ \A u \in Threads \ {t} : held'[u] = held[u]
    BY ZenonT(60), <1>6, <2>2 DEF Missed
  <2>4. \A u \in Threads : held[u] # NULL => held[u] \in live \ V
    BY ZenonT(60), <2>2 DEF Missed, CacheInv, HeldIsLive
  <2>5. \A u \in Threads \ {t} :
          held[u] # NULL => key'[held[u]] = key[held[u]] /\ value'[held[u]] = value[held[u]]
    BY ZenonT(40), <2>2, <2>4 DEF Missed
  <2>6. \A h \in live' :
          \/ h \in live /\ key'[h] = key[h] /\ value'[h] = value[h]
          \/ h = held'[t] /\ pc'[t] = "lock" /\ value'[h] \in Frames
    BY ZenonT(60), <1>5, <2>2, <2>3 DEF Missed
  <2>7. live' = in_cache'
    BY ZenonT(40), <2>2 DEF Missed, PoolInv, FramesInv
  <2>8. CacheStep(t)
    BY ZenonT(40), <1>1, <1>2, <1>5, <2>2, <2>3, <2>5, <2>6, <2>7 DEF CacheStep, Missed
  <2> QED BY ZenonT(40), <1>3, <1>4, <2>2, <2>8, CacheStepPreserves DEF Missed
<1> QED BY ZenonT(60), <1>1, <1>3, <1>7, <1>8 DEF LookupInsert

\* access_page_handler looks its page up.
LEMMA AccessLookupPreserves ==
  ASSUME CacheInv, PoolInv, NEW t \in Threads, NEW k \in Keys, AccessLookup(t, k)
  PROVE  CacheInv' /\ PoolInv'
<1> DEFINE r == [page_id |-> k, page_data |-> NULL]
<1>1. /\ pc[t] = "idle" /\ pc' = [pc EXCEPT ![t] = "release"]
      /\ req' = [req EXCEPT ![t] = r] /\ Lookup(t, k)
      /\ UNCHANGED <<rw_mtx, page, page_id, down>>
  BY ZenonT(60) DEF AccessLookup, At, Take
<1>2. r \in Requests /\ r # NoRequest /\ r.page_id = k /\ r.page_data = NULL
  BY ZenonT(60), ConstantsAssumption DEF Requests, NoRequest
<1> HIDE DEF r
<1>3. held[t] = NULL
  BY ZenonT(60), <1>1 DEF Lookup
<1>4. PoolTypeOK'
  BY ZenonT(40), <1>1, <1>2, StepTypes DEF PoolInv, PoolTypeOK
<1>5. /\ pc'[t] = "release" /\ req'[t] = r
      /\ \A u \in Threads \ {t} : pc'[u] = pc[u] /\ req'[u] = req[u]
  BY ZenonT(60), <1>1 DEF PoolInv, PoolTypeOK
<1>6. held \in [Threads -> Handles \cup {NULL}] /\ NULL \notin Handles
  BY ZenonT(60), ConstantsAssumption DEF CacheInv, CacheTypeOK
<1>7. /\ CacheInv' /\ WithinCapacity' /\ UNCHANGED <<live, key, value, in_cache, freelist>>
      /\ \/ held' = held
         \/ held' = [held EXCEPT ![t] = table[k]] /\ table[k] \in live /\ key[table[k]] = k
  <2>1. CASE table[k] # NULL
    <3>1. Ref(t, table[k])
      BY ZenonT(60), <1>1, <2>1 DEF Lookup
    <3> QED BY ZenonT(60), <1>3, <2>1, <3>1, HitStep
  <2>2. CASE table[k] = NULL
    <3>1. UNCHANGED cacheVars
      BY ZenonT(60), <1>1, <2>2 DEF Lookup
    <3>2. CacheInv'
      BY ZenonT(60), <3>1, StutterPreserves
    <3> QED BY ZenonT(60), <3>1, <3>2 DEF cacheVars, PoolInv, WithinCapacity, Capacity
  <2> QED BY ZenonT(60), <2>1, <2>2
<1>8. /\ \A u \in Threads \ {t} : held'[u] = held[u]
      /\ held'[t] # NULL => held'[t] \in live /\ key[held'[t]] = k
  BY ZenonT(60), <1>3, <1>6, <1>7
<1>9. Frames \subseteq Range(freelist') \cup {value'[h] : h \in live'}
  BY SMTT(20), <1>7 DEF PoolInv, FramesInv
<1>10. CacheStep(t)
  BY ZenonT(40), <1>1, <1>2, <1>5, <1>7, <1>8, <1>9 DEF CacheStep, PoolInv, FramesInv
<1> QED BY ZenonT(40), <1>4, <1>7, <1>10, CacheStepPreserves

\* The end of a handler, with its handle.
LEMMA ReleasePagePreserves ==
  ASSUME CacheInv, PoolInv, NEW t \in Threads, ReleasePage(t)
  PROVE  CacheInv' /\ PoolInv'
<1>1. /\ pc[t] = "release" /\ pc' = [pc EXCEPT ![t] = "idle"]
      /\ req' = [req EXCEPT ![t] = NoRequest] /\ Release(t)
      /\ UNCHANGED <<rw_mtx, page, page_id, down>>
  BY ZenonT(60) DEF ReleasePage, At
<1>2. NoRequest \in Requests /\ NoRequest.page_data = NULL
  BY ZenonT(60) DEF Requests, NoRequest
<1>3. PoolTypeOK'
  BY ZenonT(40), <1>1, <1>2, StepTypes DEF PoolInv, PoolTypeOK
<1>4. /\ pc'[t] = "idle" /\ req'[t] = NoRequest
      /\ \A u \in Threads \ {t} : pc'[u] = pc[u] /\ req'[u] = req[u]
  BY ZenonT(60), <1>1 DEF PoolInv, PoolTypeOK
<1>5. CacheInv'
  BY ZenonT(60), <1>1, ReleasePreserves
<1>6. /\ UNCHANGED <<live, key, value, in_cache, usage, freelist>>
      /\ held' = [held EXCEPT ![t] = NULL]
  BY ZenonT(60), <1>1, ReleaseStep DEF PoolInv
<1>7. held'[t] = NULL /\ \A u \in Threads \ {t} : held'[u] = held[u]
  BY ZenonT(60), <1>6 DEF CacheInv, CacheTypeOK
<1>8. Frames \subseteq Range(freelist') \cup {value'[h] : h \in live'}
  BY ZenonT(60), <1>6 DEF PoolInv, FramesInv
<1>9. WithinCapacity'
  BY ZenonT(60), <1>6 DEF PoolInv, WithinCapacity, Capacity
<1>10. CacheStep(t)
  BY ZenonT(60), <1>1, <1>2, <1>4, <1>6, <1>7, <1>8 DEF CacheStep, PoolInv, FramesInv
<1> QED BY ZenonT(60), <1>3, <1>5, <1>9, <1>10, CacheStepPreserves

\* The steps between pin and release leave the cache as it is.
LEMMA CacheStays ==
  ASSUME CacheInv, PoolInv, UNCHANGED cacheVars
  PROVE  /\ CacheInv' /\ WithinCapacity'
         /\ UNCHANGED <<live, key, value, in_cache, table, freelist, held>>
<1>1. CacheInv'
  BY ZenonT(60), StutterPreserves
<1> QED BY ZenonT(60), <1>1 DEF cacheVars, PoolInv, WithinCapacity, Capacity

\* Where the handle of a worker that owns its mutex is.
LEMMA LockedFacts ==
  ASSUME CacheInv, PoolInv, NEW t \in Threads, Writing(t)
  PROVE  /\ held[t] \in live /\ held[t] \in Handles /\ frame(t) \in Frames /\ frame(t) # NULL
         /\ frame(t) \notin Range(freelist)
         /\ \A h \in live : value[h] = frame(t) => h = held[t]
         /\ req[t] \in Requests /\ req[t].page_id = key[held[t]] /\ key[held[t]] \in Keys
         /\ req[t].page_data # NULL
         /\ \A u \in Threads : Locked(t) /\ Locked(u) /\ held[u] = held[t] => u = t
         /\ \A u \in Threads : Writing(u) => held[u] \in live
<1>1. \A u \in Threads : Writing(u) => held[u] \in live
  BY ZenonT(60) DEF PoolInv, WorkerInv, CacheInv, HeldIsLive
<1>2. held[t] \in live
  BY ZenonT(60), <1>1
<1>3. /\ held[t] \in Handles /\ frame(t) \in Frames /\ frame(t) \notin Range(freelist)
      /\ \A h \in live : value[h] = frame(t) => h = held[t]
      /\ key[held[t]] \in Keys
  BY ZenonT(60), <1>2, HandleFacts DEF frame, PoolInv
<1>4. req[t] \in Requests /\ req[t].page_id = key[held[t]] /\ req[t].page_data # NULL
  BY DEF PoolInv, WorkerInv, PoolTypeOK
<1>5. \A u \in Threads : Locked(t) /\ Locked(u) /\ held[u] = held[t] => u = t
  <2>1. \A u \in Threads, h \in Handles : rw_mtx[h] = u <=> Locked(u) /\ held[u] = h
    BY ZenonT(60) DEF PoolInv, WorkerInv
  <2> SUFFICES ASSUME NEW u \in Threads, Locked(t), Locked(u), held[u] = held[t] PROVE u = t
    BY ZenonT(60)
  <2>2. held[t] \in Handles
    BY ZenonT(60), <1>3
  <2>3. rw_mtx[held[t]] = t /\ rw_mtx[held[t]] = u
    BY ZenonT(60), <2>1, <2>2
  <2> QED BY ZenonT(60), <2>3
<1> QED BY ZenonT(40), <1>1, <1>2, <1>3, <1>4, <1>5, ConstantsAssumption

\* Locking rw_mtx.
LEMMA FlushLockPreserves ==
  ASSUME CacheInv, PoolInv, NEW t \in Threads, FlushLock(t)
  PROVE  CacheInv' /\ PoolInv'
<1>1. /\ pc[t] = "lock" /\ pc' = [pc EXCEPT ![t] = "copy1"]
      /\ rw_mtx[held[t]] = NULL /\ rw_mtx' = [rw_mtx EXCEPT ![held[t]] = t]
      /\ UNCHANGED cacheVars /\ UNCHANGED <<req, page, page_id, down>>
  BY DEF FlushLock, At
<1>2. /\ CacheInv' /\ WithinCapacity'
      /\ UNCHANGED <<live, key, value, in_cache, table, freelist, held>>
  BY ZenonT(60), <1>1, CacheStays
<1>3. held[t] \in Handles
  BY ZenonT(60), <1>1, LockedFacts DEF Writing
<1>4. PoolTypeOK'
  BY ZenonT(60), <1>1, <1>3 DEF PoolInv, PoolTypeOK, Requests, NoRequest, Halves, Frames
<1>5. /\ pc'[t] = "copy1" /\ \A u \in Threads \ {t} : pc'[u] = pc[u]
      /\ \A h \in Handles : rw_mtx'[h] = IF h = held[t] THEN t ELSE rw_mtx[h]
  BY ZenonT(60), <1>1 DEF PoolInv, PoolTypeOK
<1>6. FramesInv'
  BY SMTT(20), <1>1, <1>2 DEF PoolInv, FramesInv, Range, Frames
<1>7. WorkerInv'
  <2> SUFFICES ASSUME NEW u \in Threads
               PROVE  /\ pc'[u] = "idle" => held'[u] = NULL
                      /\ Writing(u)' => held'[u] # NULL
                      /\ held'[u] # NULL => req'[u].page_id = key'[held'[u]] /\ req'[u] # NoRequest
                      /\ held'[u] = NULL => req'[u].page_data = NULL
                      /\ Writing(u)' => req'[u].page_data # NULL
                      /\ \A h \in Handles : rw_mtx'[h] = u <=> Locked(u)' /\ held'[u] = h
    BY DEF WorkerInv, NoRequest, Writing, Locked
  <2>0. /\ pc[u] = "idle" => held[u] = NULL
        /\ Writing(u) => held[u] # NULL
        /\ held[u] # NULL => req[u].page_id = key[held[u]] /\ req[u] # NoRequest
        /\ held[u] = NULL => req[u].page_data = NULL
        /\ Writing(u) => req[u].page_data # NULL
        /\ \A h \in Handles : rw_mtx[h] = u <=> Locked(u) /\ held[u] = h
    BY ZenonT(60) DEF PoolInv, WorkerInv
  <2>1. held'[u] = held[u] /\ req'[u] = req[u] /\ key'[held'[u]] = key[held[u]]
    BY ZenonT(60), <1>1, <1>2
  <2>2. CASE u = t
    <3>1. Writing(t) /\ ~ Locked(t) /\ Locked(t)' /\ pc'[t] # "idle"
      BY ZenonT(60), <1>1, <1>5 DEF Writing, Locked
    <3>2. \A h \in Handles : rw_mtx[h] # t
      BY ZenonT(60), <2>0, <2>2, <3>1
    <3>3. \A h \in Handles : rw_mtx'[h] = t <=> held[t] = h
      BY ZenonT(60), <1>5, <3>2
    <3> QED BY ZenonT(60), <2>0, <2>1, <2>2, <3>1, <3>3
  <2>3. CASE u # t
    <3>1. (Writing(u)' <=> Writing(u)) /\ (Locked(u)' <=> Locked(u)) /\ pc'[u] = pc[u]
      BY ZenonT(60), <1>5, <2>3 DEF Writing, Locked
    <3>2. u # NULL
      BY ZenonT(60), WorkersAssumption
    <3>3. \A h \in Handles : rw_mtx'[h] = u <=> rw_mtx[h] = u
      BY ZenonT(60), <1>1, <1>5, <2>3, <3>2
    <3> QED BY ZenonT(60), <2>0, <2>1, <3>1, <3>3
  <2> QED BY ZenonT(60), <2>2, <2>3
<1>8. ContentsInv'
  <2>1. \A u \in Threads : frame(u)' = frame(u)
    BY ZenonT(60), <1>2 DEF frame
  <2>2. \A u \in Threads : pc'[u] \in {"copy2", "copyid"} => pc'[u] = pc[u]
    BY ZenonT(60), <1>5
  <2>3. \A u \in Threads : Writing(u) => Writing(u)'
    BY ZenonT(60), <1>5 DEF Writing
  <2>4. \A h \in live : Intact(h) => Intact(h)'
    BY ZenonT(60), <1>1, <1>2 DEF Intact, Requests, NoRequest
  <2>5. ASSUME NEW u \in Threads
        PROVE  /\ pc'[u] \in {"copy2", "copyid"} => page'[frame(u)'][1] = req'[u]
               /\ pc'[u] = "copyid" => page'[frame(u)'][2] = req'[u]
    <3>1. page' = page /\ req' = req /\ frame(u)' = frame(u)
      BY ZenonT(60), <1>1, <2>1
    <3>2. /\ pc[u] \in {"copy2", "copyid"} => page[frame(u)][1] = req[u]
          /\ pc[u] = "copyid" => page[frame(u)][2] = req[u]
      BY ZenonT(60) DEF PoolInv, ContentsInv
    <3> QED BY ZenonT(60), <2>2, <3>1, <3>2
  <2>6. ASSUME NEW h \in live'
        PROVE  Intact(h)' \/ \E u \in Threads : held'[u] = h /\ Writing(u)'
    <3>1. h \in live /\ held' = held
      BY ZenonT(60), <1>2
    <3>2. Intact(h) \/ \E u \in Threads : held[u] = h /\ Writing(u)
      BY ZenonT(60), <3>1 DEF PoolInv, ContentsInv
    <3> QED BY ZenonT(60), <2>3, <2>4, <3>1, <3>2
  <2> QED BY ZenonT(60), <2>5, <2>6 DEF ContentsInv
<1> QED BY ZenonT(60), <1>2, <1>4, <1>6, <1>7, <1>8 DEF PoolInv

-----------------------------------------------------------------------------
(***************************************************************************)
(* The steps that write to a frame.                                        *)
(***************************************************************************)
\* Copying into the frame: half i of it becomes the worker's request.
LEMMA CopyHalfPreserves ==
  ASSUME CacheInv, PoolInv, NEW t \in Threads, NEW i \in Halves,
         NEW to \in {"copy2", "copyid"},
         pc[t] = IF i = 1 THEN "copy1" ELSE "copy2",
         to = IF i = 1 THEN "copy2" ELSE "copyid",
         pc' = [pc EXCEPT ![t] = to], page' = [page EXCEPT ![frame(t)][i] = req[t]],
         UNCHANGED cacheVars, UNCHANGED <<req, rw_mtx, page_id, down>>
  PROVE  CacheInv' /\ PoolInv'
<1>1. Writing(t) /\ Locked(t) /\ i \in {1, 2}
  BY DEF Writing, Locked, Halves
<1>2. /\ CacheInv' /\ WithinCapacity'
      /\ UNCHANGED <<live, key, value, in_cache, table, freelist, held>>
  BY ZenonT(60), CacheStays
<1>3. /\ held[t] \in live /\ frame(t) \in Frames /\ frame(t) \notin Range(freelist)
      /\ \A h \in live : value[h] = frame(t) => h = held[t]
      /\ req[t] \in Requests
      /\ \A u \in Threads : Locked(u) /\ held[u] = held[t] => u = t
      /\ \A u \in Threads : Writing(u) => held[u] \in live
  BY ZenonT(60), <1>1, LockedFacts
<1>4. /\ pc'[t] = to /\ \A u \in Threads \ {t} : pc'[u] = pc[u]
      /\ page'[frame(t)] = [page[frame(t)] EXCEPT ![i] = req[t]]
      /\ \A f \in Frames \ {frame(t)} : page'[f] = page[f]
      /\ page[frame(t)] \in [Halves -> Requests \cup {NULL}]
  BY ZenonT(60), <1>3 DEF PoolInv, PoolTypeOK
<1>5. PoolTypeOK'
  <2>1. page' \in [Frames -> [Halves -> Requests \cup {NULL}]]
    BY ZenonT(60), <1>3 DEF PoolInv, PoolTypeOK
  <2>2. pc' \in [Threads -> {"idle", "lock", "copy1", "copy2", "copyid", "release"}]
    BY ZenonT(60) DEF PoolInv, PoolTypeOK
  <2> QED BY ZenonT(60), <2>1, <2>2 DEF PoolInv, PoolTypeOK, Requests, NoRequest, Halves, Frames
<1>6. FramesInv'
  <2>1. \A f \in Range(freelist) : f \in Frames /\ f # frame(t)
    BY ZenonT(60), <1>3 DEF PoolInv, FramesInv
  <2>2. \A f \in Range(freelist) : page'[f] = page[f]
    BY ZenonT(60), <1>4, <2>1
  <2> QED BY <1>2, <2>2 DEF PoolInv, FramesInv, Range, Frames
<1>7. \A u \in Threads : (Writing(u)' <=> Writing(u)) /\ (Locked(u)' <=> Locked(u))
  BY ZenonT(40), <1>1, <1>4 DEF Writing, Locked
<1>8. WorkerInv'
  <2>1. \A u \in Threads : pc'[u] = "idle" => pc[u] = "idle"
    BY ZenonT(60), <1>4
  <2> QED BY SMT, Z3, <1>2, <1>7, <2>1 DEF PoolInv, WorkerInv, NoRequest, Writing, Locked
<1>9. ContentsInv'
  <2>1. \A u \in Threads : frame(u)' = frame(u)
    BY ZenonT(60), <1>2 DEF frame
  <2>2. ASSUME NEW u \in Threads, pc'[u] \in {"copy2", "copyid"}
        PROVE  /\ page'[frame(u)][1] = req[u]
               /\ pc'[u] = "copyid" => page'[frame(u)][2] = req[u]
    <3>1. CASE u = t
      <4>1. CASE i = 1
        BY SMT, Z3, <1>4, <3>1, <4>1 DEF Halves
      <4>2. CASE i = 2
        <5>1. page[frame(t)][1] = req[t]
          BY <4>2 DEF PoolInv, ContentsInv
        <5> QED BY SMT, Z3, <1>4, <3>1, <4>2, <5>1 DEF Halves
      <4> QED BY ZenonT(60), <1>1, <4>1, <4>2
    <3>2. CASE u # t
      <4>1. pc[u] = pc'[u] /\ Locked(u) /\ Writing(u)
        BY ZenonT(60), <1>4, <2>2, <3>2 DEF Locked, Writing
      <4>2. held[u] \in live /\ held[u] # held[t]
        BY ZenonT(60), <1>3, <3>2, <4>1
      <4>3. frame(u) # frame(t) /\ frame(u) \in Frames
        BY ZenonT(60), <1>3, <4>1, <4>2, LockedFacts DEF frame
      <4>4. page'[frame(u)] = page[frame(u)]
        BY ZenonT(60), <1>4, <4>3
      <4> QED BY ZenonT(60), <2>2, <4>1, <4>4 DEF PoolInv, ContentsInv
    <3> QED BY ZenonT(60), <3>1, <3>2
  <2>3. ASSUME NEW h \in live
        PROVE  Intact(h)' \/ \E u \in Threads : held[u] = h /\ Writing(u)
    <3>1. CASE h = held[t]
      BY ZenonT(60), <1>1, <3>1
    <3>2. CASE h # held[t]
      <4>1. value[h] \in Frames /\ value[h] # frame(t)
        BY ZenonT(60), <1>3, <3>2, HandleFacts DEF PoolInv
      <4>2. page'[value[h]] = page[value[h]]
        BY ZenonT(60), <1>4, <4>1
      <4>3. Intact(h) => Intact(h)'
        BY ZenonT(60), <1>2, <4>2 DEF Intact, Requests, NoRequest
      <4> QED BY ZenonT(60), <4>3 DEF PoolInv, ContentsInv
    <3> QED BY ZenonT(60), <3>1, <3>2
  <2> QED BY ZenonT(60), <1>2, <1>7, <2>1, <2>2, <2>3 DEF ContentsInv, frame
<1> QED BY ZenonT(60), <1>2, <1>5, <1>6, <1>8, <1>9 DEF PoolInv

\* The first half; the frame is there, so the server does not die.
LEMMA FlushCopyFirstPreserves ==
  ASSUME CacheInv, PoolInv, NEW t \in Threads, FlushCopyFirst(t)
  PROVE  CacheInv' /\ PoolInv'
<1>1. pc[t] = "copy1"
  BY ZenonT(60) DEF FlushCopyFirst, At
<1>2. frame(t) # NULL
  BY ZenonT(60), <1>1, LockedFacts DEF Writing
<1>3. /\ pc' = [pc EXCEPT ![t] = "copy2"] /\ page' = [page EXCEPT ![frame(t)][1] = req[t]]
      /\ UNCHANGED cacheVars /\ UNCHANGED <<req, rw_mtx, page_id, down>>
  BY ZenonT(60), <1>2 DEF FlushCopyFirst, At
<1> QED BY ZenonT(60), <1>1, <1>3, CopyHalfPreserves DEF Halves

\* The second half.
LEMMA FlushCopySecondPreserves ==
  ASSUME CacheInv, PoolInv, NEW t \in Threads, FlushCopySecond(t)
  PROVE  CacheInv' /\ PoolInv'
<1>1. /\ pc[t] = "copy2" /\ pc' = [pc EXCEPT ![t] = "copyid"]
      /\ page' = [page EXCEPT ![frame(t)][2] = req[t]]
      /\ UNCHANGED cacheVars /\ UNCHANGED <<req, rw_mtx, page_id, down>>
  BY DEF FlushCopySecond, At
<1>2. /\ 2 \in Halves /\ "copyid" \in {"copy2", "copyid"}
      /\ pc[t] = (IF 2 = 1 THEN "copy1" ELSE "copy2")
      /\ "copyid" = (IF 2 = 1 THEN "copy2" ELSE "copyid")
  BY SMT, Z3, <1>1 DEF Halves
<1> QED BY ZenonT(60), <1>1, <1>2, CopyHalfPreserves

\* The page id, and the end of the critical section: the page is whole again.
LEMMA FlushCopyIdPreserves ==
  ASSUME CacheInv, PoolInv, NEW t \in Threads, FlushCopyId(t)
  PROVE  CacheInv' /\ PoolInv'
<1>1. /\ pc[t] = "copyid" /\ pc' = [pc EXCEPT ![t] = "release"]
      /\ page_id' = [page_id EXCEPT ![frame(t)] = req[t].page_id]
      /\ rw_mtx' = [rw_mtx EXCEPT ![held[t]] = NULL]
      /\ UNCHANGED cacheVars /\ UNCHANGED <<req, page, down>>
  BY ZenonT(60) DEF FlushCopyId, At
<1>2. /\ CacheInv' /\ WithinCapacity'
      /\ UNCHANGED <<live, key, value, in_cache, table, freelist, held>>
  BY ZenonT(60), <1>1, CacheStays
<1>3. Writing(t) /\ Locked(t)
  BY ZenonT(60), <1>1 DEF Writing, Locked
<1>4. /\ held[t] \in live /\ held[t] \in Handles /\ frame(t) \in Frames
      /\ \A h \in live : value[h] = frame(t) => h = held[t]
      /\ req[t] \in Requests /\ req[t].page_id = key[held[t]] /\ key[held[t]] \in Keys
      /\ \A u \in Threads : Locked(u) /\ held[u] = held[t] => u = t
  BY ZenonT(60), <1>3, LockedFacts
<1>5. /\ pc'[t] = "release" /\ \A u \in Threads \ {t} : pc'[u] = pc[u]
      /\ \A h \in Handles : rw_mtx'[h] = IF h = held[t] THEN NULL ELSE rw_mtx[h]
      /\ \A f \in Frames : page_id'[f] = IF f = frame(t) THEN req[t].page_id ELSE page_id[f]
  BY ZenonT(60), <1>1 DEF PoolInv, PoolTypeOK
<1>6. PoolTypeOK'
  <2>1. page_id' \in [Frames -> Keys \cup {NULL}]
    BY ZenonT(60), <1>1, <1>4 DEF PoolInv, PoolTypeOK
  <2> QED BY ZenonT(60), <1>1, <1>4, <2>1 DEF PoolInv, PoolTypeOK, Requests, NoRequest, Halves, Frames
<1>7. FramesInv'
  BY ZenonT(40), <1>1, <1>2 DEF PoolInv, FramesInv, Range, Frames
<1>8. WorkerInv'
  <2> SUFFICES ASSUME NEW u \in Threads
               PROVE  /\ pc'[u] = "idle" => held'[u] = NULL
                      /\ Writing(u)' => held'[u] # NULL
                      /\ held'[u] # NULL => req'[u].page_id = key'[held'[u]] /\ req'[u] # NoRequest
                      /\ held'[u] = NULL => req'[u].page_data = NULL
                      /\ Writing(u)' => req'[u].page_data # NULL
                      /\ \A h \in Handles : rw_mtx'[h] = u <=> Locked(u)' /\ held'[u] = h
    BY ZenonT(60) DEF WorkerInv, NoRequest, Writing, Locked
  <2>1. u # NULL
    BY ZenonT(60), WorkersAssumption
  <2>2. /\ pc[u] = "idle" => held[u] = NULL
        /\ Writing(u) => held[u] # NULL
        /\ held[u] # NULL => req[u].page_id = key[held[u]] /\ req[u] # NoRequest
        /\ held[u] = NULL => req[u].page_data = NULL
        /\ Writing(u) => req[u].page_data # NULL
        /\ \A h \in Handles : rw_mtx[h] = u <=> Locked(u) /\ held[u] = h
    BY ZenonT(60) DEF PoolInv, WorkerInv
  <2>3. held' = held /\ req' = req /\ key' = key
    BY ZenonT(60), <1>1, <1>2
  <2>4. CASE u = t
    <3>1. ~ Writing(t)' /\ ~ Locked(t)'
      BY ZenonT(60), <1>5 DEF Writing, Locked
    <3>2. \A h \in Handles : rw_mtx'[h] # u
      BY ZenonT(60), <1>3, <1>5, <2>1, <2>2, <2>4
    <3>3. held'[u] # NULL /\ pc'[u] # "idle"
      BY ZenonT(60), <1>3, <1>5, <2>2, <2>3, <2>4
    <3> QED BY ZenonT(60), <2>2, <2>3, <2>4, <3>1, <3>2, <3>3
  <2>5. CASE u # t
    <3>1. (Writing(u)' <=> Writing(u)) /\ (Locked(u)' <=> Locked(u)) /\ pc'[u] = pc[u]
      BY ZenonT(60), <1>5, <2>5 DEF Writing, Locked
    <3>2. \A h \in Handles : rw_mtx'[h] = u <=> rw_mtx[h] = u
      BY ZenonT(40), <1>3, <1>4, <1>5, <2>1, <2>2, <2>5
    <3> QED BY ZenonT(60), <2>2, <2>3, <3>1, <3>2
  <2> QED BY ZenonT(60), <2>4, <2>5
<1>9. ContentsInv'
  <2>1. \A u \in Threads : frame(u)' = frame(u)
    BY ZenonT(60), <1>2 DEF frame
  <2>2. \A u \in Threads : pc'[u] \in {"copy2", "copyid"} => pc'[u] = pc[u]
    BY ZenonT(60), <1>5
  <2>3. ASSUME NEW h \in live
        PROVE  Intact(h)' \/ \E u \in Threads : held[u] = h /\ Writing(u)'
    <3>1. CASE h = held[t]
      <4>1. page[frame(t)][1] = req[t] /\ page[frame(t)][2] = req[t]
        BY ZenonT(60), <1>1 DEF PoolInv, ContentsInv
      <4>2. page_id'[frame(t)] = req[t].page_id
        BY ZenonT(60), <1>4, <1>5
      <4> QED BY ZenonT(60), <1>1, <1>2, <1>4, <3>1, <4>1, <4>2 DEF Intact, frame, Requests, NoRequest
    <3>2. CASE h # held[t]
      <4>1. value[h] \in Frames /\ value[h] # frame(t)
        BY ZenonT(60), <1>4, <3>2, HandleFacts DEF PoolInv
      <4>2. page_id'[value[h]] = page_id[value[h]]
        BY ZenonT(60), <1>5, <4>1
      <4>3. Intact(h) => Intact(h)'
        BY ZenonT(60), <1>1, <1>2, <4>2 DEF Intact, Requests, NoRequest
      <4>4. \A u \in Threads : held[u] = h /\ Writing(u) => Writing(u)'
        BY ZenonT(60), <1>5, <3>2 DEF Writing
      <4> QED BY ZenonT(60), <4>3, <4>4 DEF PoolInv, ContentsInv
    <3> QED BY ZenonT(60), <3>1, <3>2
  <2> QED BY SMT, Z3, <1>1, <1>2, <2>1, <2>2, <2>3 DEF PoolInv, ContentsInv, frame
<1> QED BY ZenonT(60), <1>2, <1>6, <1>7, <1>8, <1>9 DEF PoolInv

\* Releasing nullptr stops the server and changes nothing else.
LEMMA ReleaseNullPreserves ==
  ASSUME CacheInv, PoolInv, NEW t \in Threads, ReleaseNull(t)
  PROVE  CacheInv' /\ PoolInv'
<1>1. /\ pc[t] = "release" /\ pc' = [pc EXCEPT ![t] = "idle"] /\ held[t] = NULL
      /\ down' = TRUE /\ UNCHANGED cacheVars /\ UNCHANGED <<req, rw_mtx, page, page_id>>
  BY ZenonT(60) DEF ReleaseNull, At
<1>2. /\ CacheInv' /\ WithinCapacity'
      /\ UNCHANGED <<live, key, value, in_cache, table, freelist, held>>
  BY ZenonT(60), <1>1, CacheStays
<1>3. PoolTypeOK'
  <2>1. req[t] \in Requests /\ req' = [req EXCEPT ![t] = req[t]]
    BY ZenonT(60), <1>1 DEF PoolInv, PoolTypeOK
  <2> QED BY ZenonT(60), <1>1, <2>1, StepTypes DEF PoolInv
<1>4. pc'[t] = "idle" /\ \A u \in Threads \ {t} : pc'[u] = pc[u]
  BY ZenonT(60), <1>1 DEF PoolInv, PoolTypeOK
<1>5. Frames \subseteq Range(freelist') \cup {value'[h] : h \in live'}
  BY ZenonT(60), <1>2 DEF PoolInv, FramesInv
<1>6. held[t] = NULL => req[t].page_data = NULL
  BY ZenonT(60) DEF PoolInv, WorkerInv
<1>7. CacheStep(t)
  BY ZenonT(60), <1>1, <1>2, <1>4, <1>5, <1>6 DEF CacheStep, PoolInv, FramesInv
<1> QED BY ZenonT(60), <1>2, <1>3, <1>7, CacheStepPreserves

-----------------------------------------------------------------------------
(***************************************************************************)
(* The invariant, and what follows from it.                                *)
(***************************************************************************)
\* allocate_page_array establishes the invariant.
LEMMA PoolInitEstablishes == Init => CacheInv /\ PoolInv
<1> SUFFICES ASSUME Init
             PROVE  CacheInv /\ PoolInv
  BY ZenonT(60)
<1> USE DEF Init
<1>1. CacheInv
  BY ZenonT(60), InitEstablishes
<1>2. PoolTypeOK
  BY ZenonT(60) DEF PoolTypeOK, Requests, NoRequest
<1>3. WithinCapacity
  BY ShareOfShard DEF WithinCapacity, CacheInit
<1>4. FramesInv
  <2>1. Range(freelist) = Frames
    BY ZenonT(60) DEF CacheInit, Range
  <2> QED BY ZenonT(60), <2>1 DEF FramesInv, CacheInit, Halves
<1>5. WorkerInv
  BY ZenonT(60), WorkersAssumption DEF WorkerInv, CacheInit, Writing, Locked, NoRequest
<1>6. ContentsInv
  BY DEF ContentsInv, CacheInit
<1> QED BY ZenonT(60), <1>1, <1>2, <1>3, <1>4, <1>5, <1>6 DEF PoolInv

\* Every step of a worker keeps the invariant.
LEMMA WorkerPreserves ==
  ASSUME CacheInv, PoolInv, NEW t \in Threads, Worker(t)
  PROVE  CacheInv' /\ PoolInv'
BY ZenonT(60), FlushPinPreserves, FlushLockPreserves, FlushCopyFirstPreserves,
   FlushCopySecondPreserves, FlushCopyIdPreserves, AccessLookupPreserves,
   ReleasePagePreserves, ReleaseNullPreserves DEF Worker

\* And so does a step that changes nothing.
LEMMA PoolStutterPreserves ==
  ASSUME CacheInv, PoolInv, UNCHANGED vars
  PROVE  CacheInv' /\ PoolInv'
<1>1. UNCHANGED cacheVars /\ UNCHANGED <<pc, req, rw_mtx, page, page_id, down>>
  BY ZenonT(60) DEF vars, poolVars
<1>2. /\ CacheInv' /\ WithinCapacity'
      /\ UNCHANGED <<live, key, value, in_cache, table, freelist, held>>
  BY ZenonT(60), <1>1, CacheStays
<1>3. PoolTypeOK'
  BY ZenonT(60), <1>1 DEF PoolInv, PoolTypeOK, Requests, NoRequest, Halves, Frames
<1>4. FramesInv'
  BY ZenonT(40), <1>1, <1>2 DEF PoolInv, FramesInv, Range, Frames
<1>5. WorkerInv'
  <2>1. pc' = pc /\ req' = req /\ rw_mtx' = rw_mtx /\ held' = held /\ key' = key
    BY ZenonT(60), <1>1, <1>2
  <2>2. WorkerInv
    BY ZenonT(60) DEF PoolInv
  <2> QED BY <2>1, <2>2 DEF WorkerInv, Writing, Locked, NoRequest
<1>6. ContentsInv'
  BY ZenonT(60), <1>1, <1>2 DEF PoolInv, ContentsInv, Writing, Intact, frame, Requests, NoRequest
<1> QED BY ZenonT(60), <1>2, <1>3, <1>4, <1>5, <1>6 DEF PoolInv

\* The invariants of the cache and of the handlers hold together in every
\* state of the server.
THEOREM PoolInvariant == Spec => [](CacheInv /\ PoolInv)
<1>1. Init => CacheInv /\ PoolInv
  BY ZenonT(60), PoolInitEstablishes
<1>2. (CacheInv /\ PoolInv) /\ [Next]_vars => (CacheInv /\ PoolInv)'
  BY ZenonT(60), WorkerPreserves, PoolStutterPreserves DEF Next
<1> QED BY <1>1, <1>2, PTL DEF Spec

\* The entries that no handler uses are whole pages.
THEOREM PagesIntact == Spec => []PageIntact
<1>1. CacheInv /\ PoolInv => PageIntact
  <2> SUFFICES ASSUME CacheInv, PoolInv, NEW s \in Shards, NEW h \in Range(lru[s])
               PROVE  value[h] # NULL /\ Intact(h)
    BY ZenonT(60) DEF PageIntact, Intact
  <2>1. h \in in_cache /\ refs[h] = 1 /\ h \in live
    BY ZenonT(60) DEF CacheInv, OnOneList, PoolInv, FramesInv
  <2>2. \A t \in Threads : held[t] # h
    BY ZenonT(60), <2>1, CachedRefs
  <2> QED BY ZenonT(60), <2>1, <2>2 DEF PoolInv, FramesInv, ContentsInv
<1> QED BY <1>1, PoolInvariant, PTL

\* No shard is ever over its capacity between two operations: cache.cc:204.
THEOREM ShardsStayWithinCapacity == Spec => []WithinCapacity
<1>1. CacheInv /\ PoolInv => WithinCapacity
  BY ZenonT(60) DEF PoolInv
<1> QED BY <1>1, PoolInvariant, PTL

\* No frame is lost, and every flush has one to write to.
THEOREM FramesStay == Spec => []FramesConserved
<1>1. CacheInv /\ PoolInv => FramesConserved
  <2> SUFFICES ASSUME CacheInv, PoolInv
               PROVE  FramesConserved
    OBVIOUS
  <2>1. \A t \in Threads : pc[t] = "copy1" => frame(t) # NULL
    BY ZenonT(40), LockedFacts DEF Writing
  <2> QED BY ZenonT(60), <2>1 DEF FramesConserved, PoolInv, FramesInv
<1> QED BY <1>1, PoolInvariant, PTL

\* No page is in two frames.
THEOREM PagesHaveOneFrame == Spec => []OneFramePerPage
<1>1. CacheInv /\ PoolInv => OneFramePerPage
  BY DEF OneFramePerPage, PoolInv, FramesInv, CacheInv, TableMatchesCache
<1> QED BY <1>1, PoolInvariant, PTL

-----------------------------------------------------------------------------
(***************************************************************************)
(* The server implements PagePool.                                         *)
(***************************************************************************)
\* What page k has in a frame whose first half is c.
Holds(c, k) == IF c # NULL /\ c.page_id = k THEN c.page_data ELSE NULL

\* The contents before a step, when all entries have frames.
LEMMA ContentsNow ==
  ASSUME CacheInv, FramesInv
  PROVE  poolContents = [k \in Keys |-> IF table[k] = NULL THEN NULL
                                        ELSE Holds(page[value[table[k]]][1], k)]
<1>1. \A k \in Keys : table[k] # NULL => value[table[k]] # NULL
  BY ZenonT(60) DEF CacheInv, FramesInv, TableMatchesCache
<1> QED BY ZenonT(60), <1>1 DEF poolContents, Holds

\* And after it.
LEMMA ContentsThen ==
  ASSUME CacheInv', FramesInv'
  PROVE  poolContents' = [k \in Keys |-> IF table'[k] = NULL THEN NULL
                                         ELSE Holds(page'[value'[table'[k]]][1], k)]
<1>1. \A k \in Keys : table'[k] # NULL => value'[table'[k]] # NULL
  BY ZenonT(60) DEF CacheInv, FramesInv, TableMatchesCache
<1> QED BY ZenonT(60), <1>1 DEF poolContents, Holds

\* A worker flushes exactly while its request has data.
LEMMA FlushFacts ==
  ASSUME CacheInv, PoolInv, NEW t \in Threads, flushRequest[t] # NULL
  PROVE  /\ req[t].page_data \in Data /\ req[t].page_id \in Keys
         /\ flushRequest[t] = [page_id |-> req[t].page_id, page_data |-> req[t].page_data,
                               done |-> pc[t] \notin {"lock", "copy1"}]
         /\ held[t] # NULL /\ held[t] \in in_cache /\ req[t].page_id = key[held[t]]
<1>1. /\ req[t].page_data # NULL
      /\ flushRequest[t] = [page_id |-> req[t].page_id, page_data |-> req[t].page_data,
                            done |-> pc[t] \notin {"lock", "copy1"}]
  BY ZenonT(60) DEF flushRequest
<1>2. req[t] \in Requests
  BY DEF PoolInv, PoolTypeOK
<1>3. req[t].page_data \in Data /\ req[t].page_id \in Keys
  <2>1. req[t] # NoRequest
    BY <1>1 DEF NoRequest
  <2>2. req[t] \in [page_id : Keys, page_data : Data \cup {NULL}]
    BY ZenonT(60), <1>2, <2>1 DEF Requests
  <2>3. req[t].page_data \in Data \cup {NULL} /\ req[t].page_id \in Keys
    BY ZenonT(60), <2>2
  <2> QED BY ZenonT(60), <1>1, <2>3
<1>4. held[t] # NULL /\ held[t] \in in_cache /\ req[t].page_id = key[held[t]]
  BY ZenonT(60), <1>1 DEF PoolInv, WorkerInv, FramesInv, CacheInv, HeldIsLive
<1> QED BY ZenonT(60), <1>1, <1>3, <1>4

\* A flush under way is not NULL.
LEMMA FlushingIsSome ==
  ASSUME CacheInv, PoolInv, NEW t \in Threads, req[t].page_data # NULL
  PROVE  flushRequest[t] # NULL
<1>1. req[t] \in Requests
  BY ZenonT(60) DEF PoolInv, PoolTypeOK
<1>2. req[t].page_data \in Data /\ req[t].page_id \in Keys
  BY <1>1 DEF Requests, NoRequest
<1>3. (pc[t] \notin {"lock", "copy1"}) \in BOOLEAN
  BY ZenonT(60)
<1>4. [page_id |-> req[t].page_id, page_data |-> req[t].page_data,
       done |-> pc[t] \notin {"lock", "copy1"}]
        \in [page_id : Keys, page_data : Data, done : BOOLEAN]
  BY ZenonT(60), <1>2, <1>3
<1> QED BY ZenonT(60), <1>4, WorkersAssumption DEF flushRequest

\* Steps that a client does not see: pages and requests stay.
LEMMA UnseenStep ==
  ASSUME CacheInv, PoolInv, CacheInv', PoolInv',
         table' = table, value' = value,
         \A h \in live : page'[value[h]][1] = page[value[h]][1],
         NEW t \in Threads,
         \A u \in Threads \ {t} : pc'[u] = pc[u] /\ req'[u] = req[u],
         \/ req'[t].page_data = NULL /\ req[t].page_data = NULL
         \/ req'[t] = req[t] /\ (pc'[t] \in {"lock", "copy1"} <=> pc[t] \in {"lock", "copy1"})
  PROVE  poolContents' = poolContents /\ flushRequest' = flushRequest
<1>1. \A k \in Keys : table[k] # NULL => table[k] \in live
  BY ZenonT(60) DEF CacheInv, TableMatchesCache
<1>2. /\ poolContents = [k \in Keys |-> IF table[k] = NULL THEN NULL
                                         ELSE Holds(page[value[table[k]]][1], k)]
      /\ poolContents' = [k \in Keys |-> IF table'[k] = NULL THEN NULL
                                          ELSE Holds(page'[value'[table'[k]]][1], k)]
  BY ZenonT(60), ContentsNow, ContentsThen DEF PoolInv
<1>3. poolContents' = poolContents
  BY ZenonT(60), <1>1, <1>2
<1>4. \A u \in Threads : flushRequest'[u] = flushRequest[u]
  BY ZenonT(60) DEF flushRequest
<1>5. flushRequest' = flushRequest
  BY ZenonT(60), <1>4 DEF flushRequest
<1> QED BY ZenonT(60), <1>3, <1>5

\* Pinning an entry is the pool's Request; evicted pages are dropped.
LEMMA FlushPinRequests ==
  ASSUME CacheInv, PoolInv, CacheInv', PoolInv',
         NEW t \in Threads, NEW k \in Keys, NEW d \in Data, FlushPin(t, k, d)
  PROVE  Pool!Request(t, k, d)
<1>1. /\ pc[t] = "idle" /\ pc' = [pc EXCEPT ![t] = "lock"]
      /\ req' = [req EXCEPT ![t] = [page_id |-> k, page_data |-> d]]
      /\ LookupInsert(t, k) /\ UNCHANGED <<rw_mtx, page, page_id, down>>
  BY ZenonT(60) DEF FlushPin, At, Take
<1>2. held[t] = NULL /\ req[t].page_data = NULL
  BY ZenonT(60), <1>1 DEF LookupInsert, PoolInv, WorkerInv
<1>3. flushRequest[t] = NULL
  BY ZenonT(60), <1>2 DEF flushRequest
<1>4. flushRequest' = [flushRequest EXCEPT ![t] = [page_id |-> k, page_data |-> d, done |-> FALSE]]
  <2>1. /\ pc'[t] = "lock" /\ req'[t] = [page_id |-> k, page_data |-> d]
        /\ \A u \in Threads \ {t} : pc'[u] = pc[u] /\ req'[u] = req[u]
    BY ZenonT(60), <1>1 DEF PoolInv, PoolTypeOK
  <2>2. d # NULL
    BY ZenonT(60), WorkersAssumption
  <2>3. flushRequest'[t] = [page_id |-> k, page_data |-> d, done |-> FALSE]
    <3>1. flushRequest'[t] = [page_id |-> k, page_data |-> d,
                              done |-> pc'[t] \notin {"lock", "copy1"}]
      BY <2>1, <2>2 DEF flushRequest
    <3>2. (pc'[t] \notin {"lock", "copy1"}) = FALSE
      BY ZenonT(60), <2>1
    <3> QED BY ZenonT(40), <3>1, <3>2
  <2>4. \A u \in Threads \ {t} : flushRequest'[u] = flushRequest[u]
    BY ZenonT(60), <2>1 DEF flushRequest
  <2> QED BY ZenonT(40), <2>3, <2>4 DEF flushRequest
<1>5. /\ poolContents = [j \in Keys |-> IF table[j] = NULL THEN NULL
                                         ELSE Holds(page[value[table[j]]][1], j)]
      /\ poolContents' = [j \in Keys |-> IF table'[j] = NULL THEN NULL
                                          ELSE Holds(page'[value'[table'[j]]][1], j)]
  BY ZenonT(60), ContentsNow, ContentsThen DEF PoolInv
<1>6. \E dropped \in SUBSET (Keys \ (Pool!Busy \cup {k})) :
        poolContents' = [j \in Keys |-> IF j \in dropped THEN NULL ELSE poolContents[j]]
  <2>1. CASE table[k] # NULL /\ Ref(t, table[k])
    <3>1. UNCHANGED <<value, table>>
      BY ZenonT(60), <1>2, <2>1, HitStep
    <3>2. poolContents' = [j \in Keys |-> IF j \in {} THEN NULL ELSE poolContents[j]]
      BY ZenonT(40), <1>1, <1>5, <3>1
    <3>3. {} \in SUBSET (Keys \ (Pool!Busy \cup {k}))
      BY ZenonT(60)
    <3> QED BY ZenonT(40), <3>2, <3>3
  <2>2. ASSUME table[k] = NULL, NEW e \in Handles \ live, AddEntry(t, k, e, LookupInsertFrame(k))
        PROVE  \E dropped \in SUBSET (Keys \ (Pool!Busy \cup {k})) :
                 poolContents' = [j \in Keys |-> IF j \in dropped THEN NULL ELSE poolContents[j]]
    <3>1. PICK V : V = Victims(k)
      BY ZenonT(60)
    <3>2. Missed(t, k, e, V)
      BY ZenonT(60), <1>2, <2>2, <3>1, MissStep DEF PoolInv
    <3> DEFINE dropped == {key[h] : h \in V}
    <3>3. \A h \in V : /\ h \in in_cache /\ h \in live /\ key[h] \in Keys /\ table[key[h]] = h
                       /\ h # NULL /\ key[h] # k /\ Intact(h)
      <4>1. \A h \in V : h \in in_cache /\ h \in live /\ key[h] \in Keys /\ table[key[h]] = h
        <5>1. V \subseteq in_cache
          BY ZenonT(60), <3>2 DEF Missed
        <5>2. \A h \in in_cache : h \in live /\ key[h] \in Keys /\ table[key[h]] = h
          BY ZenonT(60) DEF CacheInv, TableMatchesCache
        <5> QED BY ZenonT(60), <5>1, <5>2
      <4>2. \A h \in V : h # NULL
        BY ZenonT(60), <4>1, HandleFacts DEF PoolInv
      <4>3. \A h \in V : Intact(h)
        <5>1. \A h \in V : \A u \in Threads : held[u] # h
          BY ZenonT(60), <3>2 DEF Missed
        <5>2. \A h \in live : Intact(h) \/ \E u \in Threads : held[u] = h /\ Writing(u)
          BY ZenonT(60) DEF PoolInv, ContentsInv
        <5> QED BY ZenonT(60), <4>1, <5>1, <5>2
      <4> QED BY ZenonT(60), <2>2, <4>1, <4>2, <4>3
    <3>4. \A c \in Threads : flushRequest[c] # NULL => flushRequest[c].page_id \notin dropped
      <4> SUFFICES ASSUME NEW c \in Threads, flushRequest[c] # NULL, NEW h \in V,
                          flushRequest[c].page_id = key[h]
                   PROVE  FALSE
        OBVIOUS
      <4>1. flushRequest[c].page_id = key[held[c]] /\ held[c] \in in_cache
        <5>1. /\ flushRequest[c] = [page_id |-> req[c].page_id, page_data |-> req[c].page_data,
                                    done |-> pc[c] \notin {"lock", "copy1"}]
              /\ held[c] \in in_cache /\ req[c].page_id = key[held[c]]
          BY ZenonT(60), FlushFacts
        <5>2. flushRequest[c].page_id = req[c].page_id
          BY <5>1
        <5> QED BY ZenonT(60), <5>1, <5>2
      <4>2. table[key[held[c]]] = held[c]
        BY ZenonT(60), <4>1 DEF CacheInv, TableMatchesCache
      <4>3. held[c] = h
        BY ZenonT(40), <3>3, <4>1, <4>2
      <4> QED BY ZenonT(60), <3>2, <4>3 DEF Missed
    <3>5. dropped \in SUBSET (Keys \ (Pool!Busy \cup {k}))
      BY ZenonT(40), <3>3, <3>4 DEF Pool!Busy
    <3>6. poolContents'[k] = NULL
      <4>1. table'[k] = e /\ page' = page
        BY ZenonT(40), <1>1, <3>2 DEF Missed
      <4>2. Holds(page[value'[e]][1], k) = NULL
        <5>1. CASE value'[e] \in Range(freelist)
          BY ZenonT(60), <5>1 DEF Holds, PoolInv, FramesInv
        <5>2. CASE value'[e] \in {value[h] : h \in V}
          <6>1. PICK h \in V : value'[e] = value[h]
            BY ZenonT(60), <5>2
          <6>2. page[value[h]][1].page_id = key[h] /\ key[h] # k
            BY ZenonT(60), <3>3 DEF Intact
          <6> QED BY ZenonT(60), <6>1, <6>2 DEF Holds
        <5> QED BY ZenonT(60), <3>2, <5>1, <5>2 DEF Missed
      <4> QED BY <1>5, <4>1, <4>2
    <3>7. \A j \in Keys \ {k} : poolContents'[j] = IF j \in dropped THEN NULL ELSE poolContents[j]
      <4> SUFFICES ASSUME NEW j \in Keys \ {k}
                   PROVE  poolContents'[j] = IF j \in dropped THEN NULL ELSE poolContents[j]
        BY ZenonT(60)
      <4>1. table'[j] = IF table[j] \in V THEN NULL ELSE table[j]
        BY ZenonT(60), <3>2 DEF Missed
      <4>2. table[j] # NULL => table[j] \in live /\ key[table[j]] = j
        BY ZenonT(60) DEF CacheInv, TableMatchesCache
      <4>3. j \in dropped <=> table[j] \in V
        BY ZenonT(60), <3>3, <4>2
      <4>4. table[j] # NULL /\ table[j] \notin V => value'[table[j]] = value[table[j]]
        BY ZenonT(60), <3>2, <4>2 DEF Missed
      <4> HIDE DEF dropped
      <4> QED BY ZenonT(60), <1>1, <1>5, <4>1, <4>3, <4>4
    <3>8. poolContents[k] = NULL /\ k \notin dropped
      BY ZenonT(60), <1>5, <2>2, <3>3
    <3> HIDE DEF dropped
    <3>9. poolContents' = [j \in Keys |-> IF j \in dropped THEN NULL ELSE poolContents[j]]
      BY ZenonT(60), <1>5, <3>6, <3>7, <3>8
    <3> QED BY ZenonT(60), <3>5, <3>9
  <2> QED BY ZenonT(60), <1>1, <2>1, <2>2 DEF LookupInsert
<1> QED BY ZenonT(60), <1>3, <1>4, <1>6 DEF Pool!Request

\* The first write to the frame is the pool's Apply.
LEMMA FlushCopyApplies ==
  ASSUME CacheInv, PoolInv, CacheInv', PoolInv', NEW t \in Threads, FlushCopyFirst(t)
  PROVE  Pool!Apply(t)
<1>1. pc[t] = "copy1" /\ Writing(t)
  BY ZenonT(60) DEF FlushCopyFirst, At, Writing
<1>2. /\ held[t] \in live /\ frame(t) \in Frames /\ frame(t) # NULL
      /\ \A h \in live : value[h] = frame(t) => h = held[t]
      /\ req[t] \in Requests /\ req[t].page_id = key[held[t]] /\ key[held[t]] \in Keys
      /\ req[t].page_data # NULL
  BY ZenonT(60), <1>1, LockedFacts
<1>3. /\ pc' = [pc EXCEPT ![t] = "copy2"] /\ page' = [page EXCEPT ![frame(t)][1] = req[t]]
      /\ UNCHANGED cacheVars /\ UNCHANGED <<req, rw_mtx, page_id, down>>
  BY ZenonT(60), <1>2 DEF FlushCopyFirst, At
<1>4. UNCHANGED <<value, table>>
  BY ZenonT(60), <1>3 DEF cacheVars
<1> DEFINE k == req[t].page_id
           d == req[t].page_data
<1>5. /\ flushRequest[t] # NULL
      /\ flushRequest[t] = [page_id |-> k, page_data |-> d, done |-> FALSE]
  BY ZenonT(40), <1>1, <1>2, FlushingIsSome, FlushFacts
<1>6. flushRequest' = [flushRequest EXCEPT ![t].done = TRUE]
  <2>1. pc'[t] = "copy2" /\ \A u \in Threads \ {t} : pc'[u] = pc[u]
    BY ZenonT(60), <1>3 DEF PoolInv, PoolTypeOK
  <2>2. flushRequest'[t] = [page_id |-> k, page_data |-> d, done |-> TRUE]
    BY ZenonT(60), <1>2, <1>3, <2>1 DEF flushRequest
  <2>3. \A u \in Threads \ {t} : flushRequest'[u] = flushRequest[u]
    BY ZenonT(60), <1>3, <2>1 DEF flushRequest
  <2>4. PICK r : r = flushRequest[t]
    BY ZenonT(60)
  <2>5. PICK yes : yes = TRUE
    BY ZenonT(60)
  <2>6. PICK no : no = FALSE
    BY ZenonT(60)
  <2> HIDE DEF k, d
  <2>7. /\ r = [page_id |-> k, page_data |-> d, done |-> no]
        /\ flushRequest'[t] = [page_id |-> k, page_data |-> d, done |-> yes]
    BY ZenonT(60), <1>5, <2>2, <2>4, <2>5, <2>6
  <2>8. [r EXCEPT !.done = yes]
          = [[page_id |-> k, page_data |-> d, done |-> no] EXCEPT !.done = yes]
    BY ZenonT(60), <2>7
  <2>9. [[page_id |-> k, page_data |-> d, done |-> no] EXCEPT !.done = yes]
          = [page_id |-> k, page_data |-> d, done |-> yes]
    OBVIOUS
  <2>10. [r EXCEPT !.done = yes] = flushRequest'[t]
    BY ZenonT(60), <2>7, <2>8, <2>9
  <2>11. flushRequest' = [flushRequest EXCEPT ![t].done = yes]
    <3>1. /\ flushRequest = [u \in Threads |-> flushRequest[u]]
          /\ flushRequest' = [u \in Threads |-> flushRequest'[u]]
      BY ZenonT(60) DEF flushRequest
    <3> QED BY SMT, Z3, <2>3, <2>4, <2>10, <3>1
  <2> QED BY ZenonT(60), <2>5, <2>11
<1>7. table[k] = held[t] /\ held[t] # NULL
  <2>1. held[t] \in in_cache /\ held[t] # NULL
    BY ZenonT(60), <1>2, HandleFacts DEF PoolInv
  <2> QED BY ZenonT(60), <1>2, <2>1 DEF CacheInv, TableMatchesCache
<1>8. /\ page'[frame(t)][1] = req[t]
      /\ \A f \in Frames \ {frame(t)} : page'[f] = page[f]
  <2>1. page \in [Frames -> [Halves -> Requests \cup {NULL}]]
    BY ZenonT(60) DEF PoolInv, PoolTypeOK
  <2> QED BY ZenonT(60), <1>2, <1>3, <2>1 DEF Halves
<1>9. /\ poolContents = [j \in Keys |-> IF table[j] = NULL THEN NULL
                                         ELSE Holds(page[value[table[j]]][1], j)]
      /\ poolContents' = [j \in Keys |-> IF table'[j] = NULL THEN NULL
                                          ELSE Holds(page'[value'[table'[j]]][1], j)]
  BY ZenonT(60), ContentsNow, ContentsThen DEF PoolInv
<1>10. poolContents'[k] = d
  <2>1. req[t] # NULL
    BY ZenonT(60), <1>2, WorkersAssumption
  <2>2. Holds(req[t], k) = d
    BY ZenonT(60), <2>1 DEF Holds
  <2>3. k \in Keys /\ value[table[k]] = frame(t)
    BY ZenonT(60), <1>2, <1>7 DEF frame
  <2> QED BY ZenonT(60), <1>4, <1>7, <1>8, <1>9, <2>2, <2>3
<1>11. \A j \in Keys \ {k} : poolContents'[j] = poolContents[j]
  <2> SUFFICES ASSUME NEW j \in Keys \ {k}, table[j] # NULL
               PROVE  page'[value[table[j]]] = page[value[table[j]]]
    BY ZenonT(60), <1>4, <1>9
  <2>1. table[j] \in live /\ key[table[j]] = j
    BY ZenonT(60) DEF CacheInv, TableMatchesCache
  <2>2. table[j] # held[t]
    BY ZenonT(60), <1>2, <2>1
  <2>3. value[table[j]] \in Frames /\ value[table[j]] # frame(t)
    BY ZenonT(60), <1>2, <2>1, <2>2, HandleFacts DEF PoolInv
  <2> QED BY ZenonT(60), <1>8, <2>3
<1>12. poolContents' = [poolContents EXCEPT ![k] = d]
  BY ZenonT(40), <1>9, <1>10, <1>11
<1>13. /\ flushRequest[t].page_id = k /\ flushRequest[t].page_data = d
       /\ ~ flushRequest[t].done
  BY <1>5
<1> QED BY ZenonT(60), <1>5, <1>6, <1>12, <1>13 DEF Pool!Apply

\* The end of a handler is the pool's End for a flush, and unseen otherwise.
LEMMA ReleasePageEnds ==
  ASSUME CacheInv, PoolInv, CacheInv', PoolInv', NEW t \in Threads, ReleasePage(t)
  PROVE  Pool!End(t) \/ (poolContents' = poolContents /\ flushRequest' = flushRequest)
<1>1. /\ pc[t] = "release" /\ pc' = [pc EXCEPT ![t] = "idle"]
      /\ req' = [req EXCEPT ![t] = NoRequest] /\ Release(t) /\ page' = page
  BY DEF ReleasePage, At
<1>2. table' = table /\ value' = value
  BY ZenonT(30), <1>1, ReleaseStep DEF PoolInv
<1>3. /\ pc'[t] = "idle" /\ req'[t].page_data = NULL
      /\ \A u \in Threads \ {t} : pc'[u] = pc[u] /\ req'[u] = req[u]
  BY ZenonT(60), <1>1 DEF PoolInv, PoolTypeOK, NoRequest
<1>4. CASE req[t].page_data = NULL
  BY ZenonT(60), <1>1, <1>2, <1>3, <1>4, UnseenStep
<1>5. CASE req[t].page_data # NULL
  <2>1. flushRequest[t] # NULL
    BY ZenonT(60), <1>5, FlushingIsSome
  <2>2. flushRequest[t].done
    <3>1. flushRequest[t] = [page_id |-> req[t].page_id, page_data |-> req[t].page_data,
                             done |-> pc[t] \notin {"lock", "copy1"}]
      BY ZenonT(60), <2>1, FlushFacts
    <3>2. flushRequest[t].done = (pc[t] \notin {"lock", "copy1"})
      BY <3>1
    <3>3. (pc[t] \notin {"lock", "copy1"}) = TRUE
      BY ZenonT(60), <1>1
    <3> QED BY ZenonT(60), <3>2, <3>3
  <2>3. flushRequest' = [flushRequest EXCEPT ![t] = NULL]
    <3>1. flushRequest'[t] = NULL
      BY ZenonT(60), <1>3 DEF flushRequest
    <3>2. \A u \in Threads \ {t} : flushRequest'[u] = flushRequest[u]
      BY ZenonT(60), <1>3 DEF flushRequest
    <3>3. /\ flushRequest = [u \in Threads |-> flushRequest[u]]
          /\ flushRequest' = [u \in Threads |-> flushRequest'[u]]
      BY ZenonT(60) DEF flushRequest
    <3> QED BY ZenonT(60), <3>1, <3>2, <3>3
  <2>4. poolContents' = poolContents
    <3>1. /\ poolContents = [k \in Keys |-> IF table[k] = NULL THEN NULL
                                             ELSE Holds(page[value[table[k]]][1], k)]
          /\ poolContents' = [k \in Keys |-> IF table'[k] = NULL THEN NULL
                                              ELSE Holds(page'[value'[table'[k]]][1], k)]
      BY ZenonT(60), ContentsNow, ContentsThen DEF PoolInv
    <3> QED BY ZenonT(60), <1>1, <1>2, <3>1
  <2> QED BY ZenonT(60), <2>1, <2>2, <2>3, <2>4 DEF Pool!End
<1> QED BY ZenonT(60), <1>4, <1>5

\* Every step of a worker is a step of the pool or unseen.
LEMMA WorkerRefines ==
  ASSUME CacheInv, PoolInv, CacheInv', PoolInv', NEW t \in Threads, Worker(t)
  PROVE  Pool!Next \/ (poolContents' = poolContents /\ flushRequest' = flushRequest)
<1>1. CASE \E k \in Keys, d \in Data : FlushPin(t, k, d)
  BY ZenonT(60), <1>1, FlushPinRequests DEF Pool!Next
<1>2. CASE FlushLock(t)
  <2>1. /\ pc[t] = "lock" /\ pc' = [pc EXCEPT ![t] = "copy1"] /\ UNCHANGED cacheVars
        /\ req' = req /\ page' = page
    BY ZenonT(60), <1>2 DEF FlushLock, At
  <2>2. table' = table /\ value' = value
    BY ZenonT(60), <2>1 DEF cacheVars
  <2>3. pc'[t] = "copy1" /\ \A u \in Threads \ {t} : pc'[u] = pc[u]
    BY ZenonT(60), <2>1 DEF PoolInv, PoolTypeOK
  <2> QED BY ZenonT(60), <2>1, <2>2, <2>3, UnseenStep
<1>3. CASE FlushCopyFirst(t)
  BY ZenonT(60), <1>3, FlushCopyApplies DEF Pool!Next
<1>4. CASE FlushCopySecond(t)
  <2>1. /\ pc[t] = "copy2" /\ pc' = [pc EXCEPT ![t] = "copyid"] /\ UNCHANGED cacheVars
        /\ req' = req /\ page' = [page EXCEPT ![frame(t)][2] = req[t]]
    BY ZenonT(60), <1>4 DEF FlushCopySecond, At
  <2>2. table' = table /\ value' = value
    BY ZenonT(60), <2>1 DEF cacheVars
  <2>3. pc'[t] = "copyid" /\ \A u \in Threads \ {t} : pc'[u] = pc[u]
    BY ZenonT(60), <2>1 DEF PoolInv, PoolTypeOK
  <2>4. \A h \in live : page'[value[h]][1] = page[value[h]][1]
    <3>1. \A h \in live : value[h] \in Frames
      BY ZenonT(60), HandleFacts DEF PoolInv
    <3>2. \A f \in Frames : page'[f][1] = page[f][1]
      <4>1. page \in [Frames -> [Halves -> Requests \cup {NULL}]]
        BY ZenonT(60) DEF PoolInv, PoolTypeOK
      <4> QED BY SMT, Z3, <2>1, <4>1 DEF Halves
    <3> QED BY ZenonT(60), <3>1, <3>2
  <2> QED BY ZenonT(60), <2>1, <2>2, <2>3, <2>4, UnseenStep
<1>5. CASE FlushCopyId(t)
  <2>1. /\ pc[t] = "copyid" /\ pc' = [pc EXCEPT ![t] = "release"] /\ UNCHANGED cacheVars
        /\ req' = req /\ page' = page
    BY ZenonT(60), <1>5 DEF FlushCopyId, At
  <2>2. table' = table /\ value' = value
    BY ZenonT(60), <2>1 DEF cacheVars
  <2>3. pc'[t] = "release" /\ \A u \in Threads \ {t} : pc'[u] = pc[u]
    BY ZenonT(60), <2>1 DEF PoolInv, PoolTypeOK
  <2> QED BY ZenonT(60), <2>1, <2>2, <2>3, UnseenStep
<1>6. ASSUME NEW k \in Keys, AccessLookup(t, k)
      PROVE  poolContents' = poolContents /\ flushRequest' = flushRequest
  <2>1. /\ req' = [req EXCEPT ![t] = [page_id |-> k, page_data |-> NULL]]
        /\ pc' = [pc EXCEPT ![t] = "release"] /\ Lookup(t, k) /\ page' = page
    BY ZenonT(60), <1>6 DEF AccessLookup, At, Take
  <2>2. held[t] = NULL /\ req[t].page_data = NULL
    BY ZenonT(60), <2>1 DEF Lookup, PoolInv, WorkerInv
  <2>3. table' = table /\ value' = value
    <3>1. CASE table[k] # NULL
      <4>1. Ref(t, table[k])
        BY ZenonT(60), <2>1, <3>1 DEF Lookup
      <4> QED BY ZenonT(60), <2>2, <3>1, <4>1, HitStep
    <3>2. CASE table[k] = NULL
      BY ZenonT(60), <2>1, <3>2 DEF Lookup, cacheVars
    <3> QED BY ZenonT(60), <3>1, <3>2
  <2>4. /\ req'[t].page_data = NULL
        /\ \A u \in Threads \ {t} : pc'[u] = pc[u] /\ req'[u] = req[u]
    BY ZenonT(60), <2>1 DEF PoolInv, PoolTypeOK
  <2> QED BY ZenonT(60), <2>1, <2>2, <2>3, <2>4, UnseenStep
<1>7. CASE ReleasePage(t)
  BY ZenonT(60), <1>7, ReleasePageEnds DEF Pool!Next
<1>8. CASE ReleaseNull(t)
  <2>1. /\ pc' = [pc EXCEPT ![t] = "idle"] /\ UNCHANGED cacheVars
        /\ held[t] = NULL /\ req' = req /\ page' = page
    BY ZenonT(60), <1>8 DEF ReleaseNull, At
  <2>2. table' = table /\ value' = value
    BY ZenonT(60), <2>1 DEF cacheVars
  <2>3. req[t].page_data = NULL
    BY ZenonT(30), <2>1 DEF PoolInv, WorkerInv
  <2>4. \A u \in Threads \ {t} : pc'[u] = pc[u]
    BY ZenonT(60), <2>1 DEF PoolInv, PoolTypeOK
  <2> QED BY ZenonT(60), <2>1, <2>2, <2>3, <2>4, UnseenStep
<1> QED BY ZenonT(40), <1>1, <1>2, <1>3, <1>4, <1>5, <1>6, <1>7, <1>8 DEF Worker

\* The handlers of the server, with their cache, implement PagePool.
THEOREM ServerImplementsPagePool == Spec => ImplementsPagePool
<1>1. Init => Pool!Init
  <2> SUFFICES ASSUME Init
               PROVE  Pool!Init
    BY ZenonT(60)
  <2>1. poolContents = [k \in Keys |-> NULL]
    BY ZenonT(60) DEF Init, CacheInit, poolContents
  <2>2. flushRequest = [t \in Threads |-> NULL]
    BY ZenonT(60) DEF Init, flushRequest, NoRequest
  <2> QED BY ZenonT(60), <2>1, <2>2 DEF Pool!Init
<1>2. (CacheInv /\ PoolInv) /\ (CacheInv /\ PoolInv)' /\ [Next]_vars
        => [Pool!Next]_<<poolContents, flushRequest>>
  <2> SUFFICES ASSUME CacheInv, PoolInv, CacheInv', PoolInv', [Next]_vars
               PROVE  Pool!Next \/ UNCHANGED <<poolContents, flushRequest>>
    BY ZenonT(60)
  <2>1. CASE Next
    BY ZenonT(60), <2>1, WorkerRefines DEF Next
  <2>2. CASE UNCHANGED vars
    BY ZenonT(60), <2>2 DEF vars, cacheVars, poolVars, poolContents, flushRequest
  <2> QED BY ZenonT(60), <2>1, <2>2
<1> QED BY <1>1, <1>2, PoolInvariant, PTL DEF Spec, ImplementsPagePool, Pool!Spec
=============================================================================
