--------------------------- MODULE LRUCacheProofs ---------------------------
(***************************************************************************)
(* The invariants of LRUCache, proved for every number of shards, frames,  *)
(* keys, handles and callers: the lists and the reference counts, what an  *)
(* insertion evicts, that every operation preserves the inductive          *)
(* invariant CacheInv, and the theorems.                                   *)
(***************************************************************************)
EXTENDS LRUCache, TLAPS, FiniteSetTheorems

\* A step that names no prover has 30 seconds of SMT.
USE SMTT(30)

-----------------------------------------------------------------------------
(***************************************************************************)
(* The list operations.                                                    *)
(***************************************************************************)
\* LRU_Remove takes exactly e out of a list without repetitions.
LEMMA RemoveFromList ==
  ASSUME NEW S, NEW s \in Seq(S), IsInjective(s), NEW e
  PROVE  /\ LRU_Remove(s, e) \in Seq(S)
         /\ IsInjective(LRU_Remove(s, e))
         /\ Range(LRU_Remove(s, e)) = Range(s) \ {e}
<1>1. CASE e \notin Range(s)
  BY <1>1 DEF LRU_Remove
<1>2. CASE e \in Range(s)
  <2> DEFINE p == CHOOSE i \in 1 .. Len(s) : s[i] = e
             r == [i \in 1 .. Len(s) - 1 |-> IF i < p THEN s[i] ELSE s[i + 1]]
  <2>1. p \in 1 .. Len(s) /\ s[p] = e
    BY <1>2 DEF Range
  <2>2. LRU_Remove(s, e) = r
    BY <1>2 DEF LRU_Remove
  <2> HIDE DEF p
  <2>3. Len(s) - 1 \in Nat /\ \A i \in 1 .. Len(s) - 1 : r[i] \in S
    BY <2>1
  <2>4. r \in Seq(S) /\ Len(r) = Len(s) - 1
    BY <2>3
  <2>5. IsInjective(r)
    BY <2>1 DEF IsInjective
  <2>6. Range(r) = Range(s) \ {e}
    <3>1. ASSUME NEW x \in Range(r) PROVE x \in Range(s) \ {e}
      <4>1. PICK i \in 1 .. Len(s) - 1 : x = r[i]
        BY DEF Range
      <4> QED BY <4>1, <2>1 DEF Range, IsInjective
    <3>2. ASSUME NEW x \in Range(s), x # e PROVE x \in Range(r)
      <4>1. PICK i \in 1 .. Len(s) : x = s[i]
        BY DEF Range
      <4>2. CASE i < p
        <5>1. i \in 1 .. Len(s) - 1 /\ r[i] = x
          BY <4>1, <4>2, <2>1
        <5> QED BY <5>1 DEF Range
      <4>3. CASE i > p
        <5>1. i - 1 \in 1 .. Len(s) - 1 /\ r[i - 1] = x
          BY <4>1, <4>3, <2>1
        <5> QED BY <5>1 DEF Range
      <4> QED BY <4>1, <4>2, <4>3, <2>1, <3>2
    <3> QED BY <3>1, <3>2
  <2> QED BY <2>2, <2>4, <2>5, <2>6
<1> QED BY <1>1, <1>2

\* LRU_Append adds e to a list that does not have it.
LEMMA AppendToList ==
  ASSUME NEW S, NEW s \in Seq(S), IsInjective(s), NEW e \in S, e \notin Range(s)
  PROVE  /\ LRU_Append(s, e) \in Seq(S)
         /\ IsInjective(LRU_Append(s, e))
         /\ Range(LRU_Append(s, e)) = Range(s) \cup {e}
<1> DEFINE r == Append(s, e)
<1>1. /\ r \in Seq(S) /\ Len(r) = Len(s) + 1
      /\ \A i \in 1 .. Len(s) : r[i] = s[i]
      /\ r[Len(s) + 1] = e
  OBVIOUS
<1> HIDE DEF r
<1>2. DOMAIN r = 1 .. Len(s) + 1 /\ DOMAIN s = 1 .. Len(s) /\ Len(s) \in Nat
  BY <1>1
<1>3. IsInjective(r)
  BY <1>1, <1>2 DEF IsInjective, Range
<1>4. Range(r) = Range(s) \cup {e}
  BY <1>1, <1>2 DEF Range
<1> QED BY <1>1, <1>3, <1>4 DEF r, LRU_Append

\* DropOldest takes exactly the n oldest entries out of a list without
\* repetitions.
LEMMA DropFromList ==
  ASSUME NEW S, NEW s \in Seq(S), IsInjective(s), NEW n \in 0 .. Len(s)
  PROVE  /\ DropOldest(s, n) \in Seq(S)
         /\ IsInjective(DropOldest(s, n))
         /\ Range(DropOldest(s, n)) = Range(s) \ {s[i] : i \in 1 .. n}
<1> DEFINE r == SubSeq(s, n + 1, Len(s))
<1>1. /\ r \in Seq(S) /\ Len(r) = Len(s) - n
      /\ \A i \in 1 .. Len(s) - n : r[i] = s[n + i]
  OBVIOUS
<1> HIDE DEF r
<1>2. DOMAIN r = 1 .. Len(s) - n /\ DOMAIN s = 1 .. Len(s) /\ Len(s) \in Nat
  BY <1>1
<1>3. IsInjective(r)
  <2>1. ASSUME NEW i \in 1 .. Len(s) - n, NEW j \in 1 .. Len(s) - n, r[i] = r[j]
        PROVE  i = j
    <3>1. s[n + i] = s[n + j] /\ n + i \in DOMAIN s /\ n + j \in DOMAIN s
      BY <1>1, <1>2, <2>1
    <3>2. n + i = n + j
      BY <3>1 DEF IsInjective
    <3> QED BY <3>2
  <2> QED BY <2>1, <1>2 DEF IsInjective
<1>4. ASSUME NEW x \in Range(r) PROVE x \in Range(s) \ {s[i] : i \in 1 .. n}
  <2>1. PICK i \in 1 .. Len(s) - n : x = s[n + i]
    BY <1>1, <1>2 DEF Range
  <2> QED BY <2>1, <1>2 DEF Range, IsInjective
<1>5. ASSUME NEW x \in Range(s), x \notin {s[i] : i \in 1 .. n} PROVE x \in Range(r)
  <2>1. PICK i \in 1 .. Len(s) : x = s[i]
    BY <1>2 DEF Range
  <2>2. i - n \in 1 .. Len(s) - n /\ r[i - n] = x
    BY <2>1, <1>5, <1>1
  <2> QED BY <2>2, <1>2 DEF Range
<1> QED BY <1>1, <1>3, <1>4, <1>5 DEF r, DropOldest

-----------------------------------------------------------------------------
(***************************************************************************)
(* The callers' references.                                                *)
(***************************************************************************)
\* The callers that hold a handle are finitely many.
LEMMA HoldersFinite ==
  ASSUME NEW h
  PROVE  IsFiniteSet(Holders(h)) /\ Cardinality(Holders(h)) \in Nat
BY ConstantsAssumption, FS_Subset, FS_CardinalityType DEF Holders

\* A caller that held nothing gets e.
LEMMA HoldersAdd ==
  ASSUME CacheTypeOK, NEW t \in Threads, NEW e \in Handles, held[t] = NULL,
         held' = [held EXCEPT ![t] = e],
         NEW h \in Handles
  PROVE  Cardinality(Holders(h)') = Cardinality(Holders(h)) + (IF h = e THEN 1 ELSE 0)
<1>1. held \in [Threads -> Handles \cup {NULL}] /\ NULL \notin Handles
  BY ConstantsAssumption DEF CacheTypeOK
<1>2. CASE h = e
  <2>1. Holders(h)' = Holders(h) \cup {t} /\ t \notin Holders(h)
    BY <1>1, <1>2 DEF Holders
  <2> QED BY ZenonT(60), <2>1, <1>2, HoldersFinite, FS_AddElement
<1>3. CASE h # e
  <2>1. Holders(h)' = Holders(h)
    BY <1>1, <1>3 DEF Holders
  <2> QED BY <2>1, <1>3, HoldersFinite
<1> QED BY <1>2, <1>3

\* A caller that held e gives it back.
LEMMA HoldersDrop ==
  ASSUME CacheTypeOK, NEW t \in Threads, held[t] \in Handles,
         held' = [held EXCEPT ![t] = NULL],
         NEW h \in Handles
  PROVE  /\ Cardinality(Holders(h)') = Cardinality(Holders(h)) - (IF h = held[t] THEN 1 ELSE 0)
         /\ h = held[t] => Cardinality(Holders(h)) >= 1
<1>1. held \in [Threads -> Handles \cup {NULL}] /\ NULL \notin Handles
  BY ConstantsAssumption DEF CacheTypeOK
<1>2. CASE h = held[t]
  <2>1. Holders(h)' = Holders(h) \ {t} /\ t \in Holders(h)
    BY <1>1, <1>2 DEF Holders
  <2>2. Cardinality(Holders(h)') = Cardinality(Holders(h)) - 1 /\ Cardinality(Holders(h)) # 0
    BY ZenonT(60), <2>1, HoldersFinite, FS_RemoveElement, FS_EmptySet
  <2> QED BY <2>2, <1>2, HoldersFinite
<1>3. CASE h # held[t]
  <2>1. Holders(h)' = Holders(h)
    BY <1>1, <1>3 DEF Holders
  <2> QED BY <2>1, <1>3, HoldersFinite
<1> QED BY <1>2, <1>3

-----------------------------------------------------------------------------
(***************************************************************************)
(* The inductive invariant: each conjunct needs the others.  The lists say *)
(* whom an eviction deletes, the count that nobody holds the deleted, the  *)
(* table that the deleted handle is the one found under its key.           *)
(***************************************************************************)
CacheInv ==
  /\ CacheTypeOK
  /\ OnOneList
  /\ TableMatchesCache
  /\ RefsCounted
  /\ HeldIsLive
  /\ UsageCounted
  /\ FramesExclusive

\* The constructor: empty lists and table, every page frame in freelist_.
LEMMA InitEstablishes == CacheInit => CacheInv
<1> SUFFICES ASSUME CacheInit PROVE CacheInv
  OBVIOUS
<1> USE DEF CacheInit
<1>1. /\ [i \in Frames |-> i] \in Seq(Frames)
      /\ Range([i \in Frames |-> i]) \subseteq Frames
      /\ IsInjective([i \in Frames |-> i])
  BY ConstantsAssumption DEF Frames, Range, IsInjective
<1>2. CacheTypeOK
  BY <1>1, ConstantsAssumption DEF CacheTypeOK
<1>3. OnOneList
  BY DEF OnOneList, Range, IsInjective
<1>4. TableMatchesCache /\ RefsCounted /\ HeldIsLive
  BY DEF TableMatchesCache, RefsCounted, HeldIsLive
<1>5. UsageCounted
  <2>1. \A s \in Shards : {h \in in_cache : shardOf(h) = s} = {}
    OBVIOUS
  <2> QED BY <2>1, FS_EmptySet DEF UsageCounted
<1>6. FramesExclusive
  BY <1>1 DEF FramesExclusive
<1> QED BY <1>2, <1>3, <1>4, <1>5, <1>6 DEF CacheInv

\* A hit of Lookup or LookupInsert.
LEMMA RefPreserves ==
  ASSUME CacheInv, NEW t \in Threads, held[t] = NULL, NEW e \in in_cache, Ref(t, e)
  PROVE  CacheInv'
<1> USE DEF CacheInv
<1>1. /\ e \in Handles /\ e \in live /\ refs[e] \in Nat /\ refs[e] >= 1
      /\ key[e] \in Keys /\ shardOf(e) \in Shards
  <2>1. e \in Handles /\ e \in live /\ key[e] \in Keys /\ refs[e] \in Nat
    BY DEF CacheTypeOK, TableMatchesCache
  <2>2. refs[e] >= 1
    BY <2>1, HoldersFinite DEF RefsCounted
  <2> QED BY <2>1, <2>2, ConstantsAssumption DEF shardOf
<1>2. /\ refs' = [refs EXCEPT ![e] = @ + 1]
      /\ held' = [held EXCEPT ![t] = e]
      /\ UNCHANGED <<live, key, value, in_cache, table, usage, freelist>>
  BY DEF Ref
<1>3. \A h : shardOf(h)' = shardOf(h)
  BY <1>2 DEF shardOf
<1>4. refs' \in [Handles -> Nat] /\ refs'[e] = refs[e] + 1
      /\ \A h \in Handles : h # e => refs'[h] = refs[h]
  BY <1>1, <1>2 DEF CacheTypeOK
<1>5. ASSUME refs[e] = 1 PROVE CacheTypeOK' /\ OnOneList'
  <2> DEFINE l == LRU_Remove(lru[shardOf(e)], e)
  <2>1. lru' = [lru EXCEPT ![shardOf(e)] = l] /\ in_use' = in_use \cup {e}
    BY ZenonT(60), <1>5 DEF Ref
  <2>2. /\ l \in Seq(Handles) /\ IsInjective(l)
        /\ Range(l) = Range(lru[shardOf(e)]) \ {e}
    BY <1>1, RemoveFromList DEF CacheTypeOK, OnOneList
  <2> HIDE DEF l
  <2>3. CacheTypeOK'
    BY ZenonT(60), <1>1, <1>2, <1>4, <2>1, <2>2 DEF CacheTypeOK
  <2>4. OnOneList'
    <3>1. ASSUME NEW s \in Shards
          PROVE  /\ Range(lru'[s]) = {h \in in_cache' : refs'[h] = 1 /\ shardOf(h)' = s}
                 /\ IsInjective(lru'[s])
      <4>1. CASE s = shardOf(e)
        BY <4>1, <1>1, <1>2, <1>3, <1>4, <2>1, <2>2 DEF OnOneList, CacheTypeOK
      <4>2. CASE s # shardOf(e)
        BY ZenonT(60), <4>2, <1>1, <1>2, <1>3, <1>4, <2>1 DEF OnOneList, CacheTypeOK
      <4> QED BY ZenonT(60), <4>1, <4>2
    <3>2. in_use' = {h \in in_cache' : refs'[h] >= 2}
      BY <1>1, <1>2, <1>4, <1>5, <2>1 DEF OnOneList, CacheTypeOK
    <3> QED BY ZenonT(60), <3>1, <3>2 DEF OnOneList
  <2> QED BY ZenonT(60), <2>3, <2>4
<1>6. ASSUME refs[e] # 1 PROVE CacheTypeOK' /\ OnOneList'
  <2>1. UNCHANGED <<lru, in_use>>
    BY ZenonT(60), <1>6 DEF Ref
  <2>2. CacheTypeOK'
    BY ZenonT(60), <1>1, <1>2, <1>4, <2>1 DEF CacheTypeOK
  <2>3. OnOneList'
    BY <1>1, <1>2, <1>3, <1>4, <1>6, <2>1 DEF OnOneList, CacheTypeOK
  <2> QED BY <2>2, <2>3
<1>7. TableMatchesCache'
  BY ZenonT(60), <1>2 DEF TableMatchesCache
<1>8. RefsCounted'
  <2> SUFFICES ASSUME NEW h \in live
               PROVE  refs'[h] = Cardinality(Holders(h)') + (IF h \in in_cache THEN 1 ELSE 0)
    BY ZenonT(60), <1>2 DEF RefsCounted
  <2>1. h \in Handles /\ refs[h] = Cardinality(Holders(h)) + (IF h \in in_cache THEN 1 ELSE 0)
    BY DEF CacheTypeOK, RefsCounted
  <2>2. Cardinality(Holders(h)') = Cardinality(Holders(h)) + (IF h = e THEN 1 ELSE 0)
    BY ZenonT(60), <1>1, <1>2, <2>1, HoldersAdd
  <2> QED BY <2>1, <2>2, <1>4, HoldersFinite
<1>9. HeldIsLive'
  BY ZenonT(60), <1>1, <1>2 DEF HeldIsLive, CacheTypeOK
<1>10. UsageCounted'
  BY ZenonT(60), <1>2, <1>3 DEF UsageCounted
<1>11. FramesExclusive'
  BY <1>2 DEF FramesExclusive
<1> QED BY ZenonT(60), <1>5, <1>6, <1>7, <1>8, <1>9, <1>10, <1>11

\* The field of a handle that is not deleted.
LEMMA FreeKeeps ==
  ASSUME NEW f, NEW S, NEW h \in Handles
  PROVE  Free(f, S)[h] = IF h \in S THEN NULL ELSE f[h]
BY DEF Free

\* Release, with the deletion of a handle that left the cache earlier.
LEMMA ReleasePreserves ==
  ASSUME CacheInv, NEW t \in Threads, Release(t)
  PROVE  CacheInv'
<1> USE DEF CacheInv
<1> DEFINE e == held[t]
           n == refs[e] - 1
           gone == IF n = 0 THEN {e} ELSE {}
<1>1. /\ e # NULL
      /\ refs' = [refs EXCEPT ![e] = n]
      /\ live' = live \ gone
      /\ key' = Free(key, gone)
      /\ value' = Free(value, gone)
      /\ held' = [held EXCEPT ![t] = NULL]
      /\ UNCHANGED <<in_cache, table, usage, freelist>>
  BY DEF Release
<1>2. e \in Handles /\ e \in live
  BY <1>1 DEF CacheTypeOK, HeldIsLive
<1>3. ASSUME NEW h \in Handles
      PROVE  Cardinality(Holders(h)') = Cardinality(Holders(h)) - (IF h = e THEN 1 ELSE 0)
  BY ZenonT(60), <1>1, <1>2, HoldersDrop
<1>4. refs[e] \in Nat /\ refs[e] >= 1 /\ (e \in in_cache => refs[e] >= 2)
  <2>1. Cardinality(Holders(e)) >= 1 /\ Cardinality(Holders(e)) \in Nat
    BY ZenonT(60), <1>1, <1>2, HoldersDrop, HoldersFinite
  <2> QED BY <2>1, <1>2 DEF RefsCounted
<1>5. n \in Nat /\ (e \in in_cache => n >= 1)
  BY <1>4
<1>6. /\ refs' \in [Handles -> Nat] /\ refs'[e] = n
      /\ \A h \in Handles : h # e => refs'[h] = refs[h]
  BY ZenonT(60), <1>1, <1>2, <1>5 DEF CacheTypeOK
<1>7. gone \subseteq {e} /\ gone \cap in_cache = {} /\ gone \subseteq Handles
  BY <1>2, <1>5
<1>8. \A h \in Handles : h \notin gone => key'[h] = key[h] /\ value'[h] = value[h]
  BY <1>1, FreeKeeps
<1>9. \A h \in in_cache : h \in Handles /\ key'[h] = key[h] /\ shardOf(h)' = shardOf(h)
  BY ZenonT(60), <1>7, <1>8 DEF CacheTypeOK, shardOf
<1>10. /\ key' \in [Handles -> Keys \cup {NULL}]
       /\ value' \in [Handles -> Frames \cup {NULL}]
  BY ZenonT(60), <1>1 DEF Free, CacheTypeOK
<1>11. held' \in [Threads -> Handles \cup {NULL}] /\ live' \subseteq Handles
  BY <1>1 DEF CacheTypeOK
<1> HIDE DEF gone
<1>12. CacheTypeOK' /\ OnOneList'
  <2>1. CASE n = 1 /\ e \in in_cache
    <3> DEFINE s0 == shardOf(e)
               l == LRU_Append(lru[s0], e)
    <3>1. in_use' = in_use \ {e} /\ lru' = [lru EXCEPT ![s0] = l]
      BY ZenonT(60), <2>1 DEF Release
    <3>2. s0 \in Shards /\ e \notin Range(lru[s0])
      BY <2>1, <1>4, ConstantsAssumption DEF shardOf, TableMatchesCache, OnOneList
    <3>3. /\ l \in Seq(Handles) /\ IsInjective(l)
          /\ Range(l) = Range(lru[s0]) \cup {e}
      BY <3>2, <1>2, AppendToList DEF CacheTypeOK, OnOneList
    <3> HIDE DEF l
    <3>4. CacheTypeOK'
      BY ZenonT(60), <1>1, <1>6, <1>10, <1>11, <3>1, <3>2, <3>3 DEF CacheTypeOK
    <3>5. ASSUME NEW s \in Shards
          PROVE  /\ Range(lru'[s]) = {h \in in_cache' : refs'[h] = 1 /\ shardOf(h)' = s}
                 /\ IsInjective(lru'[s])
      <4>1. \A h \in in_cache : refs'[h] = 1 <=> refs[h] = 1 \/ h = e
        BY ZenonT(60), <1>6, <1>9, <2>1
      <4>2. CASE s = s0
        BY <4>1, <4>2, <1>1, <1>9, <2>1, <3>1, <3>3 DEF OnOneList, CacheTypeOK
      <4>3. CASE s # s0
        BY SMTT(90), <4>1, <4>3, <1>1, <1>9, <2>1, <3>1 DEF OnOneList, CacheTypeOK
      <4> QED BY ZenonT(60), <4>2, <4>3
    <3>6. in_use' = {h \in in_cache' : refs'[h] >= 2}
      BY <1>1, <1>6, <1>9, <2>1, <3>1 DEF OnOneList, CacheTypeOK
    <3> QED BY ZenonT(60), <3>4, <3>5, <3>6 DEF OnOneList
  <2>2. CASE ~(n = 1 /\ e \in in_cache)
    <3>1. UNCHANGED <<lru, in_use>>
      BY ZenonT(60), <2>2 DEF Release
    <3>2. \A h \in in_cache : /\ refs'[h] = 1 <=> refs[h] = 1
                              /\ refs'[h] >= 2 <=> refs[h] >= 2
      BY <1>4, <1>5, <1>6, <1>9, <2>2
    <3> QED BY SMTT(90), <1>1, <1>6, <1>9, <1>10, <1>11, <3>1, <3>2 DEF OnOneList, CacheTypeOK
  <2> QED BY ZenonT(60), <2>1, <2>2
<1>13. TableMatchesCache'
  <2>1. \A h \in in_cache : h \notin gone
    BY ZenonT(60), <1>7
  <2> QED BY <2>1, <1>1, <1>9 DEF TableMatchesCache
<1>14. RefsCounted'
  <2> SUFFICES ASSUME NEW h \in live'
               PROVE  refs'[h] = Cardinality(Holders(h)') + (IF h \in in_cache THEN 1 ELSE 0)
    BY ZenonT(60), <1>1 DEF RefsCounted
  <2>1. h \in live /\ h \in Handles
    BY <1>1 DEF CacheTypeOK
  <2>2. refs[h] = Cardinality(Holders(h)) + (IF h \in in_cache THEN 1 ELSE 0)
    BY <2>1 DEF RefsCounted
  <2> QED BY <2>1, <2>2, <1>3, <1>6, HoldersFinite
<1>15. HeldIsLive'
  <2> SUFFICES ASSUME NEW u \in Threads, held'[u] # NULL PROVE held'[u] \in live'
    BY ZenonT(60) DEF HeldIsLive
  <2>1. u # t /\ held'[u] = held[u] /\ held[u] \in live /\ held[u] \in Handles
    BY ZenonT(60), <1>1 DEF HeldIsLive, CacheTypeOK
  <2>2. CASE held[u] = e
    <3>0. PICK g \in Handles : g = e
      BY ZenonT(60), <1>2
    <3>1. u \in Holders(g)'
      BY ZenonT(60), <2>1, <2>2, <3>0 DEF Holders
    <3>2. Cardinality(Holders(g)') # 0
      <4>1. IsFiniteSet(Holders(g)')
        BY ZenonT(60), ConstantsAssumption, FS_Subset DEF Holders
      <4> QED BY ZenonT(60), <3>1, <4>1, FS_EmptySet
    <3>3. n # 0
      <4>1. refs[g] = Cardinality(Holders(g)) + (IF g \in in_cache THEN 1 ELSE 0)
        BY ZenonT(60), <1>2, <3>0 DEF RefsCounted
      <4>2. Cardinality(Holders(g)') = Cardinality(Holders(g)) - 1
        BY <3>0, <1>3
      <4>3. Cardinality(Holders(g)) \in Nat
        BY ZenonT(60), HoldersFinite
      <4>4. refs[g] # 1
        BY <4>1, <4>2, <4>3, <3>0, <3>2, <1>4
      <4> QED BY <4>4, <3>0, <1>4
    <3> QED BY <3>3, <2>1, <2>2, <1>1 DEF gone
  <2>3. CASE held[u] # e
    BY <2>1, <2>3, <1>1, <1>7
  <2> QED BY ZenonT(60), <2>2, <2>3
<1>16. UsageCounted'
  <2>1. ASSUME NEW s \in Shards
        PROVE  {h \in in_cache' : shardOf(h)' = s} = {h \in in_cache : shardOf(h) = s}
    BY ZenonT(60), <1>1, <1>9
  <2> QED BY ZenonT(60), <2>1, <1>1 DEF UsageCounted
<1>17. FramesExclusive'
  <2>1. \A h \in live' : h \in live /\ h \in Handles /\ value'[h] = value[h]
    BY ZenonT(60), <1>1, <1>8 DEF CacheTypeOK
  <2> QED BY <2>1, <1>1 DEF FramesExclusive
<1> QED BY ZenonT(60), <1>12, <1>13, <1>14, <1>15, <1>16, <1>17

\* The entries of a shard are finitely many.
LEMMA CachedFinite ==
  ASSUME CacheTypeOK, NEW S, S \subseteq in_cache
  PROVE  IsFiniteSet(S) /\ Cardinality(S) \in Nat
BY ZenonT(60), ConstantsAssumption, FS_Subset, FS_CardinalityType DEF CacheTypeOK

\* A cached entry that nobody holds has one reference, and only such an entry.
LEMMA CachedRefs ==
  ASSUME CacheInv, NEW h \in in_cache
  PROVE  /\ h \in Handles /\ h \in live /\ key[h] \in Keys /\ shardOf(h) \in Shards
         /\ refs[h] \in Nat /\ refs[h] >= 1
         /\ refs[h] = Cardinality(Holders(h)) + 1
         /\ refs[h] = 1 => \A t \in Threads : held[t] # h
<1>1. h \in Handles /\ h \in live /\ key[h] \in Keys
  BY ZenonT(60) DEF CacheInv, CacheTypeOK, TableMatchesCache
<1>2. refs[h] = Cardinality(Holders(h)) + 1
  BY <1>1 DEF CacheInv, RefsCounted
<1>3. IsFiniteSet(Holders(h)) /\ Cardinality(Holders(h)) \in Nat
  BY ZenonT(60), HoldersFinite
<1>4. refs[h] = 1 => Holders(h) = {}
  BY <1>2, <1>3, FS_EmptySet
<1> QED BY <1>1, <1>2, <1>3, <1>4, ConstantsAssumption DEF Holders, shardOf

\* Erasing a set of entries of one shard, with what it leaves of the list.
LEMMA FinishErasePreserves ==
  ASSUME CacheInv, NEW s \in Shards, NEW out,
         \A h \in out : h \in in_cache /\ shardOf(h) = s,
         NEW rest \in Seq(Handles), IsInjective(rest), Range(rest) = Range(lru[s]) \ out,
         FinishErase(s, out, rest)
  PROVE  CacheInv'
<1> USE DEF CacheInv
<1> DEFINE gone == {h \in out : refs[h] = 1}
<1>1. /\ live' = live \ gone
      /\ key' = Free(key, gone)
      /\ value' = Free(value, gone)
      /\ refs' = [h \in Handles |-> IF h \in out THEN refs[h] - 1 ELSE refs[h]]
      /\ in_cache' = in_cache \ out
      /\ in_use' = in_use \ out
      /\ table' = [j \in Keys |-> IF table[j] \in out THEN NULL ELSE table[j]]
      /\ lru' = [lru EXCEPT ![s] = rest]
      /\ usage' = [usage EXCEPT ![s] = @ - Cardinality(out)]
      /\ UNCHANGED <<freelist, held>>
  BY ZenonT(60) DEF FinishErase
<1>2. \A h \in out : /\ h \in Handles /\ h \in live /\ refs[h] \in Nat /\ refs[h] >= 1
                     /\ refs[h] = 1 => \A t \in Threads : held[t] # h
  BY ZenonT(60), CachedRefs
<1>3. refs' \in [Handles -> Nat]
  BY SMTT(90), <1>1, <1>2 DEF CacheTypeOK
<1>4. \A h \in Handles : h \notin gone => key'[h] = key[h] /\ value'[h] = value[h]
  BY SMTT(90), <1>1, FreeKeeps
<1>5. \A h \in in_cache' : /\ h \in in_cache /\ h \notin out /\ h \in Handles
                           /\ key'[h] = key[h] /\ shardOf(h)' = shardOf(h)
                           /\ refs'[h] = refs[h]
  <2> SUFFICES ASSUME NEW h \in in_cache'
               PROVE  /\ h \in in_cache /\ h \notin out /\ h \in Handles
                      /\ key'[h] = key[h] /\ shardOf(h)' = shardOf(h)
                      /\ refs'[h] = refs[h]
    BY ZenonT(60)
  <2>1. h \in in_cache /\ h \notin out /\ h \in Handles
    BY ZenonT(60), <1>1 DEF CacheTypeOK
  <2>2. key'[h] = key[h] /\ refs'[h] = refs[h]
    BY ZenonT(60), <2>1, <1>1, <1>4
  <2> QED BY ZenonT(60), <2>1, <2>2 DEF shardOf
<1>6. /\ {h \in in_cache' : shardOf(h)' = s} = {h \in in_cache : shardOf(h) = s} \ out
      /\ \A r \in Shards : r # s => {h \in in_cache' : shardOf(h)' = r} = {h \in in_cache : shardOf(h) = r}
  BY ZenonT(60), <1>1, <1>5
<1>7. UsageCounted' /\ usage' \in [Shards -> Nat]
  <2> DEFINE S == {h \in in_cache : shardOf(h) = s}
  <2>1. /\ IsFiniteSet(S) /\ Cardinality(S) \in Nat /\ Cardinality(out) \in Nat
        /\ out \subseteq S /\ out = S \cap out
    BY CachedFinite
  <2>2. Cardinality(S \ out) = usage[s] - Cardinality(out) /\ Cardinality(S \ out) \in Nat
    <3>1. Cardinality(S \ out) = Cardinality(S) - Cardinality(S \cap out)
      BY ZenonT(60), <2>1, FS_Difference
    <3>2. Cardinality(S \ out) \in Nat
      BY ZenonT(60), CachedFinite
    <3> QED BY ZenonT(60), <3>1, <3>2, <2>1 DEF UsageCounted
  <2> HIDE DEF S
  <2>3. usage' \in [Shards -> Nat] /\ usage'[s] = Cardinality(S \ out)
    BY ZenonT(60), <2>2, <1>1 DEF CacheTypeOK
  <2>4. \A r \in Shards : r # s => usage'[r] = usage[r]
    BY ZenonT(60), <1>1 DEF CacheTypeOK
  <2> QED BY ZenonT(60), <2>3, <2>4, <1>6 DEF UsageCounted, S
<1>8. CacheTypeOK'
  <2>1. key' \in [Handles -> Keys \cup {NULL}] /\ value' \in [Handles -> Frames \cup {NULL}]
    BY ZenonT(60), <1>1 DEF Free, CacheTypeOK
  <2>2. table' \in [Keys -> Handles \cup {NULL}] /\ lru' \in [Shards -> Seq(Handles)]
    BY ZenonT(60), <1>1 DEF CacheTypeOK
  <2> QED BY ZenonT(60), <1>1, <1>3, <1>7, <2>1, <2>2 DEF CacheTypeOK
<1>9. OnOneList'
  <2>1. ASSUME NEW r \in Shards
        PROVE  /\ Range(lru'[r]) = {h \in in_cache' : refs'[h] = 1 /\ shardOf(h)' = r}
               /\ IsInjective(lru'[r])
    <3>1. CASE r = s
      <4>1. lru'[r] = rest
        BY ZenonT(60), <3>1, <1>1 DEF CacheTypeOK
      <4> QED BY ZenonT(60), <4>1, <3>1, <1>1, <1>5 DEF OnOneList
    <3>2. CASE r # s
      <4>1. lru'[r] = lru[r]
        BY ZenonT(60), <3>2, <1>1 DEF CacheTypeOK
      <4>2. \A h \in in_cache : shardOf(h) = r => h \in in_cache'
        <5>1. \A h \in in_cache : shardOf(h) = r => h \notin out
          BY ZenonT(60), <3>2
        <5>2. in_cache' = in_cache \ out
          BY ZenonT(60), <1>1
        <5> QED BY ZenonT(60), <5>1, <5>2
      <4>3. Range(lru'[r]) = {h \in in_cache' : refs'[h] = 1 /\ shardOf(h)' = r}
        BY SMTT(90), <4>1, <4>2, <1>5 DEF OnOneList
      <4> QED BY ZenonT(60), <4>1, <4>3 DEF OnOneList
    <3> QED BY ZenonT(60), <3>1, <3>2
  <2>2. in_use' = {h \in in_cache' : refs'[h] >= 2}
    BY ZenonT(60), <1>1, <1>5 DEF OnOneList
  <2> QED BY ZenonT(60), <2>1, <2>2 DEF OnOneList
<1>10. TableMatchesCache'
  <2>1. ASSUME NEW k \in Keys, table'[k] # NULL
        PROVE  table'[k] \in in_cache' /\ key'[table'[k]] = k
    <3>1. table'[k] = table[k] /\ table[k] \notin out
      BY ZenonT(60), <2>1, <1>1
    <3>2. table[k] \in in_cache /\ key[table[k]] = k
      BY ZenonT(60), <2>1, <3>1 DEF TableMatchesCache
    <3> QED BY ZenonT(60), <3>1, <3>2, <1>1, <1>5
  <2>2. ASSUME NEW h \in in_cache'
        PROVE  h \in live' /\ key'[h] \in Keys /\ table'[key'[h]] = h
    <3>1. h \in live /\ key[h] \in Keys /\ table[key[h]] = h /\ h \notin out /\ key'[h] = key[h]
      BY ZenonT(60), <1>5 DEF TableMatchesCache
    <3> QED BY ZenonT(60), <3>1, <1>1
  <2> QED BY ZenonT(60), <2>1, <2>2 DEF TableMatchesCache
<1>11. RefsCounted'
  <2> SUFFICES ASSUME NEW h \in live'
               PROVE  refs'[h] = Cardinality(Holders(h)') + (IF h \in in_cache' THEN 1 ELSE 0)
    BY ZenonT(60) DEF RefsCounted
  <2>1. h \in live /\ h \in Handles
    BY ZenonT(60), <1>1 DEF CacheTypeOK
  <2>2. refs[h] = Cardinality(Holders(h)) + (IF h \in in_cache THEN 1 ELSE 0)
    BY <2>1 DEF RefsCounted
  <2>3. Holders(h)' = Holders(h) /\ Cardinality(Holders(h)) \in Nat
    BY ZenonT(60), <1>1, HoldersFinite DEF Holders
  <2>4. refs'[h] = IF h \in out THEN refs[h] - 1 ELSE refs[h]
    BY ZenonT(60), <1>1, <2>1
  <2> QED BY <2>2, <2>3, <2>4, <1>1
<1>12. HeldIsLive'
  BY <1>1, <1>2 DEF HeldIsLive
<1>13. FramesExclusive'
  <2>1. \A h \in live' : h \in live /\ value'[h] = value[h]
    BY <1>1, <1>4 DEF CacheTypeOK
  <2>2. freelist' = freelist
    BY ZenonT(60), <1>1
  <2> QED BY ZenonT(60), <2>1, <2>2 DEF FramesExclusive
<1> QED BY ZenonT(60), <1>7, <1>8, <1>9, <1>10, <1>11, <1>12, <1>13

-----------------------------------------------------------------------------
(***************************************************************************)
(* Insertion and eviction.                                                 *)
(***************************************************************************)
\* 1 .. n has n elements.
LEMMA IntervalCount ==
  ASSUME NEW n \in Nat
  PROVE  IsFiniteSet(1 .. n) /\ Cardinality(1 .. n) = n
  BY FS_Interval

\* The empty list.
LEMMA EmptyList ==
  ASSUME NEW S
  PROVE  << >> \in Seq(S) /\ IsInjective(<< >>) /\ Range(<< >>) = {}
  BY DEF IsInjective, Range

\* The entries of a list, by position.
LEMMA ListRange ==
  ASSUME NEW S, NEW list \in Seq(S)
  PROVE  Range(list) = {list[i] : i \in 1 .. Len(list)}
  BY DEF Range

\* What an insertion does to usage_: an entry that replaces no other adds
\* itself, one that replaces another leaves it alone.
LEMMA UsageArithmetic ==
  ASSUME NEW u \in Nat, NEW n \in Nat, NEW added \in {0, 1}
  PROVE  u - (n + 0) + added = (u + added) - n /\ u - (n + 1) + 1 = (u + 0) - n
  OBVIOUS

\* The n first entries of a list without repetitions are n entries.
LEMMA FirstEntriesCount ==
  ASSUME NEW S, NEW s \in Seq(S), IsInjective(s), NEW n \in 0 .. Len(s)
  PROVE  /\ IsFiniteSet({s[i] : i \in 1 .. n})
         /\ Cardinality({s[i] : i \in 1 .. n}) = n
<1> DEFINE T == {s[i] : i \in 1 .. n}
           f == [i \in 1 .. n |-> s[i]]
<1>1. f \in Bijection(1 .. n, T)
  BY DEF Bijection, Injection, Surjection, IsInjective
<1>2. ExistsBijection(1 .. n, T)
  BY ZenonT(60), <1>1 DEF ExistsBijection
<1>3. IsFiniteSet(1 .. n) /\ Cardinality(1 .. n) = n
  <2>1. n \in Nat
    OBVIOUS
  <2> QED BY ZenonT(60), <2>1, IntervalCount
<1> QED BY ZenonT(60), <1>2, <1>3, FS_Bijection

\* What leaves the cache in an insertion of key k.
Victims(k) == {UnusedEntries(k)[i] : i \in 1 .. Evictions(k)}
Leaving(k) == Victims(k) \cup ({Duplicate(k)} \ {NULL})

\* The victims are entries of the shard that nobody holds, other than the
\* duplicate; the table finds each of them under its key; the list keeps the
\* rest.
LEMMA EvictionFacts ==
  ASSUME CacheInv, NEW k \in Keys
  PROVE  LET s == ShardOf[k]
         IN  /\ s \in Shards
             /\ Capacity(s) \in Int
             /\ Evictions(k) \in 0 .. Len(UnusedEntries(k))
             /\ \A i \in 1 .. Evictions(k) :
                  LET h == UnusedEntries(k)[i]
                  IN  /\ h \in in_cache /\ refs[h] = 1 /\ shardOf(h) = s
                      /\ h # Duplicate(k) /\ table[key[h]] = h
             /\ Duplicate(k) # NULL =>
                  /\ Duplicate(k) \in in_cache /\ shardOf(Duplicate(k)) = s
                  /\ key[Duplicate(k)] = k /\ Duplicate(k) = table[k] /\ Caching(k)
             /\ LET rest == DropOldest(UnusedEntries(k), Evictions(k))
                IN  /\ rest \in Seq(Handles)
                    /\ IsInjective(rest)
                    /\ Range(rest) = Range(lru[s]) \ Leaving(k)
             /\ Cardinality(Leaving(k)) = Evictions(k) + (IF Duplicate(k) = NULL THEN 0 ELSE 1)
             /\ Used(k) - Evictions(k) \in Nat
<1> USE DEF CacheInv
<1> DEFINE s == ShardOf[k]
           list == UnusedEntries(k)
           n == Evictions(k)
           dup == Duplicate(k)
<1>1. s \in Shards
  BY ZenonT(60), ConstantsAssumption
<1>2. s \in Nat /\ NumFrames \in Nat /\ NumShards \in Nat \ {0}
  BY <1>1, ConstantsAssumption DEF Shards
<1>3. Capacity(s) \in Nat
  BY <1>2 DEF Capacity
<1>4. /\ list \in Seq(Handles) /\ IsInjective(list)
      /\ Range(list) = Range(lru[s]) \ {dup}
  BY <1>1, RemoveFromList DEF UnusedEntries, OnOneList, CacheTypeOK
<1>5. dup # NULL => /\ dup \in in_cache /\ shardOf(dup) = s
                    /\ key[dup] = k /\ dup = table[k] /\ Caching(k)
  BY ZenonT(60) DEF Duplicate, TableMatchesCache, shardOf
<1>6. usage[s] \in Nat /\ Used(k) \in Nat /\ Len(list) \in Nat
  BY <1>1, <1>4 DEF Used, CacheTypeOK
<1>7. n \in 0 .. Len(list) /\ n <= Used(k)
  <2> DEFINE over == Used(k) - Capacity(s)
  <2>1. over \in Int /\ over <= Used(k)
    BY <1>3, <1>6
  <2>2. n = IF over <= 0 THEN 0 ELSE IF over <= Len(list) THEN over ELSE Len(list)
    BY ZenonT(60) DEF Evictions
  <2> HIDE DEF over, n, list
  <2> QED BY <2>1, <2>2, <1>6
<1> HIDE DEF n, list, dup, s
<1>8. ASSUME NEW i \in 1 .. n
      PROVE  /\ list[i] \in in_cache /\ refs[list[i]] = 1 /\ shardOf(list[i]) = s
             /\ list[i] # dup /\ table[key[list[i]]] = list[i]
  <2>1. list[i] \in Range(list)
    BY <1>4, <1>7 DEF Range
  <2>2. list[i] \in Range(lru[s]) /\ list[i] # dup
    BY ZenonT(60), <2>1, <1>4
  <2>3. list[i] \in in_cache /\ refs[list[i]] = 1 /\ shardOf(list[i]) = s
    BY ZenonT(60), <2>2, <1>1 DEF OnOneList
  <2> QED BY ZenonT(60), <2>2, <2>3 DEF TableMatchesCache
<1>9. Leaving(k) = {list[i] : i \in 1 .. n} \cup ({dup} \ {NULL})
  BY ZenonT(60) DEF Leaving, Victims, list, n, dup
<1>10. /\ DropOldest(list, n) \in Seq(Handles)
       /\ IsInjective(DropOldest(list, n))
       /\ Range(DropOldest(list, n)) = Range(list) \ {list[i] : i \in 1 .. n}
  BY ZenonT(60), <1>4, <1>7, DropFromList
<1>11. Range(DropOldest(list, n)) = Range(lru[s]) \ Leaving(k)
  <2>1. NULL \notin Range(lru[s])
    BY ZenonT(60), <1>1, ConstantsAssumption DEF OnOneList, CacheTypeOK
  <2> QED BY ZenonT(60), <2>1, <1>4, <1>9, <1>10
<1>12. Cardinality(Leaving(k)) = n + (IF dup = NULL THEN 0 ELSE 1)
  <2> DEFINE V == {list[i] : i \in 1 .. n}
  <2>1. IsFiniteSet(V) /\ Cardinality(V) = n
    BY ZenonT(60), <1>4, <1>7, FirstEntriesCount
  <2>2. dup \notin V
    BY <1>8
  <2> HIDE DEF V
  <2>3. Leaving(k) = IF dup = NULL THEN V ELSE V \cup {dup}
    BY <1>9 DEF V
  <2>4. Cardinality(V \cup {dup}) = n + 1
    BY ZenonT(60), <2>1, <2>2, FS_AddElement
  <2>5. n \in Nat
    BY <1>6, <1>7
  <2> QED BY SMTT(90), <2>1, <2>3, <2>4, <2>5
<1>13. Used(k) - n \in Nat
  BY <1>6, <1>7
<1>14. \A i \in 1 .. n :
         LET h == list[i]
         IN  /\ h \in in_cache /\ refs[h] = 1 /\ shardOf(h) = s
             /\ h # dup /\ table[key[h]] = h
  BY <1>8
<1>15. Capacity(s) \in Int
  BY <1>3
<1> QED BY ZenonT(40), <1>1, <1>5, <1>7, <1>10, <1>11, <1>12, <1>13, <1>14, <1>15
        DEF n, list, dup, s

\* The loop that evicts runs a number of times.
LEMMA EvictionsNat ==
  ASSUME CacheInv, NEW k \in Keys
  PROVE  Evictions(k) \in Nat
<1>1. PICK len \in Nat : Evictions(k) \in 0 .. len
  <2>1. UnusedEntries(k) \in Seq(Handles)
    <3>1. lru[ShardOf[k]] \in Seq(Handles) /\ IsInjective(lru[ShardOf[k]])
      <4>1. ShardOf[k] \in Shards
        BY ConstantsAssumption
      <4> QED BY ZenonT(60), <4>1 DEF CacheInv, OnOneList, CacheTypeOK
    <3> QED BY ZenonT(60), <3>1, RemoveFromList DEF UnusedEntries
  <2>2. Len(UnusedEntries(k)) \in Nat
    BY <2>1
  <2> QED BY ZenonT(60), <2>2, EvictionFacts
<1> QED BY <1>1


\* The frame an insertion gives its handle comes from a victim or, without
\* one, from the head of the free list.
FrameSource(k, frame) ==
  \/ frame = NULL
  \/ \E i \in 1 .. Evictions(k) : frame = value[UnusedEntries(k)[i]]
  \/ Evictions(k) = 0 /\ freelist # <<>> /\ frame = Head(freelist)

\* A new entry under k: the entries that the while loop evicts and a duplicate
\* leave the cache, and the frame comes from the one evicted last, the freelist
\* or the duplicate.
LEMMA AddEntryPreserves ==
  ASSUME CacheInv, NEW t \in Threads, held[t] = NULL, NEW k \in Keys,
         NEW e \in Handles \ live, NEW frame, FrameSource(k, frame),
         AddEntry(t, k, e, frame)
  PROVE  CacheInv'
<1> USE DEF CacheInv
<1> DEFINE s == ShardOf[k]
           n == Evictions(k)
           kept == IF Caching(k) THEN {e} ELSE {}
           out == Leaving(k)
           gone == {h \in out : refs[h] = 1}
           rest == DropOldest(UnusedEntries(k), n)
<1>1. /\ s \in Shards
      /\ \A i \in 1 .. n : LET h == UnusedEntries(k)[i]
                           IN  /\ h \in in_cache /\ refs[h] = 1 /\ shardOf(h) = s
                               /\ h # Duplicate(k) /\ table[key[h]] = h
      /\ Duplicate(k) # NULL => /\ Duplicate(k) \in in_cache /\ shardOf(Duplicate(k)) = s
                                /\ Duplicate(k) = table[k]
      /\ rest \in Seq(Handles) /\ IsInjective(rest) /\ Range(rest) = Range(lru[s]) \ out
      /\ Cardinality(out) = n + (IF Duplicate(k) = NULL THEN 0 ELSE 1)
      /\ Used(k) - n \in Nat
      /\ n \in Nat
  BY ZenonT(60), EvictionFacts, EvictionsNat
<1>2. {table[key[UnusedEntries(k)[i]]] : i \in 1 .. n} = Victims(k)
  <2>1. \A i \in 1 .. n : table[key[UnusedEntries(k)[i]]] = UnusedEntries(k)[i]
    BY ZenonT(60), <1>1
  <2> QED BY <2>1 DEF Victims
<1>3. /\ live' = (live \ gone) \cup {e}
      /\ key' = [Free(key, gone) EXCEPT ![e] = k]
      /\ value' = [Free(value, gone) EXCEPT ![e] = frame]
      /\ refs' = [h \in Handles |-> IF h = e THEN IF Caching(k) THEN 2 ELSE 1
                                    ELSE IF h \in out THEN refs[h] - 1 ELSE refs[h]]
      /\ in_cache' = (in_cache \ out) \cup kept
      /\ in_use' = (in_use \ out) \cup kept
      /\ table' = [j \in Keys |-> IF Caching(k) /\ j = k THEN e
                                  ELSE IF table[j] \in out THEN NULL ELSE table[j]]
      /\ lru' = [lru EXCEPT ![s] = rest]
      /\ usage' = [usage EXCEPT ![s] = Used(k) - n]
      /\ freelist' = IF n > 0 \/ freelist = <<>> THEN freelist ELSE Tail(freelist)
      /\ held' = [held EXCEPT ![t] = e]
  BY ZenonT(60), <1>2 DEF AddEntry, Leaving
<1>4. \A h \in out : h \in in_cache /\ shardOf(h) = s
  BY SMTT(90), <1>1 DEF Leaving, Victims
<1>5. \A h \in out : /\ h \in Handles /\ h \in live /\ refs[h] \in Nat /\ refs[h] >= 1
                     /\ refs[h] = 1 => \A u \in Threads : held[u] # h
  BY ZenonT(60), <1>4, CachedRefs
<1>6. e \notin in_cache /\ e \notin out /\ e \in Handles /\ \A u \in Threads : held[u] # e
  BY ZenonT(40), <1>4, ConstantsAssumption DEF TableMatchesCache, HeldIsLive, CacheTypeOK
<1> HIDE DEF out, rest, n
<1>7. /\ refs' \in [Handles -> Nat]
      /\ refs'[e] = IF Caching(k) THEN 2 ELSE 1
      /\ \A h \in Handles : h # e => refs'[h] = IF h \in out THEN refs[h] - 1 ELSE refs[h]
  <2>1. refs \in [Handles -> Nat]
    BY ZenonT(60) DEF CacheTypeOK
  <2>2. refs' = [h \in Handles |-> IF h = e THEN IF Caching(k) THEN 2 ELSE 1
                                   ELSE IF h \in out THEN refs[h] - 1 ELSE refs[h]]
    BY ZenonT(60), <1>3
  <2>3. \A h \in Handles : refs'[h] = IF h = e THEN IF Caching(k) THEN 2 ELSE 1
                                      ELSE IF h \in out THEN refs[h] - 1 ELSE refs[h]
    BY ZenonT(60), <2>2
  <2>4. \A h \in out : refs[h] - 1 \in Nat
    BY <1>5
  <2>5. ASSUME NEW h \in Handles PROVE refs'[h] \in Nat
    BY <2>1, <2>3, <2>4
  <2>6. refs' \in [Handles -> Nat]
    BY ZenonT(60), <2>2, <2>3, <2>5
  <2> QED BY ZenonT(60), <1>6, <2>3, <2>6
<1>8. frame \in Frames \cup {NULL}
  <2>1. ASSUME NEW i \in 1 .. n PROVE value[UnusedEntries(k)[i]] \in Frames \cup {NULL}
    BY ZenonT(60), <1>1 DEF CacheTypeOK, n
  <2>2. freelist # <<>> => Head(freelist) \in Frames
    <3>1. freelist \in Seq(Frames)
      BY ZenonT(60) DEF CacheTypeOK
    <3> QED BY <3>1
  <2> QED BY ZenonT(60), <2>1, <2>2 DEF FrameSource, n
<1>9. /\ key' \in [Handles -> Keys \cup {NULL}] /\ key'[e] = k
      /\ value' \in [Handles -> Frames \cup {NULL}] /\ value'[e] = frame
      /\ \A h \in Handles : h # e /\ h \notin gone => key'[h] = key[h] /\ value'[h] = value[h]
  BY ZenonT(60), <1>3, <1>6, <1>8 DEF Free, CacheTypeOK
<1>10. \A h \in in_cache \ out : /\ h \in Handles /\ h # e /\ key'[h] = key[h]
                                 /\ shardOf(h)' = shardOf(h) /\ refs'[h] = refs[h]
  <2> SUFFICES ASSUME NEW h \in in_cache \ out
               PROVE  /\ h \in Handles /\ h # e /\ key'[h] = key[h]
                      /\ shardOf(h)' = shardOf(h) /\ refs'[h] = refs[h]
    BY ZenonT(60)
  <2>1. h \in Handles /\ h # e
    BY ZenonT(60), <1>6 DEF CacheTypeOK
  <2>2. key'[h] = key[h] /\ refs'[h] = refs[h]
    BY ZenonT(60), <2>1, <1>7, <1>9
  <2> QED BY ZenonT(60), <2>1, <2>2 DEF shardOf
<1>11. shardOf(e)' = s
  BY <1>9 DEF shardOf
<1>12. ASSUME NEW r \in Shards
       PROVE  {h \in in_cache' : shardOf(h)' = r} =
                ({h \in in_cache : shardOf(h) = r} \ out) \cup (IF r = s THEN kept ELSE {})
  BY ZenonT(60), <1>3, <1>10, <1>11
<1>13. UsageCounted' /\ usage' \in [Shards -> Nat]
  <2> DEFINE S == {h \in in_cache : shardOf(h) = s}
  <2>1. /\ IsFiniteSet(S) /\ Cardinality(S) \in Nat /\ Cardinality(out) \in Nat
        /\ IsFiniteSet(S \ out) /\ out = S \cap out /\ e \notin S
    BY ZenonT(60), <1>4, <1>6, CachedFinite
  <2>2. Cardinality(S \ out) = usage[s] - Cardinality(out)
    <3>1. Cardinality(S \ out) = Cardinality(S) - Cardinality(S \cap out)
      BY ZenonT(60), <2>1, FS_Difference
    <3> QED BY ZenonT(60), <3>1, <2>1, <1>1 DEF UsageCounted
  <2>3. Cardinality((S \ out) \cup kept) = Cardinality(S \ out) + (IF Caching(k) THEN 1 ELSE 0)
    <3>1. Cardinality((S \ out) \cup {e}) = Cardinality(S \ out) + 1
      BY ZenonT(60), <2>1, FS_AddElement
    <3>2. Cardinality(S \ out) \in Nat /\ (S \ out) \cup {} = S \ out
      BY ZenonT(60), <2>1, FS_CardinalityType
    <3> QED BY SMTT(90), <3>1, <3>2
  <2>4. Cardinality((S \ out) \cup kept) = Used(k) - n
    <3>1. Used(k) = usage[s] + (IF Caching(k) /\ Duplicate(k) = NULL THEN 1 ELSE 0)
      BY ZenonT(60) DEF Used
    <3>2. Duplicate(k) # NULL => Caching(k)
      BY ZenonT(60) DEF Duplicate
    <3>3. usage[s] \in Nat
      BY ZenonT(60), <1>1 DEF CacheTypeOK
    <3>4. usage[s] - Cardinality(out) + (IF Caching(k) THEN 1 ELSE 0) = Used(k) - n
      <4>1. CASE Duplicate(k) = NULL
        <5> DEFINE added == IF Caching(k) THEN 1 ELSE 0
        <5>1. added \in {0, 1} /\ Used(k) = usage[s] + added /\ Cardinality(out) = n + 0
          BY ZenonT(60), <3>1, <4>1, <1>1
        <5>2. usage[s] - (n + 0) + added = (usage[s] + added) - n
          <6> HIDE DEF added
          <6> QED BY ZenonT(60), <5>1, <3>3, <1>1, UsageArithmetic
        <5> QED BY ZenonT(60), <5>1, <5>2
      <4>2. CASE Duplicate(k) # NULL
        <5>1. Used(k) = usage[s] + 0 /\ Cardinality(out) = n + 1
          BY ZenonT(60), <3>1, <4>2, <1>1
        <5>2. (IF Caching(k) THEN 1 ELSE 0) = 1
          BY ZenonT(60), <3>2, <4>2
        <5>3. usage[s] - (n + 1) + 1 = (usage[s] + 0) - n
          BY ZenonT(60), <3>3, <1>1, UsageArithmetic
        <5> QED BY ZenonT(60), <5>1, <5>2, <5>3
      <4> QED BY ZenonT(60), <4>1, <4>2
    <3> QED BY ZenonT(60), <3>4, <2>2, <2>3
  <2> HIDE DEF S
  <2>5. usage' \in [Shards -> Nat] /\ usage'[s] = Used(k) - n
        /\ \A r \in Shards : r # s => usage'[r] = usage[r]
    BY ZenonT(60), <1>1, <1>3 DEF CacheTypeOK
  <2>6. ASSUME NEW r \in Shards
        PROVE  usage'[r] = Cardinality({h \in in_cache' : shardOf(h)' = r})
    <3>1. CASE r = s
      BY ZenonT(60), <3>1, <2>4, <2>5, <1>12 DEF S
    <3>2. CASE r # s
      <4>1. {h \in in_cache' : shardOf(h)' = r} = {h \in in_cache : shardOf(h) = r}
        BY ZenonT(60), <3>2, <1>4, <1>12
      <4> QED BY ZenonT(60), <4>1, <3>2, <2>5 DEF UsageCounted
    <3> QED BY ZenonT(60), <3>1, <3>2
  <2> QED BY ZenonT(60), <2>5, <2>6 DEF UsageCounted
<1>14. freelist' \in Seq(Frames)
  BY <1>3 DEF CacheTypeOK
<1>15. CacheTypeOK'
  <2>1. table' \in [Keys -> Handles \cup {NULL}] /\ lru' \in [Shards -> Seq(Handles)]
    BY ZenonT(60), <1>1, <1>3, <1>6 DEF CacheTypeOK
  <2>2. /\ live' \subseteq Handles /\ in_cache' \subseteq Handles /\ in_use' \subseteq Handles
        /\ held' \in [Threads -> Handles \cup {NULL}]
    BY ZenonT(60), <1>3, <1>6 DEF CacheTypeOK
  <2> QED BY ZenonT(60), <1>7, <1>9, <1>13, <1>14, <2>1, <2>2 DEF CacheTypeOK
<1>16. OnOneList'
  <2>0. /\ in_cache' = (in_cache \ out) \cup kept
        /\ in_use' = (in_use \ out) \cup kept
        /\ \A h \in kept : refs'[h] = 2
    BY ZenonT(60), <1>3, <1>7
  <2> HIDE DEF kept
  <2>1. ASSUME NEW r \in Shards
        PROVE  /\ Range(lru'[r]) = {h \in in_cache' : refs'[h] = 1 /\ shardOf(h)' = r}
               /\ IsInjective(lru'[r])
    <3>1. \A h : h \in in_cache' /\ refs'[h] = 1 <=> h \in in_cache \ out /\ refs[h] = 1
      BY SMTT(90), <2>0, <1>10
    <3>2. CASE r = s
      <4>1. lru'[r] = rest
        BY ZenonT(60), <3>2, <1>1, <1>3 DEF CacheTypeOK
      <4> QED BY ZenonT(60), <4>1, <3>1, <3>2, <1>1, <1>10 DEF OnOneList
    <3>3. CASE r # s
      <4>1. lru'[r] = lru[r]
        BY ZenonT(60), <3>3, <1>3 DEF CacheTypeOK
      <4>2. \A h \in in_cache : shardOf(h) = r => h \notin out
        BY <3>3, <1>4
      <4>3. Range(lru'[r]) = {h \in in_cache' : refs'[h] = 1 /\ shardOf(h)' = r}
        BY ZenonT(60), <4>1, <4>2, <3>1, <1>10 DEF OnOneList
      <4> QED BY ZenonT(60), <4>1, <4>3 DEF OnOneList
    <3> QED BY ZenonT(60), <3>2, <3>3
  <2>2. in_use' = {h \in in_cache' : refs'[h] >= 2}
    <3>1. in_use = {h \in in_cache : refs[h] >= 2}
      BY ZenonT(60) DEF OnOneList
    <3> QED BY <2>0, <1>10, <3>1
  <2> QED BY ZenonT(60), <2>1, <2>2 DEF OnOneList
<1>17. TableMatchesCache'
  <2>1. ASSUME NEW j \in Keys, table'[j] # NULL
        PROVE  table'[j] \in in_cache' /\ key'[table'[j]] = j
    <3>1. CASE Caching(k) /\ j = k
      BY ZenonT(60), <3>1, <1>3, <1>9
    <3>2. CASE ~(Caching(k) /\ j = k)
      <4>1. table'[j] = table[j] /\ table[j] \notin out
        BY ZenonT(60), <2>1, <3>2, <1>3
      <4>2. table[j] \in in_cache /\ key[table[j]] = j
        BY ZenonT(60), <2>1, <4>1 DEF TableMatchesCache
      <4> QED BY ZenonT(60), <4>1, <4>2, <1>3, <1>10
    <3> QED BY ZenonT(60), <3>1, <3>2
  <2>2. ASSUME NEW h \in in_cache'
        PROVE  h \in live' /\ key'[h] \in Keys /\ table'[key'[h]] = h
    <3>1. CASE h \in kept
      BY ZenonT(60), <3>1, <1>3, <1>9
    <3>2. CASE h \in in_cache \ out
      <4>1. h \in live /\ key[h] \in Keys /\ table[key[h]] = h /\ key'[h] = key[h]
        BY ZenonT(60), <3>2, <1>10 DEF TableMatchesCache
      <4>2. ~(Caching(k) /\ key[h] = k)
        <5> SUFFICES ASSUME Caching(k), key[h] = k PROVE FALSE
          BY ZenonT(60)
        <5>1. Duplicate(k) = h /\ h # NULL
          BY ZenonT(60), <4>1, <3>2, ConstantsAssumption DEF Duplicate, CacheTypeOK
        <5> QED BY ZenonT(60), <5>1, <3>2 DEF out, Leaving
      <4> QED BY ZenonT(60), <4>1, <4>2, <3>2, <1>3
    <3> QED BY ZenonT(60), <3>1, <3>2, <1>3
  <2> QED BY ZenonT(60), <2>1, <2>2 DEF TableMatchesCache
<1>18. RefsCounted'
  <2> SUFFICES ASSUME NEW h \in live'
               PROVE  refs'[h] = Cardinality(Holders(h)') + (IF h \in in_cache' THEN 1 ELSE 0)
    BY DEF RefsCounted
  <2>1. h \in Handles /\ (h # e => h \in live)
    BY ZenonT(60), <1>3, <1>6 DEF CacheTypeOK
  <2>2. /\ Cardinality(Holders(h)') = Cardinality(Holders(h)) + (IF h = e THEN 1 ELSE 0)
        /\ Cardinality(Holders(h)) \in Nat
    BY ZenonT(60), <2>1, <1>3, <1>6, HoldersAdd, HoldersFinite
  <2>3. CASE h = e
    <3>1. Holders(h) = {}
      BY ZenonT(60), <2>3, <1>6 DEF Holders
    <3>2. Cardinality(Holders(h)) = 0
      BY ZenonT(60), <3>1, FS_EmptySet
    <3>3. h \in in_cache' <=> Caching(k)
      BY ZenonT(60), <2>3, <1>3, <1>6
    <3> QED BY <2>2, <2>3, <3>2, <3>3, <1>7
  <2>4. CASE h # e
    <3>1. refs[h] = Cardinality(Holders(h)) + (IF h \in in_cache THEN 1 ELSE 0)
      BY ZenonT(60), <2>1, <2>4 DEF RefsCounted
    <3>2. h \in in_cache' <=> h \in in_cache /\ h \notin out
      BY ZenonT(60), <2>4, <1>3
    <3>3. refs'[h] = IF h \in out THEN refs[h] - 1 ELSE refs[h]
      BY ZenonT(60), <2>1, <2>4, <1>7
    <3> QED BY SMTT(90), <2>2, <2>4, <3>1, <3>2, <3>3, <1>4
  <2> QED BY ZenonT(60), <2>3, <2>4
<1>19. HeldIsLive'
  <2> SUFFICES ASSUME NEW u \in Threads, held'[u] # NULL PROVE held'[u] \in live'
    BY DEF HeldIsLive
  <2>1. CASE u = t
    BY ZenonT(60), <2>1, <1>3 DEF CacheTypeOK
  <2>2. CASE u # t
    <3>1. held'[u] = held[u] /\ held[u] \in live
      BY ZenonT(60), <2>2, <1>3 DEF HeldIsLive, CacheTypeOK
    <3> QED BY SMTT(90), <3>1, <1>3, <1>5
  <2> QED BY ZenonT(60), <2>1, <2>2
<1>20. FramesExclusive'
  <2>1. \A h \in live' : h # e => h \in live /\ h \notin gone /\ value'[h] = value[h]
    BY ZenonT(60), <1>3, <1>9 DEF CacheTypeOK
  <2>2. Range(freelist') \subseteq Range(freelist) /\ IsInjective(freelist')
    <3>1. CASE freelist' = freelist
      BY ZenonT(60), <3>1 DEF FramesExclusive
    <3>2. CASE freelist # <<>> /\ freelist' = Tail(freelist)
      <4>1. /\ freelist' \in Seq(Frames) /\ Len(freelist') = Len(freelist) - 1
            /\ \A i \in 1 .. Len(freelist') : freelist'[i] = freelist[i + 1]
        BY <3>2 DEF CacheTypeOK
      <4>2. freelist \in Seq(Frames) /\ IsInjective(freelist)
        BY ZenonT(60) DEF CacheTypeOK, FramesExclusive
      <4>3. Range(freelist') \subseteq Range(freelist)
        BY SMTT(90), <4>1, <4>2 DEF Range
      <4>4. ASSUME NEW i \in DOMAIN freelist', NEW j \in DOMAIN freelist', freelist'[i] = freelist'[j]
            PROVE  i = j
        <5>1. i \in 1 .. Len(freelist') /\ j \in 1 .. Len(freelist')
          BY <4>1
        <5>2. i + 1 \in DOMAIN freelist /\ j + 1 \in DOMAIN freelist /\ freelist[i + 1] = freelist[j + 1]
          BY <5>1, <4>1, <4>2, <4>4
        <5>3. i + 1 = j + 1
          BY ZenonT(60), <5>2, <4>2 DEF IsInjective
        <5> QED BY <5>1, <5>3
      <4> QED BY ZenonT(60), <4>3, <4>4 DEF IsInjective
    <3> QED BY ZenonT(60), <3>1, <3>2, <1>3
  <2>3. ASSUME frame # NULL
        PROVE  /\ \A h \in live' : h # e => value'[h] # frame
               /\ frame \notin Range(freelist')
    <3>1. CASE \E i \in 1 .. n : frame = value[UnusedEntries(k)[i]]
      <4>1. PICK i \in 1 .. n : frame = value[UnusedEntries(k)[i]]
        BY ZenonT(60), <3>1
      <4> DEFINE v == UnusedEntries(k)[i]
      <4>2. v \in in_cache /\ refs[v] = 1 /\ v \in live
        BY ZenonT(60), <1>1 DEF TableMatchesCache
      <4>3. v \in gone
        BY ZenonT(60), <4>2 DEF out, Leaving, Victims, n
      <4> HIDE DEF v
      <4>4. frame = value[v]
        BY <4>1 DEF v
      <4> QED BY ZenonT(60), <4>2, <4>3, <4>4, <2>1, <2>2, <2>3 DEF FramesExclusive
    <3>2. CASE n = 0 /\ freelist # <<>> /\ frame = Head(freelist)
      <4>1. freelist' = Tail(freelist) /\ freelist \in Seq(Frames) /\ IsInjective(freelist)
        <5>1. ~ (n > 0)
          BY <3>2
        <5> QED BY ZenonT(60), <3>2, <1>3, <5>1 DEF CacheTypeOK, FramesExclusive
      <4>2. /\ Head(freelist) = freelist[1] /\ 1 \in DOMAIN freelist
            /\ Len(freelist') = Len(freelist) - 1
            /\ freelist' \in Seq(Frames)
            /\ \A i \in 1 .. Len(freelist') : freelist'[i] = freelist[i + 1]
        BY <3>2, <4>1
      <4>3. \A h \in live : value[h] # frame
        <5>1. frame \in Range(freelist)
          BY ZenonT(60), <3>2, <4>2 DEF Range
        <5> QED BY ZenonT(60), <5>1 DEF FramesExclusive
      <4>4. frame \notin Range(freelist')
        <5> SUFFICES ASSUME NEW i \in 1 .. Len(freelist'), freelist'[i] = frame PROVE FALSE
          BY <4>2 DEF Range
        <5>1. i + 1 \in DOMAIN freelist /\ freelist[i + 1] = freelist[1]
          BY <3>2, <4>1, <4>2
        <5> QED BY SMTT(90), <5>1, <4>1, <4>2 DEF IsInjective
      <4> QED BY ZenonT(60), <4>3, <4>4, <2>1
    <3> QED BY ZenonT(60), <3>1, <3>2, <2>3 DEF FrameSource, n
  <2>4. ASSUME NEW g \in live', NEW h \in live', value'[g] # NULL, value'[g] = value'[h]
        PROVE  g = h
    <3>1. CASE g # e /\ h # e
      BY ZenonT(60), <3>1, <2>1, <2>4 DEF FramesExclusive
    <3>2. CASE g = e \/ h = e
      BY ZenonT(60), <3>2, <2>3, <2>4, <1>9
    <3> QED BY ZenonT(60), <3>1, <3>2
  <2>5. ASSUME NEW h \in live' PROVE value'[h] \notin Range(freelist')
    <3>1. CASE h # e
      BY ZenonT(60), <3>1, <2>1, <2>2 DEF FramesExclusive
    <3>2. CASE h = e /\ frame # NULL
      BY ZenonT(60), <3>2, <2>3, <1>9
    <3>3. CASE h = e /\ frame = NULL
      <4>1. Range(freelist') \subseteq Frames
        BY <1>14 DEF Range
      <4> QED BY ZenonT(60), <4>1, <3>3, <1>9, ConstantsAssumption
    <3> QED BY ZenonT(60), <3>1, <3>2, <3>3
  <2> QED BY ZenonT(60), <2>2, <2>4, <2>5 DEF FramesExclusive
<1> QED BY ZenonT(60), <1>13, <1>15, <1>16, <1>17, <1>18, <1>19, <1>20

-----------------------------------------------------------------------------
\* A nonempty set of natural numbers has a least element.
LEMMA NatLeast ==
  ASSUME NEW T, T \subseteq Nat, T # {}
  PROVE  \E x \in T : \A y \in T : x <= y
<1>1. PICK x \in T : \A y \in T : ~ (<<y, x>> \in OpToRel(<, Nat))
  BY ZenonT(60), NatLessThanWellFounded, WFMin
<1>2. \A y \in T : ~ (y < x)
  BY ZenonT(60), <1>1 DEF OpToRel
<1> QED BY <1>2

\* LookupInsert: a hit takes a reference, a miss adds an entry.
LEMMA LookupInsertPreserves ==
  ASSUME CacheInv, NEW t \in Threads, NEW k \in Keys, LookupInsert(t, k)
  PROVE  CacheInv'
<1>1. held[t] = NULL
  BY DEF LookupInsert
<1>2. CASE table[k] # NULL /\ Ref(t, table[k])
  BY ZenonT(60), <1>1, <1>2, RefPreserves DEF CacheInv, TableMatchesCache
<1>3. ASSUME NEW e \in Handles \ live, AddEntry(t, k, e, LookupInsertFrame(k))
      PROVE  CacheInv'
  <2> DEFINE n == Evictions(k)
             got == {i \in 1 .. n : value[UnusedEntries(k)[i]] # NULL}
             first == CHOOSE i \in got : \A j \in got : i <= j
  <2>1. LookupInsertFrame(k) = IF n = 0 THEN PopFront
                               ELSE IF got = {} THEN NULL
                               ELSE value[UnusedEntries(k)[first]]
    BY DEF LookupInsertFrame
  <2>2. got # {} => first \in got
    <3>1. n \in Nat
      BY ZenonT(60), EvictionsNat
    <3> SUFFICES ASSUME got # {} PROVE \E i \in got : \A j \in got : i <= j
      BY ZenonT(60)
    <3>2. got \subseteq Nat
      BY <3>1
    <3> HIDE DEF got
    <3> QED BY ZenonT(60), <3>2, NatLeast
  <2>3. FrameSource(k, LookupInsertFrame(k))
    BY ZenonT(60), <2>1, <2>2 DEF FrameSource, PopFront
  <2> QED BY ZenonT(60), <1>1, <1>3, <2>3, AddEntryPreserves
<1> QED BY ZenonT(60), <1>2, <1>3 DEF LookupInsert

\* Insert, also over an entry with the same key.
LEMMA InsertPreserves ==
  ASSUME CacheInv, NEW t \in Threads, NEW k \in Keys, Insert(t, k)
  PROVE  CacheInv'
<1>1. PICK e \in Handles \ live : AddEntry(t, k, e, InsertFrame(k))
  BY ZenonT(60) DEF Insert
<1>2. FrameSource(k, InsertFrame(k))
  <2>1. Evictions(k) \in Nat
    BY ZenonT(60), EvictionsNat
  <2>2. Evictions(k) # 0 => 1 \in 1 .. Evictions(k)
    BY <2>1
  <2> QED BY <2>2 DEF FrameSource, InsertFrame, PopFront
<1> QED BY ZenonT(60), <1>1, <1>2, AddEntryPreserves DEF Insert

\* Erase of a key, whether or not a caller holds its entry.
LEMMA ErasePreserves ==
  ASSUME CacheInv, NEW k \in Keys, Erase(k)
  PROVE  CacheInv'
<1> DEFINE s == ShardOf[k]
           rest == LRU_Remove(lru[s], table[k])
<1>1. s \in Shards /\ table[k] \in in_cache /\ shardOf(table[k]) = s
  BY ZenonT(60), ConstantsAssumption DEF Erase, CacheInv, TableMatchesCache, shardOf
<1>2. rest \in Seq(Handles) /\ IsInjective(rest) /\ Range(rest) = Range(lru[s]) \ {table[k]}
  BY <1>1, RemoveFromList DEF CacheInv, CacheTypeOK, OnOneList
<1>3. FinishErase(s, {table[k]}, rest)
  BY DEF Erase
<1> HIDE DEF s, rest
<1> QED BY ZenonT(60), <1>1, <1>2, <1>3, FinishErasePreserves

\* Prune erases every entry of a shard that nobody holds.
LEMMA PrunePreserves ==
  ASSUME CacheInv, NEW s \in Shards, Prune(s)
  PROVE  CacheInv'
<1> DEFINE out == {table[key[h]] : h \in Range(lru[s])}
<1>1. \A h \in Range(lru[s]) : h \in in_cache /\ shardOf(h) = s /\ table[key[h]] = h
  BY ZenonT(60) DEF CacheInv, OnOneList, TableMatchesCache
<1>2. out = Range(lru[s])
  BY ZenonT(60), <1>1
<1>3. <<>> \in Seq(Handles) /\ IsInjective(<<>>) /\ Range(<<>>) = {}
  BY ZenonT(60), EmptyList
<1>4. FinishErase(s, out, <<>>)
  BY ZenonT(60) DEF Prune
<1> HIDE DEF out
<1>5. Range(<<>>) = Range(lru[s]) \ out
  BY ZenonT(60), <1>2, <1>3
<1>6. \A h \in out : h \in in_cache /\ shardOf(h) = s
  BY ZenonT(60), <1>1, <1>2
<1> QED BY ZenonT(60), <1>3, <1>4, <1>5, <1>6, FinishErasePreserves

\* A step of the world around the cache.
LEMMA StutterPreserves ==
  ASSUME CacheInv, UNCHANGED cacheVars
  PROVE  CacheInv'
BY SMTT(90) DEF CacheInv, cacheVars, CacheTypeOK, OnOneList, TableMatchesCache, RefsCounted,
       HeldIsLive, UsageCounted, FramesExclusive, Holders, shardOf

\* Every step keeps the invariant.
LEMMA StepPreserves ==
  ASSUME CacheInv, [CacheNext]_cacheVars
  PROVE  CacheInv'
<1>1. ASSUME NEW t \in Threads, NEW k \in Keys, Lookup(t, k) PROVE CacheInv'
  <2>1. CASE table[k] # NULL
    BY ZenonT(60), <1>1, <2>1, RefPreserves DEF Lookup, CacheInv, TableMatchesCache
  <2>2. CASE table[k] = NULL
    BY ZenonT(60), <1>1, <2>2, StutterPreserves DEF Lookup
  <2> QED BY ZenonT(60), <2>1, <2>2
<1>2. CASE UNCHANGED cacheVars
  BY ZenonT(60), <1>2, StutterPreserves
<1>3. CASE CacheNext
  BY ZenonT(60), <1>1, <1>3, LookupInsertPreserves, InsertPreserves, ReleasePreserves,
     ErasePreserves, PrunePreserves DEF CacheNext
<1> QED BY ZenonT(60), <1>2, <1>3

\* The cache's bookkeeping is right in every reachable state: the fields are
\* well typed, every entry is on one list, the table and the in_cache flags
\* agree, reference counts and usage_ are exact, nobody holds a deleted
\* handle and no page frame has two owners.
THEOREM CacheInvariant == CacheSpec => []CacheInv
<1>1. CacheInit => CacheInv
  BY ZenonT(60), InitEstablishes
<1>2. CacheInv /\ [CacheNext]_cacheVars => CacheInv'
  BY StepPreserves
<1> QED BY <1>1, <1>2, PTL DEF CacheSpec

\* CacheTypeOK: every field of the cache keeps its type.
THEOREM TypesCorrect == CacheSpec => []CacheTypeOK
<1>1. CacheInv => CacheTypeOK
  BY ZenonT(60) DEF CacheInv
<1> QED BY <1>1, CacheInvariant, PTL

\* OnOneList: an entry is on lru_ exactly while only the cache refers to it, and
\* it is there once.
THEOREM EntriesOnOneList == CacheSpec => []OnOneList
<1>1. CacheInv => OnOneList
  BY ZenonT(60) DEF CacheInv
<1> QED BY <1>1, CacheInvariant, PTL

\* TableMatchesCache: the hash table finds exactly the entries of the cache.
THEOREM TableFindsEntries == CacheSpec => []TableMatchesCache
<1>1. CacheInv => TableMatchesCache
  BY ZenonT(60) DEF CacheInv
<1> QED BY <1>1, CacheInvariant, PTL

\* RefsCounted: refs counts the callers that hold the handle and the cache.
THEOREM RefsExact == CacheSpec => []RefsCounted
<1>1. CacheInv => RefsCounted
  BY ZenonT(60) DEF CacheInv
<1> QED BY <1>1, CacheInvariant, PTL

\* UsageCounted: usage_ counts the entries of the shard.
THEOREM UsageExact == CacheSpec => []UsageCounted
<1>1. CacheInv => UsageCounted
  BY ZenonT(60) DEF CacheInv
<1> QED BY <1>1, CacheInvariant, PTL

\* HeldIsLive: a caller's handle is never deleted under it.
THEOREM HandlesStayLive == CacheSpec => []HeldIsLive
<1>1. CacheInv => HeldIsLive
  BY ZenonT(60) DEF CacheInv
<1> QED BY <1>1, CacheInvariant, PTL

\* FramesExclusive: a page frame never has two owners.
THEOREM FramesHaveOneOwner == CacheSpec => []FramesExclusive
<1>1. CacheInv => FramesExclusive
  BY ZenonT(60) DEF CacheInv
<1> QED BY <1>1, CacheInvariant, PTL

-----------------------------------------------------------------------------
(***************************************************************************)
(* How far a shard may exceed its capacity.                                *)
(***************************************************************************)
PinnedBound ==
  \A s \in Shards : Range(lru[s]) = {} => usage[s] <= Cardinality(Threads)

\* When a shard's lru_ is empty, every entry of it is held by a caller, and
\* no caller holds two.
LEMMA AllPinned == CacheInv => PinnedBound
<1> SUFFICES ASSUME CacheInv, NEW s \in Shards, Range(lru[s]) = {}
             PROVE  usage[s] <= Cardinality(Threads)
  BY ZenonT(60) DEF PinnedBound
<1> DEFINE S == {h \in in_cache : shardOf(h) = s}
           f == [h \in S |-> CHOOSE t \in Threads : held[t] = h]
<1>1. ASSUME NEW h \in S PROVE \E t \in Threads : held[t] = h
  <2>1. h \in in_cache /\ refs[h] # 1
    BY ZenonT(60) DEF CacheInv, OnOneList
  <2>2. refs[h] = Cardinality(Holders(h)) + 1
    BY ZenonT(60), <2>1, CachedRefs
  <2>3. Holders(h) # {}
    BY <2>1, <2>2, FS_EmptySet
  <2> QED BY ZenonT(60), <2>3 DEF Holders
<1>2. \A h \in S : f[h] \in Threads /\ held[f[h]] = h
  BY ZenonT(60), <1>1
<1>3. f \in [S -> Threads]
  BY ZenonT(60), <1>2
<1> HIDE DEF f
<1>4. f \in Injection(S, Threads)
  BY <1>2, <1>3 DEF Injection, IsInjective
<1>5. Cardinality(S) <= Cardinality(Threads)
  BY ZenonT(60), <1>4, ConstantsAssumption, FS_Injection
<1> QED BY ZenonT(60), <1>5 DEF CacheInv, UsageCounted

\* As many evictions as are needed, if the list is long enough.
LEMMA EvictedEnough ==
  ASSUME NEW used \in Nat, NEW cap \in Int, NEW len \in Nat, NEW n,
         used - cap <= len,
         n = IF used - cap <= 0 THEN 0 ELSE IF used - cap <= len THEN used - cap ELSE len
  PROVE  used - n <= cap
  OBVIOUS

\* After the while loop usage_ is within capacity_, or lru_ is empty and all
\* entries are held.
LEMMA AddEntryBounded ==
  ASSUME CacheInv, UsageBounded, CacheInv', NEW t \in Threads, NEW k \in Keys,
         NEW e \in Handles \ live, NEW frame, AddEntry(t, k, e, frame)
  PROVE  UsageBounded'
<1> DEFINE s == ShardOf[k]
           list == UnusedEntries(k)
           n == Evictions(k)
           over == Used(k) - Capacity(s)
<1>1. /\ s \in Shards /\ Capacity(s) \in Int /\ n \in 0 .. Len(list)
      /\ Used(k) - n \in Nat
  BY ZenonT(60), EvictionFacts
<1>2. list \in Seq(Handles) /\ IsInjective(list)
  BY ZenonT(60), <1>1, RemoveFromList DEF UnusedEntries, CacheInv, OnOneList, CacheTypeOK
<1>3. Used(k) \in Nat
  <2>1. usage[s] \in Nat
    BY ZenonT(60), <1>1 DEF CacheInv, CacheTypeOK
  <2> QED BY <2>1 DEF Used
<1>4. n = IF over <= 0 THEN 0 ELSE IF over <= Len(list) THEN over ELSE Len(list)
  BY ZenonT(60) DEF Evictions
<1>5. lru' = [lru EXCEPT ![s] = DropOldest(list, n)]
      /\ usage' = [usage EXCEPT ![s] = Used(k) - n]
  BY ZenonT(60) DEF AddEntry
<1>6. /\ lru'[s] = DropOldest(list, n) /\ usage'[s] = Used(k) - n
      /\ \A r \in Shards : r # s => usage'[r] = usage[r]
  BY ZenonT(60), <1>1, <1>5 DEF CacheInv, CacheTypeOK
<1> HIDE DEF list, n, s
<1>7. over \in Int /\ Len(list) \in Nat
  BY <1>1, <1>2, <1>3
<1>8. CASE over <= Len(list)
  <2>1. Used(k) - n <= Capacity(s)
    BY ZenonT(60), <1>1, <1>3, <1>4, <1>7, <1>8, EvictedEnough
  <2>2. usage'[s] <= Capacity(s)
    BY ZenonT(60), <2>1, <1>6
  <2> QED BY ZenonT(60), <2>2, <1>1, <1>6 DEF UsageBounded
<1>9. CASE over > Len(list)
  <2>1. n = Len(list)
    BY <1>4, <1>7, <1>9
  <2>2. Range(DropOldest(list, n)) = Range(list) \ {list[i] : i \in 1 .. n}
    BY ZenonT(60), <1>1, <1>2, DropFromList
  <2>3. Range(lru'[s]) = {}
    <3>1. Range(list) = {list[i] : i \in 1 .. Len(list)}
      BY ZenonT(60), <1>2, ListRange
    <3> QED BY ZenonT(60), <2>1, <2>2, <1>6, <3>1
  <2>4. usage'[s] <= Cardinality(Threads)
    <3>1. CacheInv' => PinnedBound'
      BY AllPinned, PTL
    <3> QED BY ZenonT(60), <3>1, <2>3, <1>1 DEF PinnedBound
  <2> QED BY ZenonT(60), <2>4, <1>1, <1>6 DEF UsageBounded
<1> QED BY <1>7, <1>8, <1>9

\* UsageBounded, for any number of callers: with no more callers than the
\* smallest shard has capacity, the assertion usage_ <= capacity_ at the end
\* of LookupInsert cannot fail.
THEOREM UsageStaysBounded == CacheSpec => []UsageBounded
<1>1. CacheInit => UsageBounded
  <2>1. Cardinality(Threads) \in Nat
    BY ConstantsAssumption, FS_CardinalityType
  <2> QED BY <2>1 DEF CacheInit, UsageBounded
<1>2. ASSUME CacheInv, CacheInv', UsageBounded, [CacheNext]_cacheVars PROVE UsageBounded'
  <2>1. ASSUME NEW s \in Shards, NEW out, out \subseteq in_cache, NEW rest, FinishErase(s, out, rest)
        PROVE  UsageBounded'
    <3>1. usage' = [usage EXCEPT ![s] = @ - Cardinality(out)]
      BY <2>1 DEF FinishErase
    <3>2. Cardinality(out) \in Nat
      BY <1>2, <2>1, CachedFinite DEF CacheInv
    <3>3. Cardinality(Threads) \in Nat
      BY ZenonT(60), ConstantsAssumption, FS_CardinalityType
    <3>4. ASSUME NEW r \in Shards
          PROVE  usage[r] \in Nat /\ usage'[r] \in Nat /\ usage'[r] <= usage[r]
      <4>1. usage \in [Shards -> Nat] /\ usage' \in [Shards -> Nat]
        BY ZenonT(60), <1>2 DEF CacheInv, CacheTypeOK
      <4>2. usage'[r] = IF r = s THEN usage[r] - Cardinality(out) ELSE usage[r]
        BY ZenonT(60), <4>1, <3>1
      <4> QED BY <4>1, <4>2, <3>2
    <3>5. \A r \in Shards : Capacity(r) \in Int
      BY ConstantsAssumption DEF Capacity, Shards
    <3>6. ASSUME NEW r \in Shards
          PROVE  usage'[r] <= Capacity(r) \/ usage'[r] <= Cardinality(Threads)
      <4>1. usage[r] <= Capacity(r) \/ usage[r] <= Cardinality(Threads)
        BY ZenonT(60), <1>2 DEF UsageBounded
      <4> QED BY <3>3, <3>4, <3>5, <4>1
    <3> QED BY ZenonT(60), <3>6 DEF UsageBounded
  <2>2. ASSUME UNCHANGED usage PROVE UsageBounded'
    BY ZenonT(60), <1>2, <2>2 DEF UsageBounded
  <2>3. ASSUME NEW t \in Threads, NEW k \in Keys, Lookup(t, k) PROVE UsageBounded'
    BY ZenonT(60), <2>2, <2>3 DEF Lookup, Ref, cacheVars
  <2>4. ASSUME NEW t \in Threads, NEW k \in Keys, LookupInsert(t, k) PROVE UsageBounded'
    BY ZenonT(60), <1>2, <2>2, <2>4, AddEntryBounded DEF LookupInsert, Ref
  <2>5. ASSUME NEW t \in Threads, NEW k \in Keys, Insert(t, k) PROVE UsageBounded'
    BY ZenonT(60), <1>2, <2>5, AddEntryBounded DEF Insert
  <2>6. ASSUME NEW t \in Threads, Release(t) PROVE UsageBounded'
    BY ZenonT(60), <2>2, <2>6 DEF Release
  <2>7. ASSUME NEW k \in Keys, Erase(k) PROVE UsageBounded'
    <3>1. {table[k]} \subseteq in_cache /\ ShardOf[k] \in Shards
      BY ZenonT(60), <1>2, <2>7, ConstantsAssumption DEF Erase, CacheInv, TableMatchesCache
    <3> QED BY ZenonT(60), <2>1, <2>7, <3>1 DEF Erase
  <2>8. ASSUME NEW s \in Shards, Prune(s) PROVE UsageBounded'
    <3>1. \A h \in Range(lru[s]) : table[key[h]] \in in_cache
      <4>1. \A h \in Range(lru[s]) : h \in in_cache
        BY ZenonT(60), <1>2 DEF CacheInv, OnOneList
      <4> QED BY ZenonT(60), <4>1, <1>2 DEF CacheInv, TableMatchesCache
    <3>2. {table[key[h]] : h \in Range(lru[s])} \subseteq in_cache
      BY ZenonT(60), <3>1
    <3> QED BY ZenonT(60), <2>1, <2>8, <3>2 DEF Prune
  <2>9. CASE UNCHANGED cacheVars
    BY <2>2, <2>9 DEF cacheVars
  <2> QED BY ZenonT(60), <1>2, <2>3, <2>4, <2>5, <2>6, <2>7, <2>8, <2>9 DEF CacheNext
<1> QED BY <1>1, <1>2, CacheInvariant, PTL DEF CacheSpec

\* What an insertion takes out of the cache without deleting it is the entry
\* of the same key: evicted entries have one reference only.
LEMMA InsertionTakesDuplicate ==
  ASSUME CacheInv, NEW t \in Threads, NEW k \in Keys, NEW e \in Handles \ live, NEW frame,
         AddEntry(t, k, e, frame), NEW h \in in_cache, h \in live', h \notin in_cache'
  PROVE  h = Duplicate(k)
<1> DEFINE n == Evictions(k)
<1>1. \A i \in 1 .. n : LET v == UnusedEntries(k)[i]
                        IN  /\ v \in in_cache /\ refs[v] = 1
                            /\ table[key[v]] = v
  BY ZenonT(60), EvictionFacts
<1> DEFINE out == {table[key[UnusedEntries(k)[i]]] : i \in 1 .. n} \cup ({Duplicate(k)} \ {NULL})
           gone == {g \in out : refs[g] = 1}
<1>2. \A g \in out : refs[g] = 1 \/ g = Duplicate(k)
  BY <1>1
<1>3. /\ live' = (live \ gone) \cup {e}
      /\ in_cache' = (in_cache \ out) \cup (IF Caching(k) THEN {e} ELSE {})
  BY ZenonT(60) DEF AddEntry
<1>4. h # e
  BY DEF CacheInv, TableMatchesCache
<1> HIDE DEF out
<1> QED BY ZenonT(60), <1>2, <1>3, <1>4

\* PinnedLeavesByRequest: an entry that a caller still holds is taken out of
\* the cache by Erase or Insert of its own key only; neither an eviction, by
\* whatever insertion, nor Prune does it.
THEOREM PinnedStayCached == CacheSpec => PinnedLeavesByRequest
<1> DEFINE Requested(h) == Erase(key[h]) \/ \E t \in Threads : Insert(t, key[h])
           OnlyRequested == \A h \in in_cache : h \in live' \ in_cache' => Requested(h)
<1>1. ASSUME CacheInv, CacheNext, NEW h \in in_cache, h \in live', h \notin in_cache'
      PROVE  Requested(h)
  <2>1. ASSUME UNCHANGED in_cache PROVE FALSE
    BY ZenonT(60), <1>1, <2>1
  <2>2. ASSUME NEW k \in Keys, h = table[k] PROVE key[h] = k
    <3>1. h # NULL
      BY <1>1, ConstantsAssumption DEF CacheInv, CacheTypeOK
    <3> QED BY ZenonT(60), <1>1, <2>2, <3>1 DEF CacheInv, TableMatchesCache
  <2>3. ASSUME NEW t \in Threads, NEW k \in Keys, LookupInsert(t, k) PROVE FALSE
    <3>1. ~ Ref(t, table[k])
      BY ZenonT(60), <2>1 DEF Ref
    <3>2. PICK e \in Handles \ live : table[k] = NULL /\ AddEntry(t, k, e, LookupInsertFrame(k))
      BY ZenonT(60), <2>3, <3>1 DEF LookupInsert
    <3>3. h = Duplicate(k) /\ h # NULL
      BY <1>1, <3>2, InsertionTakesDuplicate, ConstantsAssumption DEF CacheInv, CacheTypeOK
    <3> QED BY ZenonT(60), <3>2, <3>3 DEF Duplicate
  <2>4. ASSUME NEW t \in Threads, NEW k \in Keys, Insert(t, k) PROVE Requested(h)
    <3>1. PICK e \in Handles \ live : AddEntry(t, k, e, InsertFrame(k))
      BY ZenonT(60), <2>4 DEF Insert
    <3>2. h = Duplicate(k) /\ h # NULL
      BY <1>1, <3>1, InsertionTakesDuplicate, ConstantsAssumption DEF CacheInv, CacheTypeOK
    <3>3. h = table[k]
      BY ZenonT(60), <3>2 DEF Duplicate
    <3> QED BY ZenonT(60), <2>2, <2>4, <3>3
  <2>5. ASSUME NEW k \in Keys, Erase(k) PROVE Requested(h)
    <3>1. in_cache' = in_cache \ {table[k]}
      BY ZenonT(60), <2>5 DEF Erase, FinishErase
    <3> QED BY ZenonT(60), <1>1, <2>2, <2>5, <3>1
  <2>6. ASSUME NEW s \in Shards, Prune(s) PROVE FALSE
    <3> DEFINE out == {table[key[g]] : g \in Range(lru[s])}
    <3>1. \A g \in out : refs[g] = 1
      BY <1>1 DEF CacheInv, OnOneList, TableMatchesCache
    <3>2. live' = live \ {g \in out : refs[g] = 1} /\ in_cache' = in_cache \ out
      BY ZenonT(60), <2>6 DEF Prune, FinishErase
    <3> HIDE DEF out
    <3> QED BY ZenonT(60), <1>1, <3>1, <3>2
  <2>7. ASSUME NEW t \in Threads, NEW k \in Keys, Lookup(t, k) PROVE FALSE
    BY ZenonT(60), <2>1, <2>7 DEF Lookup, Ref, cacheVars
  <2>8. ASSUME NEW t \in Threads, Release(t) PROVE FALSE
    BY ZenonT(60), <2>1, <2>8 DEF Release
  <2> QED BY ZenonT(60), <1>1, <2>3, <2>4, <2>5, <2>6, <2>7, <2>8 DEF CacheNext
<1>2. CacheInv /\ [CacheNext]_cacheVars => [OnlyRequested]_cacheVars
  BY ZenonT(60), <1>1
<1> QED BY <1>2, CacheInvariant, PTL DEF CacheSpec, PinnedLeavesByRequest
=============================================================================
