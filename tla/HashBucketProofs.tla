-------------------------- MODULE HashBucketProofs --------------------------
(***************************************************************************)
(* The invariants of HashBucket, proved for every number of pages, readers *)
(* and background threads.                                                 *)
(***************************************************************************)
EXTENDS HashBucket, FiniteSetTheorems, TLAPS

\* A step that names no prover has 30 seconds of SMT.
USE SMTT(30)

-----------------------------------------------------------------------------
(***************************************************************************)
(* The inductive invariant.                                                *)
(***************************************************************************)
Steps == {"idle", "search", "head", "insert", "replay", "update",
          "trylock", "scan", "collect", "visit", "finished"}

ListTypeOK ==
  /\ nodeList \in Keys \cup {NULL}
  /\ nextHead \in [Keys -> Keys \cup {NULL}]
  /\ prevHead \in [Keys -> Keys \cup {NULL}]
  /\ heads \subseteq Keys

BucketTypeOK ==
  /\ ListTypeOK
  /\ bucketLock \in [writer : Threads \cup {NULL}, readers : SUBSET Threads]
  /\ headLock \in [Keys -> Threads \cup {NULL}]
  /\ replayLock \in Vacuumers \cup {NULL}
  /\ pc \in [Threads -> Steps]
  /\ target \in [Threads -> Keys \cup {NULL}]

\* L is the list: nextHead runs through it from nodeList to its end, and a
\* prevHead is not set, or names the head in front.
Linked(L) ==
  /\ IsInjective(L)
  /\ Range(L) = heads
  /\ nodeList = IF Len(L) = 0 THEN NULL ELSE L[1]
  /\ \A i \in 1 .. Len(L) :
       /\ nextHead[L[i]] = IF i = Len(L) THEN NULL ELSE L[i + 1]
       /\ prevHead[L[i]] \in IF i = 1 THEN {NULL} ELSE {NULL, L[i - 1]}
  /\ \A k \in Keys \ heads : prevHead[k] = NULL

Listed == \E L \in Seq(Keys) : Linked(L)

\* Who holds bucketLock, for writing and for reading.
BucketLockHeld ==
  /\ \A t \in Threads : bucketLock.writer = t <=> pc[t] = "search"
  /\ bucketLock.readers = {t \in Threads : pc[t] \in {"update", "collect"}}
  /\ bucketLock.writer = NULL \/ bucketLock.readers = {}

Holding == {"insert", "replay", "update"}

\* A thread that works on a head holds its headLock, and no headLock is left
\* behind: whoever holds one is about to release it.
HeadLockHeld ==
  /\ \A t \in Threads :
       /\ pc[t] \in Holding \cup {"search", "head"} => target[t] \in Keys
       /\ pc[t] \in Holding => headLock[target[t]] = t
  /\ \A t \in Readers \cup {Parser} : pc[t] \in Holding \cup {"head"} => target[t] \in heads
  /\ \A k \in Keys : headLock[k] # NULL =>
       pc[headLock[k]] \in Holding /\ target[headLock[k]] = k

BucketInv ==
  /\ BucketTypeOK
  /\ Listed
  /\ BucketLockHeld
  /\ HeadLockHeld

-----------------------------------------------------------------------------
(***************************************************************************)
(* The list.                                                               *)
(***************************************************************************)
\* A nonempty set of natural numbers has a least element.
LEMMA NatLeast ==
  ASSUME NEW T, T \subseteq Nat, T # {}
  PROVE  \E x \in T : \A y \in T : x <= y
<1>1. PICK x \in T : \A y \in T : ~ (<<y, x>> \in OpToRel(<, Nat))
  BY ZenonT(60), NatLessThanWellFounded, WFMin
<1>2. \A y \in T : ~ (y < x)
  BY ZenonT(60), <1>1 DEF OpToRel
<1> QED BY <1>2

\* The numbers from 1 to m are m numbers.
LEMMA IntervalSize ==
  ASSUME NEW m \in Nat
  PROVE  Cardinality(1 .. m) = m
<1>1. Cardinality(1 .. m) = IF 1 > m THEN 0 ELSE m - 1 + 1
  BY FS_Interval
<1> QED BY <1>1

\* The equation of the recursive function of From.
WalkStep(f, N, first, next, null) ==
  [n \in 0 .. N |-> IF n = 0 THEN first
                    ELSE IF f[n - 1] = null THEN null ELSE next[f[n - 1]]]

\* L[1] to L[m] are linked by next.
Chained(L, m, first, next, null) ==
  /\ first = IF m = 0 THEN null ELSE L[1]
  /\ \A i \in 1 .. m :
       L[i] # null /\ next[L[i]] = IF i = m THEN null ELSE L[i + 1]

\* The recursive function of From exists for a list of m nodes linked by next.
LEMMA WalkExists ==
  ASSUME NEW N \in Nat, NEW m \in Nat, NEW L, NEW first, NEW next, NEW null,
         Chained(L, m, first, next, null)
  PROVE  LET walk == [n \in 0 .. N |-> IF n < m THEN L[n + 1] ELSE null]
         IN  walk = WalkStep(walk, N, first, next, null)
<1> DEFINE walk == [n \in 0 .. N |-> IF n < m THEN L[n + 1] ELSE null]
           body(n) == IF n = 0 THEN first
                      ELSE IF walk[n - 1] = null THEN null ELSE next[walk[n - 1]]
<1>1. ASSUME NEW n \in 0 .. N PROVE walk[n] = body(n)
  <2>1. CASE n = 0
    BY <2>1 DEF Chained
  <2>2. CASE n # 0 /\ n - 1 < m
    <3>1. walk[n - 1] = L[n] /\ n \in 1 .. m /\ L[n] # null
      BY <2>2 DEF Chained
    <3>2. walk[n] = next[L[n]]
      BY <2>2, <3>1 DEF Chained
    <3> QED BY <2>2, <3>1, <3>2
  <2>3. CASE n # 0 /\ ~(n - 1 < m)
    BY <2>3
  <2> QED BY <2>1, <2>2, <2>3
<1>2. walk = [n \in 0 .. N |-> walk[n]]
  BY ZenonT(60)
<1>3. SUFFICES walk = WalkStep(walk, N, first, next, null)
  BY ZenonT(60)
<1> HIDE DEF walk, body
<1>4. [n \in 0 .. N |-> walk[n]] = [n \in 0 .. N |-> body(n)]
  BY <1>1
<1>5. WalkStep(walk, N, first, next, null) = [n \in 0 .. N |-> body(n)]
  BY ZenonT(60) DEF body, WalkStep
<1> QED BY ZenonT(60), <1>2, <1>4, <1>5

\* There is only one: its equation determines it number by number.
LEMMA WalkUnique ==
  ASSUME NEW N \in Nat, NEW first, NEW next, NEW null, NEW f, NEW g,
         f = WalkStep(f, N, first, next, null), g = WalkStep(g, N, first, next, null)
  PROVE  f = g
<1> DEFINE T == {n \in 0 .. N : f[n] # g[n]}
           of(h, n) == IF n = 0 THEN first
                       ELSE IF h[n - 1] = null THEN null ELSE next[h[n - 1]]
<1>1. /\ f = [n \in 0 .. N |-> of(f, n)]
      /\ g = [n \in 0 .. N |-> of(g, n)]
  BY ZenonT(60) DEF WalkStep
<1> HIDE DEF of
<1>2. \A n \in 0 .. N : f[n] = of(f, n) /\ g[n] = of(g, n)
  BY ZenonT(60), <1>1
<1>3. ASSUME T # {} PROVE FALSE
  <2>1. PICK n \in T : \A y \in T : n <= y
    <3>1. T \subseteq Nat
      OBVIOUS
    <3> HIDE DEF T
    <3> QED BY ZenonT(60), <1>3, <3>1, NatLeast
  <2>2. n # 0 => f[n - 1] = g[n - 1]
    <3>1. n # 0 => n - 1 \in 0 .. N /\ ~(n <= n - 1)
      OBVIOUS
    <3> QED BY <2>1, <3>1
  <2>3. of(f, n) = of(g, n)
    BY <2>2 DEF of
  <2> QED BY <2>1, <2>3, <1>2
<1>4. f = [n \in 0 .. N |-> f[n]] /\ g = [n \in 0 .. N |-> g[n]]
  BY ZenonT(60), <1>1
<1>5. \A n \in 0 .. N : f[n] = g[n]
  BY <1>3
<1> QED BY ZenonT(60), <1>4, <1>5

\* The search loop walks through exactly the list L that the pointers make.
LEMMA SearchWalksList ==
  ASSUME BucketTypeOK, NEW L \in Seq(Keys), Linked(L)
  PROVE  From(nodeList) = L
<1> DEFINE N == Cardinality(Keys)
           node == CHOOSE f : f = WalkStep(f, N, nodeList, nextHead, NULL)
<1>1. N \in Nat
  BY BucketAssumption, FS_CardinalityType
<1>2. From(nodeList) = [i \in 1 .. Cardinality({n \in 0 .. N : node[n] # NULL}) |-> node[i - 1]]
  BY ZenonT(60) DEF From, WalkStep
<1>3. PICK m \in Nat : m = Len(L) /\ L \in [1 .. m -> Keys]
  OBVIOUS
<1>4. m <= N
  <2>1. L \in Injection(1 .. m, Keys)
    BY <1>3 DEF Linked, Injection
  <2> QED BY <2>1, IntervalSize, FS_Injection, BucketAssumption
<1> HIDE DEF N
<1>5. Chained(L, m, nodeList, nextHead, NULL)
  <2>1. \A i \in 1 .. Len(L) : L[i] # NULL
    BY BucketAssumption
  <2>2. Chained(L, Len(L), nodeList, nextHead, NULL)
    BY ZenonT(60), <2>1 DEF Linked, Chained
  <2> QED BY ZenonT(60), <1>3, <2>2
<1> DEFINE walk == [n \in 0 .. N |-> IF n < m THEN L[n + 1] ELSE NULL]
<1>6. \A n \in 0 .. N : node[n] = IF n < m THEN L[n + 1] ELSE NULL
  <2>1. walk = WalkStep(walk, N, nodeList, nextHead, NULL)
    BY <1>1, <1>3, <1>5, WalkExists
  <2> HIDE DEF walk
  <2>2. node = WalkStep(node, N, nodeList, nextHead, NULL)
    BY ZenonT(60), <2>1
  <2> HIDE DEF node
  <2>3. node = walk
    BY <1>1, <2>1, <2>2, WalkUnique
  <2> QED BY <2>3 DEF walk
<1> HIDE DEF node
<1>7. {n \in 0 .. N : node[n] # NULL} = 0 .. m - 1
  BY <1>1, <1>3, <1>4, <1>6, BucketAssumption
<1>8. Cardinality(0 .. m - 1) = m
  BY FS_Interval
<1>9. [i \in 1 .. m |-> node[i - 1]] = L
  BY <1>1, <1>3, <1>4, <1>6
<1> QED BY ZenonT(60), <1>2, <1>7, <1>8, <1>9

-----------------------------------------------------------------------------
(***************************************************************************)
(* What the operations do to the list.                                     *)
(***************************************************************************)
\* Linked, for a list given as a function on 1 .. m.
Pointers(L, m, first, next, prev, hs) ==
  /\ \A i, j \in 1 .. m : L[i] = L[j] => i = j
  /\ hs = {L[i] : i \in 1 .. m}
  /\ first = IF m = 0 THEN NULL ELSE L[1]
  /\ \A i \in 1 .. m : next[L[i]] = IF i = m THEN NULL ELSE L[i + 1]
  /\ \A i \in 1 .. m : prev[L[i]] \in IF i = 1 THEN {NULL} ELSE {NULL, L[i - 1]}
  /\ \A k \in Keys \ hs : prev[k] = NULL

\* Linked, as a statement about functions on 1 .. Len(L).
LEMMA LinkedPointers ==
  ASSUME NEW L \in Seq(Keys)
  PROVE  /\ Linked(L) <=> Pointers(L, Len(L), nodeList, nextHead, prevHead, heads)
         /\ Linked(L)' <=> Pointers(L, Len(L), nodeList', nextHead', prevHead', heads')
<1>1. DOMAIN L = 1 .. Len(L)
  OBVIOUS
<1>2. /\ IsInjective(L) <=> \A i, j \in 1 .. Len(L) : L[i] = L[j] => i = j
      /\ Range(L) = {L[i] : i \in 1 .. Len(L)}
  BY <1>1 DEF IsInjective, Range
<1> QED BY ZenonT(60), <1>2 DEF Linked, Pointers

\* The pointers that MoveToFront leaves.
MovedNext(first, next, prev, k) == [next EXCEPT ![prev[k]] = next[k], ![k] = first]

MovedPrev(next, prev, k) ==
  [j \in Keys |-> IF j = k THEN NULL ELSE IF j = next[k] THEN prev[k] ELSE prev[j]]

\* A head with a prevHead goes to the front of the list.
LEMMA MoveList ==
  ASSUME NEW m \in Nat, NEW L \in [1 .. m -> Keys], NEW first, NEW hs,
         NEW next \in [Keys -> Keys \cup {NULL}], NEW prev \in [Keys -> Keys \cup {NULL}],
         Pointers(L, m, first, next, prev, hs), NEW k \in hs, prev[k] # NULL
  PROVE  \E M \in [1 .. m -> Keys] :
           Pointers(M, m, k, MovedNext(first, next, prev, k), MovedPrev(next, prev, k), hs)
<1>0. PICK next2, prev2 :
        /\ next2 = MovedNext(first, next, prev, k)
        /\ prev2 = MovedPrev(next, prev, k)
        /\ next2 = [next EXCEPT ![prev[k]] = next[k], ![k] = first]
        /\ prev2 = [j \in Keys |-> IF j = k THEN NULL
                                   ELSE IF j = next[k] THEN prev[k] ELSE prev[j]]
  BY ZenonT(60) DEF MovedNext, MovedPrev
<1>1. PICK p \in 1 .. m : L[p] = k
  BY DEF Pointers
<1>2. p # 1 /\ prev[k] = L[p - 1]
  BY ZenonT(60), <1>1 DEF Pointers
<1>3. next[k] = IF p = m THEN NULL ELSE L[p + 1]
  BY <1>1 DEF Pointers
<1>4. first = L[1] /\ NULL \notin Keys /\ k \in Keys
  BY <1>1, BucketAssumption DEF Pointers
<1>5. \A i, j \in 1 .. m : L[i] = L[j] => i = j
  BY DEF Pointers
<1>6. /\ \A i \in 1 .. m : i # p /\ i # p - 1 => next2[L[i]] = next[L[i]]
      /\ next2[L[p - 1]] = next[k]
      /\ next2[k] = L[1]
  <2>1. p - 1 \in 1 .. m /\ L[p - 1] \in Keys /\ L[p - 1] # k
    BY <1>1, <1>2, <1>5
  <2> QED BY <1>0, <1>1, <1>2, <1>4, <1>5, <2>1
<1>7. /\ prev2[k] = NULL
      /\ \A i \in 1 .. m : i # p /\ i # p + 1 => prev2[L[i]] = prev[L[i]]
      /\ p + 1 <= m => prev2[L[p + 1]] = L[p - 1]
  <2>1. prev2[k] = NULL
    BY <1>0, <1>4
  <2>2. ASSUME NEW i \in 1 .. m, i # p, i # p + 1 PROVE prev2[L[i]] = prev[L[i]]
    BY <1>0, <1>1, <1>3, <1>4, <1>5, <2>2
  <2>3. ASSUME p + 1 <= m PROVE prev2[L[p + 1]] = L[p - 1]
    BY <1>0, <1>1, <1>2, <1>3, <1>4, <1>5, <2>3
  <2> QED BY <2>1, <2>2, <2>3
<1> DEFINE M == [i \in 1 .. m |-> IF i = 1 THEN k ELSE IF i <= p THEN L[i - 1] ELSE L[i]]
<1>8. M \in [1 .. m -> Keys]
  BY <1>1, <1>2, <1>4
<1>9. /\ M[1] = k
      /\ \A i \in 2 .. p : M[i] = L[i - 1]
      /\ \A i \in p + 1 .. m : M[i] = L[i]
  BY <1>1, <1>2
<1> HIDE DEF M
<1>10. \A i, j \in 1 .. m : M[i] = M[j] => i = j
  BY <1>1, <1>5, <1>9
<1> DEFINE place(i) == IF i = 1 THEN p ELSE IF i <= p THEN i - 1 ELSE i
<1>11. /\ \A i \in 1 .. m : place(i) \in 1 .. m /\ M[i] = L[place(i)]
       /\ \A i \in 1 .. m : \E j \in 1 .. m : place(j) = i
  <2>1. ASSUME NEW i \in 1 .. m PROVE place(i) \in 1 .. m /\ M[i] = L[place(i)]
    <3>1. CASE i = 1
      BY <3>1, <1>1, <1>9
    <3>2. CASE i \in 2 .. p
      BY <3>2, <1>9
    <3>3. CASE i \in p + 1 .. m
      BY <3>3, <1>9
    <3> QED BY <3>1, <3>2, <3>3
  <2>2. ASSUME NEW i \in 1 .. m PROVE \E j \in 1 .. m : place(j) = i
    <3>1. CASE i = p
      <4>1. place(1) = i /\ 1 \in 1 .. m
        BY <3>1
      <4> QED BY <4>1
    <3>2. CASE i < p
      <4>1. place(i + 1) = i /\ i + 1 \in 1 .. m
        BY <3>2
      <4> QED BY <4>1
    <3>3. CASE i > p
      <4>1. place(i) = i
        BY <3>3
      <4> QED BY <4>1
    <3> QED BY <3>1, <3>2, <3>3
  <2> QED BY <2>1, <2>2
<1>12. hs = {M[i] : i \in 1 .. m}
  <2> HIDE DEF place
  <2>1. hs = {L[i] : i \in 1 .. m}
    BY DEF Pointers
  <2>2. \A i \in 1 .. m : \E j \in 1 .. m : M[i] = L[j]
    BY ZenonT(60), <1>11
  <2>3. \A i \in 1 .. m : \E j \in 1 .. m : L[i] = M[j]
    BY ZenonT(60), <1>11
  <2>4. PICK D : D = 1 .. m
    OBVIOUS
  <2>5. {M[i] : i \in D} = {L[i] : i \in D}
    <3>1. /\ \A i \in D : \E j \in D : M[i] = L[j]
          /\ \A i \in D : \E j \in D : L[i] = M[j]
      BY ZenonT(60), <2>2, <2>3, <2>4
    <3>2. ASSUME NEW x \in {M[i] : i \in D} PROVE x \in {L[i] : i \in D}
      <4>1. PICK i \in D : x = M[i]
        BY ZenonT(60)
      <4>2. PICK j \in D : M[i] = L[j]
        BY ZenonT(60), <3>1
      <4> QED BY ZenonT(60), <4>1, <4>2
    <3>3. ASSUME NEW x \in {L[i] : i \in D} PROVE x \in {M[i] : i \in D}
      <4>1. PICK i \in D : x = L[i]
        BY ZenonT(60)
      <4>2. PICK j \in D : L[i] = M[j]
        BY ZenonT(60), <3>1
      <4> QED BY ZenonT(60), <4>1, <4>2
    <3> QED BY ZenonT(60), <3>2, <3>3
  <2> QED BY ZenonT(60), <2>1, <2>4, <2>5
<1>13. ASSUME NEW i \in 1 .. m PROVE next2[M[i]] = IF i = m THEN NULL ELSE M[i + 1]
  <2>1. CASE i = 1
    <3>1. i # m /\ M[i + 1] = L[1]
      BY <2>1, <1>1, <1>2, <1>9
    <3> QED BY <3>1, <2>1, <1>6, <1>9
  <2>2. CASE i \in 2 .. p - 1
    <3>1. M[i] = L[i - 1] /\ M[i + 1] = L[i] /\ i - 1 \in 1 .. m /\ i - 1 # p /\ i - 1 # p - 1
      BY <2>2, <1>9
    <3>2. next[L[i - 1]] = L[i]
      BY <3>1, <2>2 DEF Pointers
    <3> QED BY <3>1, <3>2, <2>2, <1>6
  <2>3. CASE i = p
    <3>1. M[i] = L[p - 1] /\ next2[L[p - 1]] = IF p = m THEN NULL ELSE L[p + 1]
      BY <2>3, <1>1, <1>2, <1>3, <1>6, <1>9
    <3>2. p # m => M[p + 1] = L[p + 1]
      BY <1>1, <1>9
    <3> QED BY <3>1, <3>2, <2>3
  <2>4. CASE i > p
    <3>1. M[i] = L[i] /\ (i # m => M[i + 1] = L[i + 1])
      BY <2>4, <1>9
    <3>2. next2[L[i]] = IF i = m THEN NULL ELSE L[i + 1]
      BY <2>4, <1>6 DEF Pointers
    <3> QED BY <3>1, <3>2
  <2> QED BY <2>1, <2>2, <2>3, <2>4
<1>14. ASSUME NEW i \in 1 .. m PROVE prev2[M[i]] \in IF i = 1 THEN {NULL} ELSE {NULL, M[i - 1]}
  <2>1. CASE i = 1
    BY <2>1, <1>7, <1>9
  <2>2. CASE i = 2
    <3>1. M[i] = L[1] /\ 1 # p /\ 1 # p + 1 /\ 1 \in 1 .. m
      BY <2>2, <1>1, <1>2, <1>9
    <3>2. prev2[L[1]] = NULL
      BY ZenonT(60), <3>1, <1>7 DEF Pointers
    <3> QED BY <3>1, <3>2, <2>2
  <2>3. CASE i \in 3 .. p
    <3>1. M[i] = L[i - 1] /\ M[i - 1] = L[i - 2]
      BY <2>3, <1>9
    <3>2. i - 1 \in 1 .. m /\ i - 1 # 1 /\ i - 1 # p /\ i - 1 # p + 1 /\ i - 1 - 1 = i - 2
      BY <2>3
    <3>3. prev[L[i - 1]] \in {NULL, L[i - 2]}
      BY ZenonT(60), <3>2 DEF Pointers
    <3>4. prev2[L[i - 1]] = prev[L[i - 1]]
      BY <3>2, <1>7
    <3> QED BY <3>1, <3>3, <3>4, <2>3
  <2>4. CASE i = p + 1
    <3>1. M[i] = L[p + 1] /\ M[i - 1] = L[p - 1]
      BY <2>4, <1>1, <1>2, <1>9
    <3> QED BY <3>1, <2>4, <1>7
  <2>5. CASE i > p + 1
    <3>1. M[i] = L[i] /\ M[i - 1] = L[i - 1]
      BY <2>5, <1>9
    <3>2. prev[L[i]] \in {NULL, L[i - 1]}
      BY ZenonT(60), <2>5 DEF Pointers
    <3>3. i # p /\ i # p + 1 /\ i # 1
      BY <2>5
    <3>4. prev2[L[i]] = prev[L[i]]
      BY ZenonT(60), <3>3, <1>7
    <3> QED BY <3>1, <3>2, <3>3, <3>4
  <2> QED BY <2>1, <2>2, <2>3, <2>4, <2>5
<1>15. \A j \in Keys \ hs : prev2[j] = NULL
  BY <1>0, <1>1, <1>3, <1>4 DEF Pointers
<1>16. k = IF m = 0 THEN NULL ELSE M[1]
  BY <1>9
<1>17. Pointers(M, m, k, next2, prev2, hs)
  BY ZenonT(60), <1>8, <1>10, <1>12, <1>13, <1>14, <1>15, <1>16 DEF Pointers
<1> QED BY ZenonT(60), <1>0, <1>8, <1>17

\* The pointers that CreateHead leaves.
CreatedNext(first, next, k) == [next EXCEPT ![k] = first]

CreatedPrev(first, prev, k) == [j \in Keys |-> IF j = first THEN k ELSE prev[j]]

\* A new head is put in front of the list.
LEMMA CreateList ==
  ASSUME NEW m \in Nat, NEW L \in [1 .. m -> Keys], NEW first, NEW hs,
         NEW next \in [Keys -> Keys \cup {NULL}], NEW prev \in [Keys -> Keys \cup {NULL}],
         Pointers(L, m, first, next, prev, hs), NEW k \in Keys \ hs
  PROVE  \E M \in [1 .. m + 1 -> Keys] :
           Pointers(M, m + 1, k, CreatedNext(first, next, k), CreatedPrev(first, prev, k), hs \cup {k})
<1>0. PICK next2, prev2 :
        /\ next2 = CreatedNext(first, next, k)
        /\ prev2 = CreatedPrev(first, prev, k)
        /\ next2 = [next EXCEPT ![k] = first]
        /\ prev2 = [j \in Keys |-> IF j = first THEN k ELSE prev[j]]
  BY ZenonT(60) DEF CreatedNext, CreatedPrev
<1> DEFINE M == [i \in 1 .. m + 1 |-> IF i = 1 THEN k ELSE L[i - 1]]
<1>1. M \in [1 .. m + 1 -> Keys]
  OBVIOUS
<1>2. M[1] = k /\ \A i \in 1 .. m : M[i + 1] = L[i]
  OBVIOUS
<1>3. \A i \in 1 .. m + 1 : i = 1 \/ \E j \in 1 .. m : i = j + 1
  <2> TAKE i \in 1 .. m + 1
  <2>1. i # 1 => i - 1 \in 1 .. m /\ i = (i - 1) + 1
    OBVIOUS
  <2> QED BY <2>1
<1> HIDE DEF M
<1>4. /\ \A i, j \in 1 .. m : L[i] = L[j] => i = j
      /\ \A i \in 1 .. m : L[i] \in hs /\ L[i] # k
      /\ hs = {L[i] : i \in 1 .. m}
      /\ first = IF m = 0 THEN NULL ELSE L[1]
      /\ NULL \notin Keys
  BY BucketAssumption DEF Pointers
<1>5. \A i, j \in 1 .. m + 1 : M[i] = M[j] => i = j
  BY <1>2, <1>3, <1>4
<1>6. hs \cup {k} = {M[i] : i \in 1 .. m + 1}
  <2>1. \A i \in 1 .. m + 1 : M[i] \in hs \cup {k}
    BY <1>2, <1>3, <1>4
  <2>2. \A i \in 1 .. m : i + 1 \in 1 .. m + 1 /\ L[i] = M[i + 1]
    BY <1>2
  <2>3. 1 \in 1 .. m + 1
    OBVIOUS
  <2> QED BY <2>1, <2>2, <2>3, <1>2, <1>4
<1>7. ASSUME NEW i \in 1 .. m + 1 PROVE next2[M[i]] = IF i = m + 1 THEN NULL ELSE M[i + 1]
  <2>1. CASE i = 1
    <3>1. next2[M[i]] = first
      BY <2>1, <1>0, <1>2
    <3>2. m # 0 => M[i + 1] = L[1]
      BY <2>1, <1>2
    <3> QED BY <3>1, <3>2, <2>1, <1>4
  <2>2. ASSUME NEW j \in 1 .. m, i = j + 1 PROVE next2[M[i]] = IF i = m + 1 THEN NULL ELSE M[i + 1]
    <3>1. M[i] = L[j] /\ (j # m => M[i + 1] = L[j + 1])
      BY <2>2, <1>2
    <3>2. next2[L[j]] = next[L[j]]
      BY <1>0, <1>4
    <3>3. next[L[j]] = IF j = m THEN NULL ELSE L[j + 1]
      BY DEF Pointers
    <3> QED BY <3>1, <3>2, <3>3, <2>2
  <2> QED BY <2>1, <2>2, <1>3
<1>8. ASSUME NEW i \in 1 .. m + 1 PROVE prev2[M[i]] \in IF i = 1 THEN {NULL} ELSE {NULL, M[i - 1]}
  <2>1. CASE i = 1
    <3>1. k # first /\ prev[k] = NULL
      BY <1>4 DEF Pointers
    <3> QED BY <3>1, <2>1, <1>0, <1>2
  <2>2. ASSUME NEW j \in 1 .. m, i = j + 1, j = 1 PROVE prev2[M[i]] = M[i - 1]
    <3>1. M[i] = L[1] /\ M[i - 1] = k /\ first = L[1] /\ L[1] \in Keys
      BY <2>2, <1>2, <1>4
    <3> QED BY <3>1, <1>0
  <2>3. ASSUME NEW j \in 1 .. m, i = j + 1, j # 1 PROVE prev2[M[i]] \in {NULL, M[i - 1]}
    <3>1. M[i] = L[j] /\ M[i - 1] = L[j - 1] /\ first # L[j] /\ L[j] \in Keys
      <4>1. j - 1 \in 1 .. m /\ j - 1 + 1 = j /\ i - 1 = j - 1 + 1
        BY <2>3
      <4>2. M[j + 1] = L[j] /\ M[j - 1 + 1] = L[j - 1]
        BY <4>1, <1>2
      <4> QED BY <4>1, <4>2, <2>3, <1>4
    <3>2. prev[L[j]] \in {NULL, L[j - 1]}
      BY ZenonT(60), <2>3 DEF Pointers
    <3> QED BY <3>1, <3>2, <2>3, <1>0
  <2> QED BY <2>1, <2>2, <2>3, <1>3
<1>9. \A j \in Keys \ (hs \cup {k}) : prev2[j] = NULL
  BY <1>0, <1>4 DEF Pointers
<1>10. k = IF m + 1 = 0 THEN NULL ELSE M[1]
  BY <1>2
<1>11. Pointers(M, m + 1, k, next2, prev2, hs \cup {k})
  BY ZenonT(60), <1>1, <1>5, <1>6, <1>7, <1>8, <1>9, <1>10 DEF Pointers
<1> QED BY ZenonT(60), <1>0, <1>1, <1>11

-----------------------------------------------------------------------------
(***************************************************************************)
(* The locks, when thread t goes on to step "to" about page k.             *)
(***************************************************************************)
Moves(t, to, k) ==
  /\ pc' = [pc EXCEPT ![t] = to]
  /\ target' = [target EXCEPT ![t] = k]

\* A thread that moves on changes its own step and target only.
LEMMA MoveFacts ==
  ASSUME BucketTypeOK, NEW t \in Threads, NEW to \in Steps, NEW k \in Keys \cup {NULL},
         Moves(t, to, k)
  PROVE  /\ pc' \in [Threads -> Steps] /\ target' \in [Threads -> Keys \cup {NULL}]
         /\ pc'[t] = to /\ target'[t] = k
         /\ \A u \in Threads : u # t => pc'[u] = pc[u] /\ target'[u] = target[u]
  BY DEF BucketTypeOK, Moves

\* A thread gets or gives up bucketLock when it gets to or leaves a step that
\* needs it.
LEMMA BucketLockStep ==
  ASSUME BucketTypeOK, BucketLockHeld, NEW t \in Threads, NEW to \in Steps,
         NEW k \in Keys \cup {NULL}, Moves(t, to, k),
         LET none == Steps \ {"search", "update", "collect"}
         IN  \/ pc[t] \in none /\ to \in none /\ bucketLock' = bucketLock
             \/ pc[t] \in none /\ to = "search" /\ WriteLockBucket(t)
             \/ pc[t] \in none /\ to \in {"update", "collect"} /\ ReadLockBucket(t)
             \/ to \in none /\ UnlockBucket(t)
  PROVE  BucketLockHeld' /\ bucketLock' \in [writer : Threads \cup {NULL}, readers : SUBSET Threads]
<1> DEFINE none == Steps \ {"search", "update", "collect"}
<1>1. /\ pc'[t] = to /\ \A u \in Threads : u # t => pc'[u] = pc[u]
      /\ pc \in [Threads -> Steps] /\ NULL \notin Threads
      /\ bucketLock \in [writer : Threads \cup {NULL}, readers : SUBSET Threads]
  BY MoveFacts, BucketAssumption DEF BucketTypeOK
<1>2. CASE pc[t] \in none /\ to \in none /\ bucketLock' = bucketLock
  BY <1>1, <1>2 DEF BucketLockHeld
<1>3. CASE pc[t] \in none /\ to = "search" /\ WriteLockBucket(t)
  BY <1>1, <1>3 DEF BucketLockHeld, WriteLockBucket
<1>4. CASE pc[t] \in none /\ to \in {"update", "collect"} /\ ReadLockBucket(t)
  BY <1>1, <1>4 DEF BucketLockHeld, ReadLockBucket
<1>5. CASE to \in none /\ UnlockBucket(t)
  BY <1>1, <1>5 DEF BucketLockHeld, UnlockBucket
<1> QED BY <1>2, <1>3, <1>4, <1>5

\* The same for the headLock of the page.
LEMMA HeadLockStep ==
  ASSUME BucketTypeOK, HeadLockHeld, NEW t \in Threads, NEW to \in Steps,
         NEW k \in Keys \cup {NULL}, Moves(t, to, k),
         to \in Holding \cup {"search", "head"} => k \in Keys,
         heads \subseteq heads',
         t \in Readers \cup {Parser} /\ to \in Holding \cup {"head"} => k \in heads',
         \/ /\ headLock' = headLock
            /\ \/ pc[t] \notin Holding /\ to \notin Holding
               \/ pc[t] \in Holding /\ to \in Holding /\ k = target[t]
         \/ pc[t] \notin Holding /\ to \in Holding /\ LockHead(t, k)
         \/ pc[t] \in Holding /\ to \notin Holding /\ UnlockHead(target[t])
  PROVE  HeadLockHeld' /\ headLock' \in [Keys -> Threads \cup {NULL}]
<1>1. /\ pc'[t] = to /\ target'[t] = k
      /\ \A u \in Threads : u # t => pc'[u] = pc[u] /\ target'[u] = target[u]
      /\ NULL \notin Threads /\ headLock \in [Keys -> Threads \cup {NULL}]
      /\ Readers \cup {Parser} \subseteq Threads
  BY MoveFacts, BucketAssumption DEF BucketTypeOK, Threads
<1>2. CASE headLock' = headLock /\ (pc[t] \notin Holding <=> to \notin Holding)
                                /\ (to \in Holding => k = target[t])
  BY <1>1, <1>2 DEF HeadLockHeld
<1>3. CASE pc[t] \notin Holding /\ to \in Holding /\ LockHead(t, k)
  BY <1>1, <1>3 DEF HeadLockHeld, LockHead
<1>4. CASE pc[t] \in Holding /\ to \notin Holding /\ UnlockHead(target[t])
  BY <1>1, <1>4 DEF HeadLockHeld, UnlockHead
<1> QED BY <1>2, <1>3, <1>4

-----------------------------------------------------------------------------
(***************************************************************************)
(* The operations on the list.                                             *)
(***************************************************************************)
\* A search finds exactly the pages that have a head.
LEMMA FoundIsHead ==
  ASSUME BucketTypeOK, Listed, NEW k
  PROVE  Found(k) <=> k \in heads
<1>1. PICK L \in Seq(Keys) : Linked(L)
  BY DEF Listed
<1>2. From(nodeList) = L
  BY <1>1, SearchWalksList
<1> QED BY ZenonT(60), <1>1, <1>2 DEF Found, Linked

\* A function on 1 .. m is a list.
LEMMA PointersLinked ==
  ASSUME NEW m \in Nat, NEW M \in [1 .. m -> Keys],
         Pointers(M, m, nodeList', nextHead', prevHead', heads')
  PROVE  Listed'
<1>1. M \in Seq(Keys) /\ Len(M) = m
  OBVIOUS
<1>2. Linked(M)'
  BY ZenonT(60), <1>1, LinkedPointers
<1> QED BY <1>1, <1>2 DEF Listed

\* Moving a head to the front keeps the list and the set of heads.
LEMMA MoveToFrontKeeps ==
  ASSUME BucketTypeOK, Listed, NEW k \in heads, MoveToFront(k)
  PROVE  ListTypeOK' /\ Listed' /\ heads' = heads
<1>1. PICK L \in Seq(Keys) : Linked(L)
  BY DEF Listed
<1>2. PICK m \in Nat : m = Len(L) /\ L \in [1 .. m -> Keys]
  OBVIOUS
<1>3. Pointers(L, m, nodeList, nextHead, prevHead, heads)
  BY ZenonT(60), <1>1, <1>2, LinkedPointers
<1>4. k \in Keys /\ heads' = heads
  BY DEF BucketTypeOK, ListTypeOK, MoveToFront
<1>5. CASE prevHead[k] = NULL
  <2>1. UNCHANGED <<nodeList, nextHead, prevHead, heads>>
    BY <1>4, <1>5 DEF MoveToFront
  <2>2. Pointers(L, m, nodeList', nextHead', prevHead', heads')
    BY ZenonT(60), <1>3, <2>1
  <2> QED BY <1>2, <1>4, <2>1, <2>2, PointersLinked DEF BucketTypeOK, ListTypeOK
<1>6. CASE prevHead[k] # NULL
  <2>1. /\ nextHead' = MovedNext(nodeList, nextHead, prevHead, k)
        /\ prevHead' = MovedPrev(nextHead, prevHead, k)
        /\ nodeList' = k
    BY <1>6 DEF MoveToFront, MovedNext, MovedPrev
  <2>2. PICK M \in [1 .. m -> Keys] : Pointers(M, m, k, nextHead', prevHead', heads)
    <3>1. /\ nextHead \in [Keys -> Keys \cup {NULL}]
          /\ prevHead \in [Keys -> Keys \cup {NULL}]
      BY DEF BucketTypeOK, ListTypeOK
    <3> QED BY <1>2, <1>3, <1>6, <2>1, <3>1, MoveList
  <2>3. Listed'
    BY <1>4, <2>1, <2>2, PointersLinked
  <2>4. ListTypeOK'
    BY ZenonT(60), <1>4, <2>1 DEF BucketTypeOK, ListTypeOK, MovedNext, MovedPrev
  <2> QED BY <1>4, <2>3, <2>4
<1> QED BY <1>5, <1>6

\* A new head is linked in front of the list.
LEMMA CreateHeadKeeps ==
  ASSUME BucketTypeOK, Listed, NEW k \in Keys \ heads, CreateHead(k)
  PROVE  ListTypeOK' /\ Listed' /\ heads' = heads \cup {k}
<1>1. PICK L \in Seq(Keys) : Linked(L)
  BY DEF Listed
<1>2. PICK m \in Nat : m = Len(L) /\ L \in [1 .. m -> Keys]
  OBVIOUS
<1>3. Pointers(L, m, nodeList, nextHead, prevHead, heads)
  BY ZenonT(60), <1>1, <1>2, LinkedPointers
<1>4. /\ nextHead' = CreatedNext(nodeList, nextHead, k)
      /\ prevHead' = CreatedPrev(nodeList, prevHead, k)
      /\ nodeList' = k
      /\ heads' = heads \cup {k}
  BY DEF CreateHead, CreatedNext, CreatedPrev
<1>5. PICK M \in [1 .. m + 1 -> Keys] : Pointers(M, m + 1, k, nextHead', prevHead', heads \cup {k})
  <2>1. /\ nextHead \in [Keys -> Keys \cup {NULL}]
        /\ prevHead \in [Keys -> Keys \cup {NULL}]
    BY DEF BucketTypeOK, ListTypeOK
  <2> QED BY ZenonT(60), <1>2, <1>3, <1>4, <2>1, CreateList
<1>6. Listed'
  <2>1. m + 1 \in Nat
    OBVIOUS
  <2> QED BY ZenonT(60), <1>4, <1>5, <2>1, PointersLinked
<1>7. ListTypeOK'
  BY <1>4 DEF BucketTypeOK, ListTypeOK, CreatedNext, CreatedPrev
<1> QED BY <1>4, <1>6, <1>7

-----------------------------------------------------------------------------
(***************************************************************************)
(* The steps of the threads.                                               *)
(***************************************************************************)
\* The list and the pages that have a head stay as they are.
LEMMA ListStays ==
  ASSUME BucketInv, UNCHANGED listVars
  PROVE  ListTypeOK' /\ Listed' /\ heads' = heads
<1>1. nodeList' = nodeList /\ nextHead' = nextHead /\ prevHead' = prevHead /\ heads' = heads
  BY DEF listVars
<1> QED BY ZenonT(60), <1>1 DEF BucketInv, BucketTypeOK, ListTypeOK, Listed, Linked

\* What the conclusions of the lemmas on the locks and on the list add up to.
LEMMA InvOfParts ==
  ASSUME BucketInv, NEW t \in Threads, NEW to \in Steps, NEW k \in Keys \cup {NULL},
         Moves(t, to, k), ListTypeOK', Listed',
         BucketLockHeld', HeadLockHeld',
         bucketLock' \in [writer : Threads \cup {NULL}, readers : SUBSET Threads],
         headLock' \in [Keys -> Threads \cup {NULL}],
         replayLock' \in Vacuumers \cup {NULL}
  PROVE  BucketInv'
<1>1. pc' \in [Threads -> Steps] /\ target' \in [Threads -> Keys \cup {NULL}]
  BY MoveFacts DEF BucketInv
<1> QED BY <1>1 DEF BucketInv, BucketTypeOK

\* The insertion or lookup of a page begins with bucketLock.
LEMMA BeginPreserves ==
  ASSUME BucketInv, NEW t \in Readers \cup {Parser}, NEW k \in Keys, Begin(t, k)
  PROVE  BucketInv'
<1>1. t \in Threads /\ pc[t] = "idle" /\ Moves(t, "search", k) /\ WriteLockBucket(t)
  BY DEF Begin, Goto, About, Moves, Threads
<1>2. headLock' = headLock /\ replayLock' = replayLock /\ UNCHANGED listVars
  BY DEF Begin
<1>3. BucketLockHeld' /\ bucketLock' \in [writer : Threads \cup {NULL}, readers : SUBSET Threads]
  BY <1>1, BucketLockStep DEF BucketInv, Steps
<1>4. ListTypeOK' /\ Listed' /\ heads' = heads
  BY <1>2, ListStays
<1>5. HeadLockHeld' /\ headLock' \in [Keys -> Threads \cup {NULL}]
  BY <1>1, <1>2, <1>4, HeadLockStep DEF BucketInv, Steps, Holding
<1> QED BY <1>1, <1>2, <1>3, <1>4, <1>5, InvOfParts DEF BucketInv, BucketTypeOK, Steps

\* Both searches: the head moves to the front, or there is none yet.
LEMMA SearchPreserves ==
  ASSUME BucketInv, NEW t \in Readers \cup {Parser}, NEW to \in {"head", "idle"},
         NEW k \in Keys \cup {NULL}, pc[t] = "search", Moves(t, to, k), UnlockBucket(t),
         headLock' = headLock, replayLock' = replayLock,
         ListTypeOK', Listed', heads \subseteq heads', to = "head" => k \in heads
  PROVE  BucketInv'
<1>1. t \in Threads /\ to \in Steps
  BY DEF Threads, Steps
<1>2. BucketLockHeld' /\ bucketLock' \in [writer : Threads \cup {NULL}, readers : SUBSET Threads]
  BY <1>1, BucketLockStep DEF BucketInv, Steps
<1>3. HeadLockHeld' /\ headLock' \in [Keys -> Threads \cup {NULL}]
  <2>1. heads \subseteq Keys
    BY DEF BucketInv, BucketTypeOK, ListTypeOK
  <2> QED BY <1>1, <2>1, HeadLockStep DEF BucketInv, Holding
<1> QED BY <1>1, <1>2, <1>3, InvOfParts DEF BucketInv, BucketTypeOK

\* The parser's search, with the creation of a missing head.
LEMMA InsertSearchPreserves ==
  ASSUME BucketInv, InsertSearch
  PROVE  BucketInv'
<1> DEFINE k == target[Parser]
<1>1. Parser \in Threads /\ pc[Parser] = "search" /\ k \in Keys
  BY DEF BucketInv, HeadLockHeld, InsertSearch, Goto, Threads
<1>2. UnlockBucket(Parser) /\ headLock' = headLock /\ replayLock' = replayLock
  BY DEF InsertSearch
<1>3. Found(k) <=> k \in heads
  BY FoundIsHead DEF BucketInv
<1>4. CASE k \in heads
  <2>1. Moves(Parser, "head", k) /\ MoveToFront(k)
    BY <1>1, <1>3, <1>4 DEF InsertSearch, Goto, Moves, BucketInv, BucketTypeOK
  <2>2. ListTypeOK' /\ Listed' /\ heads' = heads
    BY <1>4, <2>1, MoveToFrontKeeps DEF BucketInv
  <2> QED BY <1>1, <1>2, <1>4, <2>1, <2>2, SearchPreserves
<1>5. CASE k \notin heads
  <2>1. Moves(Parser, "idle", NULL) /\ CreateHead(k)
    BY <1>1, <1>3, <1>5 DEF InsertSearch, Goto, Moves, About
  <2>2. ListTypeOK' /\ Listed' /\ heads' = heads \cup {k}
    BY <1>1, <1>5, <2>1, CreateHeadKeeps DEF BucketInv
  <2> QED BY <1>1, <1>2, <2>1, <2>2, SearchPreserves
<1> QED BY <1>4, <1>5

\* A reader's search, with the move of the head to the front.
LEMMA ReadSearchPreserves ==
  ASSUME BucketInv, NEW r \in Readers, ReadSearch(r)
  PROVE  BucketInv'
<1> DEFINE k == target[r]
<1>1. r \in Threads /\ pc[r] = "search" /\ k \in Keys
  BY DEF BucketInv, HeadLockHeld, ReadSearch, Goto, Threads
<1>2. UnlockBucket(r) /\ headLock' = headLock /\ replayLock' = replayLock
  BY DEF ReadSearch
<1>3. Found(k) <=> k \in heads
  BY FoundIsHead DEF BucketInv
<1>4. CASE k \in heads
  <2>1. Moves(r, "head", k) /\ MoveToFront(k)
    BY <1>1, <1>3, <1>4 DEF ReadSearch, Goto, Moves, BucketInv, BucketTypeOK
  <2>2. ListTypeOK' /\ Listed' /\ heads' = heads
    BY <1>4, <2>1, MoveToFrontKeeps DEF BucketInv
  <2> QED BY <1>1, <1>2, <1>4, <2>1, <2>2, SearchPreserves
<1>5. CASE k \notin heads
  <2>1. Moves(r, "idle", NULL) /\ UNCHANGED listVars
    BY <1>1, <1>3, <1>5 DEF ReadSearch, Goto, Moves, About
  <2>2. ListTypeOK' /\ Listed' /\ heads' = heads
    BY <2>1, ListStays
  <2> QED BY <1>1, <1>2, <2>1, <2>2, SearchPreserves
<1> QED BY <1>4, <1>5

\* A step that leaves the list alone.
LEMMA StepPreserves ==
  ASSUME BucketInv, NEW t \in Threads, NEW to \in Steps, NEW k \in Keys \cup {NULL},
         Moves(t, to, k), UNCHANGED listVars, replayLock' \in Vacuumers \cup {NULL},
         to \in Holding \cup {"search", "head"} => k \in Keys,
         t \in Readers \cup {Parser} /\ to \in Holding \cup {"head"} => k \in heads,
         LET none == Steps \ {"search", "update", "collect"}
         IN  \/ pc[t] \in none /\ to \in none /\ bucketLock' = bucketLock
             \/ pc[t] \in none /\ to = "search" /\ WriteLockBucket(t)
             \/ pc[t] \in none /\ to \in {"update", "collect"} /\ ReadLockBucket(t)
             \/ to \in none /\ UnlockBucket(t),
         \/ /\ headLock' = headLock
            /\ \/ pc[t] \notin Holding /\ to \notin Holding
               \/ pc[t] \in Holding /\ to \in Holding /\ k = target[t]
         \/ pc[t] \notin Holding /\ to \in Holding /\ LockHead(t, k)
         \/ pc[t] \in Holding /\ to \notin Holding /\ UnlockHead(target[t])
  PROVE  BucketInv'
<1>1. ListTypeOK' /\ Listed' /\ heads' = heads
  BY ListStays
<1>2. BucketLockHeld' /\ bucketLock' \in [writer : Threads \cup {NULL}, readers : SUBSET Threads]
  BY BucketLockStep DEF BucketInv
<1>3. HeadLockHeld' /\ headLock' \in [Keys -> Threads \cup {NULL}]
  BY <1>1, HeadLockStep DEF BucketInv
<1> QED BY <1>1, <1>2, <1>3, InvOfParts

\* HashMapInsertKey, once it has found the head.
LEMMA ParserPreserves ==
  ASSUME BucketInv, InsertLockHead \/ InsertLsn
  PROVE  BucketInv'
<1> DEFINE k == target[Parser]
<1>1. Parser \in Threads /\ k \in Keys \cup {NULL} /\ target \in [Threads -> Keys \cup {NULL}]
      /\ replayLock \in Vacuumers \cup {NULL}
  BY DEF BucketInv, BucketTypeOK, Threads
<1>2. CASE InsertLockHead
  <2>1. /\ pc[Parser] = "head" /\ Moves(Parser, "insert", k) /\ LockHead(Parser, k)
        /\ UNCHANGED listVars /\ bucketLock' = bucketLock /\ replayLock' = replayLock
    BY <1>1, <1>2 DEF InsertLockHead, Goto, Moves
  <2>2. k \in Keys /\ k \in heads
    BY <1>1, <2>1 DEF BucketInv, HeadLockHeld
  <2> QED BY <1>1, <2>1, <2>2, StepPreserves DEF Steps, Holding
<1>3. CASE InsertLsn
  <2>1. /\ pc[Parser] = "insert" /\ Moves(Parser, "idle", NULL) /\ UnlockHead(k)
        /\ UNCHANGED listVars /\ bucketLock' = bucketLock /\ replayLock' = replayLock
    BY <1>1, <1>3 DEF InsertLsn, Goto, Moves, About
  <2> QED BY <1>1, <2>1, StepPreserves DEF Steps, Holding
<1> QED BY <1>2, <1>3

\* ReadBufferCommon, once it has found the head.
LEMMA ReaderPreserves ==
  ASSUME BucketInv, NEW r \in Readers,
         ReadLockHead(r) \/ UpdateLockBucket(r) \/ UpdateReplayedLsn(r)
  PROVE  BucketInv'
<1> DEFINE k == target[r]
<1>1. r \in Threads /\ k \in Keys \cup {NULL} /\ target \in [Threads -> Keys \cup {NULL}]
      /\ replayLock \in Vacuumers \cup {NULL}
  BY DEF BucketInv, BucketTypeOK, Threads
<1>2. CASE ReadLockHead(r)
  <2>1. /\ pc[r] = "head" /\ UNCHANGED listVars
        /\ bucketLock' = bucketLock /\ replayLock' = replayLock
    BY <1>2 DEF ReadLockHead, Goto
  <2>2. k \in Keys /\ k \in heads
    BY <1>1, <2>1 DEF BucketInv, HeadLockHeld
  <2>3. CASE Goto(r, "head", "replay") /\ LockHead(r, k) /\ UNCHANGED target
    <3>1. Moves(r, "replay", k) /\ LockHead(r, k)
      BY <1>1, <2>3 DEF Goto, Moves
    <3> QED BY <1>1, <2>1, <2>2, <3>1, StepPreserves DEF Steps, Holding
  <2>4. CASE Goto(r, "head", "idle") /\ UNCHANGED headLock /\ About(r, NULL)
    <3>1. Moves(r, "idle", NULL) /\ headLock' = headLock
      BY <2>4 DEF Goto, Moves, About
    <3> QED BY <1>1, <2>1, <3>1, StepPreserves DEF Steps, Holding
  <2> QED BY ZenonT(60), <1>2, <2>3, <2>4 DEF ReadLockHead
<1>3. CASE UpdateLockBucket(r)
  <2>1. /\ pc[r] = "replay" /\ Moves(r, "update", k) /\ ReadLockBucket(r)
        /\ UNCHANGED listVars /\ headLock' = headLock /\ replayLock' = replayLock
    BY <1>1, <1>3 DEF UpdateLockBucket, Goto, Moves
  <2>2. k \in Keys /\ k \in heads
    BY <1>1, <2>1 DEF BucketInv, HeadLockHeld, Holding
  <2> QED BY <1>1, <2>1, <2>2, StepPreserves DEF Steps, Holding
<1>4. CASE UpdateReplayedLsn(r)
  <2>1. /\ pc[r] = "update" /\ Moves(r, "idle", NULL) /\ UnlockBucket(r)
        /\ UNCHANGED listVars /\ replayLock' = replayLock
    BY <1>4 DEF UpdateReplayedLsn, Goto, Moves, About
  <2>2. Found(k)
    BY <1>1, <2>1, FoundIsHead DEF BucketInv, HeadLockHeld, Holding
  <2>3. UnlockHead(k)
    BY <1>4, <2>2 DEF UpdateReplayedLsn
  <2> QED BY <1>1, <2>1, <2>3, StepPreserves DEF Steps, Holding
<1> QED BY <1>2, <1>3, <1>4

\* BackgroundHashMapCleanRocksdb.
LEMMA VacuumerPreserves ==
  ASSUME BucketInv, NEW v \in Vacuumers,
         \/ ReadNodeList(v) \/ SkipBucket(v) \/ TryReplayLock(v)
         \/ ScanLockBucket(v) \/ CollectBatch(v)
         \/ VisitHeads(v)
  PROVE  BucketInv'
<1> DEFINE k == target[v]
<1>1. /\ v \in Threads /\ v \notin Readers \cup {Parser}
      /\ k \in Keys \cup {NULL} /\ target \in [Threads -> Keys \cup {NULL}]
      /\ pc \in [Threads -> Steps]
      /\ replayLock \in Vacuumers \cup {NULL}
  BY BucketAssumption DEF BucketInv, BucketTypeOK, Threads
\* The steps that take and release neither bucketLock nor a headLock.
<1>2. ASSUME NEW from \in {"idle", "trylock", "scan", "visit", "finished"}, pc[v] = from,
             NEW to \in {"idle", "trylock", "scan", "visit", "finished"},
             pc' = [pc EXCEPT ![v] = to], target' = target,
             UNCHANGED <<listVars, bucketLock, headLock>>,
             replayLock' \in Vacuumers \cup {NULL}
      PROVE  BucketInv'
  <2>1. Moves(v, to, k) /\ UNCHANGED listVars /\ bucketLock' = bucketLock /\ headLock' = headLock
    BY <1>1, <1>2 DEF Moves
  <2> QED BY <1>1, <1>2, <2>1, StepPreserves DEF Steps, Holding
<1>3. CASE ReadNodeList(v)
  BY <1>1, <1>2, <1>3 DEF ReadNodeList, Goto, lockVars
<1>4. CASE SkipBucket(v)
  BY <1>1, <1>2, <1>4 DEF SkipBucket, Goto, lockVars
<1>5. CASE TryReplayLock(v)
  BY <1>1, <1>2, <1>5 DEF TryReplayLock, Goto
<1>6. CASE ScanLockBucket(v)
  <2>1. /\ pc[v] = "scan" /\ Moves(v, "collect", k) /\ ReadLockBucket(v)
        /\ UNCHANGED listVars /\ headLock' = headLock /\ replayLock' = replayLock
    BY <1>1, <1>6 DEF ScanLockBucket, Goto, Moves
  <2> QED BY <1>1, <2>1, StepPreserves DEF Steps, Holding
<1>7. CASE CollectBatch(v)
  <2>1. /\ pc[v] = "collect" /\ Moves(v, "visit", k) /\ UnlockBucket(v)
        /\ UNCHANGED listVars /\ headLock' = headLock /\ replayLock' = replayLock
    BY <1>1, <1>7 DEF CollectBatch, Goto, Moves
  <2> QED BY <1>1, <2>1, StepPreserves DEF Steps, Holding
<1>8. ASSUME NEW j \in Keys, SkipHead(v, j) PROVE BucketInv'
  <2>1. pc' = [pc EXCEPT ![v] = "visit"]
    BY <1>1, <1>8 DEF SkipHead
  <2> QED BY <1>1, <1>2, <1>8, <2>1 DEF SkipHead, lockVars
<1>9. ASSUME NEW j \in Keys, VisitHead(v, j) PROVE BucketInv'
  <2>1. /\ pc[v] = "visit" /\ Moves(v, "replay", j) /\ LockHead(v, j)
        /\ UNCHANGED listVars /\ bucketLock' = bucketLock /\ replayLock' = replayLock
    BY <1>9 DEF VisitHead, Goto, Moves, About
  <2> QED BY <1>1, <2>1, StepPreserves DEF Steps, Holding
<1>10. CASE ReplayHead(v)
  <2>1. /\ pc[v] = "replay" /\ Moves(v, "visit", NULL) /\ UnlockHead(k)
        /\ UNCHANGED listVars /\ bucketLock' = bucketLock /\ replayLock' = replayLock
    BY <1>10 DEF ReplayHead, Goto, Moves, About
  <2> QED BY <1>1, <2>1, StepPreserves DEF Steps, Holding
<1>11. CASE EndTurn(v)
  BY <1>1, <1>2, <1>11 DEF EndTurn, Goto, lockVars
<1>12. CASE EndScan(v)
  BY <1>1, <1>2, <1>12 DEF EndScan, Goto
<1> QED BY <1>3, <1>4, <1>5, <1>6, <1>7, <1>8, <1>9, <1>10, <1>11, <1>12 DEF VisitHeads

\* A step that changes nothing.
LEMMA BucketStutterPreserves ==
  ASSUME BucketInv, UNCHANGED vars
  PROVE  BucketInv'
<1>1. UNCHANGED listVars /\ UNCHANGED <<bucketLock, headLock, replayLock, pc, target>>
  BY DEF vars, lockVars
<1>2. ListTypeOK' /\ Listed' /\ heads' = heads
  BY <1>1, ListStays
<1> QED BY ZenonT(60), <1>1, <1>2 DEF BucketInv, BucketTypeOK, BucketLockHeld, HeadLockHeld

\* An empty bucket satisfies the invariant.
LEMMA BucketInitEstablishes ==
  ASSUME Init
  PROVE  BucketInv
<1>1. Listed
  <2>1. << >> \in Seq(Keys) /\ Len(<< >>) = 0 /\ Range(<< >>) = {} /\ IsInjective(<< >>)
    BY DEF Range, IsInjective
  <2>2. Linked(<< >>)
    BY <2>1 DEF Init, Linked
  <2> QED BY ZenonT(60), <2>1, <2>2 DEF Listed
<1>2. BucketTypeOK
  BY DEF Init, BucketTypeOK, ListTypeOK, Steps
<1>3. BucketLockHeld
  BY BucketAssumption DEF Init, BucketLockHeld
<1>4. HeadLockHeld
  BY DEF Init, HeadLockHeld, Holding, Threads
<1> QED BY <1>1, <1>2, <1>3, <1>4 DEF BucketInv

-----------------------------------------------------------------------------
(***************************************************************************)
(* The theorems.                                                           *)
(***************************************************************************)
\* The inductive invariant: the pointers of the bucket make one list of
\* exactly the heads there are (logindex_hashmap.cpp), bucketLock is held by
\* the threads that search or change it, and every headLock by the thread
\* that works on that head.
THEOREM BucketInvariant == Spec => []BucketInv
<1>1. Init => BucketInv
  BY BucketInitEstablishes
<1>2. BucketInv /\ [Next]_vars => BucketInv'
  <2> SUFFICES ASSUME BucketInv, [Next]_vars PROVE BucketInv'
    OBVIOUS
  <2>1. ASSUME NEW k \in Keys, Begin(Parser, k) PROVE BucketInv'
    BY <2>1, BeginPreserves
  <2>2. CASE ParserProceeds
    BY <2>2, InsertSearchPreserves, ParserPreserves DEF ParserProceeds
  <2>3. ASSUME NEW r \in Readers, NEW k \in Keys, Begin(r, k) PROVE BucketInv'
    BY <2>3, BeginPreserves
  <2>4. ASSUME NEW r \in Readers, ReaderProceeds(r) PROVE BucketInv'
    BY <2>4, ReadSearchPreserves, ReaderPreserves DEF ReaderProceeds
  <2>5. ASSUME NEW v \in Vacuumers,
               \/ ReadNodeList(v) \/ SkipBucket(v) \/ TryReplayLock(v)
               \/ ScanLockBucket(v) \/ CollectBatch(v)
               \/ VisitHeads(v)
        PROVE  BucketInv'
    BY <2>5, VacuumerPreserves
  <2>6. CASE UNCHANGED vars
    BY <2>6, BucketStutterPreserves
  <2> QED BY <2>1, <2>2, <2>3, <2>4, <2>5, <2>6 DEF Next
<1> QED BY <1>1, <1>2, PTL DEF Spec

\* Every head stays in the list, once, whatever moves to the front: a search
\* never misses a page that has a head, so no page gets a second one.
THEOREM HeadsStayListed == Spec => []EveryHeadListed
<1>1. BucketInv => EveryHeadListed
  <2> SUFFICES ASSUME BucketInv PROVE EveryHeadListed
    OBVIOUS
  <2>1. PICK L \in Seq(Keys) : Linked(L)
    BY DEF BucketInv, Listed
  <2>2. From(nodeList) = L
    BY <2>1, SearchWalksList DEF BucketInv
  <2> QED BY <2>1, <2>2 DEF Linked, EveryHeadListed
<1> QED BY <1>1, BucketInvariant, PTL

\* A prevHead that is set names the head in front: the unlinking by prevHead
\* and nextHead in HashMapInsertKey and HashMapGetBlockReplayList never cuts
\* off other heads.
THEOREM PrevHeadsSound == Spec => []PrevHeadSound
<1>1. BucketInv => PrevHeadSound
  <2> SUFFICES ASSUME BucketInv, NEW k \in heads, prevHead[k] # NULL
               PROVE  nextHead[prevHead[k]] = k
    BY DEF PrevHeadSound
  <2>1. PICK L \in Seq(Keys) : Linked(L)
    BY DEF BucketInv, Listed
  <2>2. PICK i \in 1 .. Len(L) : k = L[i]
    BY <2>1 DEF Linked, Range
  <2>3. i # 1 /\ prevHead[k] = L[i - 1]
    BY ZenonT(60), <2>1, <2>2 DEF Linked
  <2>4. i - 1 \in 1 .. Len(L) /\ i - 1 # Len(L) /\ i - 1 + 1 = i
    BY <2>3
  <2>5. nextHead[L[i - 1]] = L[i]
    BY ZenonT(60), <2>1, <2>4 DEF Linked
  <2> QED BY <2>2, <2>3, <2>5
<1> QED BY <1>1, BucketInvariant, PTL

\* A reader that replays holds the headLock of its page until it publishes
\* the replay (HashMapUpdateReplayedLsn), and finds the head again, so the
\* lock is released.
THEOREM LockedHeadsListed == Spec => []LockedHeadListed
<1>1. BucketInv => LockedHeadListed
  <2> SUFFICES ASSUME BucketInv, NEW r \in Readers, pc[r] \in {"replay", "update"}
               PROVE  headLock[target[r]] = r /\ Found(target[r])
    BY DEF LockedHeadListed
  <2>1. r \in Threads /\ target[r] \in heads /\ headLock[target[r]] = r
    BY DEF BucketInv, HeadLockHeld, Holding, Threads
  <2> QED BY <2>1, FoundIsHead DEF BucketInv
<1> QED BY <1>1, BucketInvariant, PTL
=============================================================================
