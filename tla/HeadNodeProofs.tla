--------------------------- MODULE HeadNodeProofs ---------------------------
(***************************************************************************)
(* What the operations on a head node compute, for every head node whose   *)
(* LSNs are in ascending order, every target and every size of the nodes.  *)
(***************************************************************************)
EXTENDS HeadNode, WellFoundedInduction, TLAPS

\* A step that names no prover has 30 seconds of SMT.
USE SMTT(30)

-----------------------------------------------------------------------------
(***************************************************************************)
(* Ascending lists.                                                        *)
(***************************************************************************)
Ascending(s) == \A i, j \in DOMAIN s : i < j => s[i] < s[j]

\* Every entry of s is below every entry of t.
Below(s, t) == \A a \in Range(s), b \in Range(t) : a < b

\* A nonempty set of natural numbers has a least element.
LEMMA NatLeast ==
  ASSUME NEW T, T \subseteq Nat, T # {}
  PROVE  \E x \in T : \A y \in T : x <= y
<1>1. PICK x \in T : \A y \in T : ~ (<<y, x>> \in OpToRel(<, Nat))
  BY ZenonT(60), NatLessThanWellFounded, WFMin
<1>2. \A y \in T : ~ (y < x)
  BY ZenonT(60), <1>1 DEF OpToRel
<1> QED BY <1>2

\* A list of n entries, as a function.
LEMMA ListFacts ==
  ASSUME NEW S, NEW s \in Seq(S)
  PROVE  /\ Len(s) \in Nat /\ DOMAIN s = 1 .. Len(s) /\ s \in [1 .. Len(s) -> S]
         /\ Range(s) = {s[i] : i \in 1 .. Len(s)} /\ Range(s) \subseteq S
  BY DEF Range

\* c is the position of the last entry of s that is not above lsn.
IsLastUpTo(s, n, lsn, c) ==
  /\ c \in 0 .. n
  /\ \A i \in 1 .. c : s[i] <= lsn
  /\ \A i \in c + 1 .. n : s[i] > lsn

\* An ascending list has such a position.
LEMMA PositionExists ==
  ASSUME NEW n \in Nat, NEW s \in [1 .. n -> Nat], NEW lsn \in Nat,
         \A i, j \in 1 .. n : i < j => s[i] < s[j]
  PROVE  \E c \in 0 .. n : IsLastUpTo(s, n, lsn, c)
<1> DEFINE T == {i \in 1 .. n + 1 : i = n + 1 \/ s[i] > lsn}
<1>1. T \subseteq Nat /\ n + 1 \in T
  OBVIOUS
<1>2. PICK x \in T : \A y \in T : x <= y
  BY ZenonT(60), <1>1, NatLeast
<1>3. x - 1 \in 0 .. n /\ \A i \in 1 .. x - 1 : s[i] <= lsn
  BY <1>2
<1>4. \A i \in x .. n : s[i] > lsn
  BY SMTT(20), <1>2
<1>5. PICK c \in 0 .. n : x = c + 1 /\ c = x - 1
  BY <1>3
<1>6. \A i \in 1 .. c : s[i] <= lsn
  BY <1>3, <1>5
<1>7. \A i \in c + 1 .. n : s[i] > lsn
  BY <1>4, <1>5
<1> QED BY ZenonT(60), <1>6, <1>7 DEF IsLastUpTo

\* It is LastUpTo.
LEMMA LastUpToIs ==
  ASSUME NEW s \in Seq(Nat), NEW lsn \in Nat, NEW c, IsLastUpTo(s, Len(s), lsn, c)
  PROVE  LastUpTo(s, lsn) = c
<1> DEFINE T == {0} \cup {i \in DOMAIN s : s[i] <= lsn}
<1>1. c \in T /\ \A y \in T : c >= y
  BY DEF IsLastUpTo
<1>2. \A x \in T : (\A y \in T : x >= y) => x = c
  <2> SUFFICES ASSUME NEW x \in T, \A y \in T : x >= y PROVE x = c
    OBVIOUS
  <2>1. x >= c /\ c >= x /\ x \in Nat /\ c \in Nat
    BY <1>1
  <2> QED BY <2>1
<1> QED BY <1>1, <1>2 DEF LastUpTo, Max

\* The position that LastUpTo finds.
LEMMA LastUpToFacts ==
  ASSUME NEW s \in Seq(Nat), NEW lsn \in Nat, Ascending(s)
  PROVE  IsLastUpTo(s, Len(s), lsn, LastUpTo(s, lsn))
<1>1. Len(s) \in Nat /\ s \in [1 .. Len(s) -> Nat]
  OBVIOUS
<1>2. PICK c \in 0 .. Len(s) : IsLastUpTo(s, Len(s), lsn, c)
  BY ZenonT(60), <1>1, PositionExists DEF Ascending
<1> QED BY <1>2, LastUpToIs

\* A part of an ascending list.
LEMMA PartOfList ==
  ASSUME NEW s \in Seq(Nat), Ascending(s), NEW a \in 0 .. Len(s), NEW b \in a .. Len(s)
  PROVE  /\ SubSeq(s, a + 1, b) \in Seq(Nat)
         /\ Len(SubSeq(s, a + 1, b)) = b - a
         /\ \A i \in 1 .. b - a : SubSeq(s, a + 1, b)[i] = s[a + i]
         /\ Ascending(SubSeq(s, a + 1, b))
         /\ Range(SubSeq(s, a + 1, b)) = {s[i] : i \in a + 1 .. b}
<1>1. SubSeq(s, a + 1, b) = [i \in 1 .. b - a |-> s[a + i]]
  OBVIOUS
<1>2. SubSeq(s, a + 1, b) \in Seq(Nat) /\ Len(SubSeq(s, a + 1, b)) = b - a
  OBVIOUS
<1>3. PICK n \in Nat : n = Len(s) /\ DOMAIN s = 1 .. n /\ s \in [1 .. n -> Nat]
  BY ZenonT(60), ListFacts
<1>4. PICK m \in Nat : m = b - a /\ b = a + m /\ a + m <= n /\ a \in Nat
  BY <1>3
<1>5. PICK t : t = SubSeq(s, a + 1, b)
  BY ZenonT(60)
<1>6. t \in [1 .. m -> Nat] /\ DOMAIN t = 1 .. m /\ \A i \in 1 .. m : t[i] = s[a + i]
  <2>1. t = [i \in 1 .. m |-> s[a + i]]
    BY ZenonT(60), <1>1, <1>4, <1>5
  <2>2. \A i \in 1 .. m : s[a + i] \in Nat
    BY <1>3, <1>4
  <2> QED BY ZenonT(60), <2>1, <2>2
<1>7. \A i, j \in 1 .. n : i < j => s[i] < s[j]
  BY <1>3 DEF Ascending
<1>8. ASSUME NEW i \in 1 .. m, NEW j \in 1 .. m, i < j PROVE t[i] < t[j]
  <2>1. a + i \in 1 .. n /\ a + j \in 1 .. n /\ a + i < a + j
    BY <1>4, <1>8
  <2>2. t[i] = s[a + i] /\ t[j] = s[a + j]
    BY <1>6
  <2> QED BY <1>7, <2>1, <2>2
<1>9. ASSUME NEW i \in 1 .. m PROVE t[i] \in {s[k] : k \in a + 1 .. b}
  <2>1. a + i \in a + 1 .. b
    BY <1>4
  <2> QED BY ZenonT(60), <1>6, <2>1
<1>10. ASSUME NEW k \in a + 1 .. b PROVE s[k] \in {t[i] : i \in 1 .. m}
  <2>1. PICK i \in 1 .. m : k = a + i
    <3>1. k - a \in 1 .. m /\ k = a + (k - a)
      BY <1>4
    <3> QED BY <3>1
  <2> QED BY ZenonT(60), <1>6, <2>1
<1>11. Ascending(t)
  BY <1>6, <1>8 DEF Ascending
<1>12. Range(t) = {s[i] : i \in a + 1 .. b}
  BY ZenonT(60), <1>6, <1>9, <1>10 DEF Range
<1> QED BY ZenonT(60), <1>2, <1>4, <1>5, <1>6, <1>11, <1>12

\* A list followed by one whose entries are all larger.
LEMMA ConcatAscending ==
  ASSUME NEW s \in Seq(Nat), NEW t \in Seq(Nat), Ascending(s), Ascending(t), Below(s, t)
  PROVE  s \o t \in Seq(Nat) /\ Ascending(s \o t) /\ Range(s \o t) = Range(s) \cup Range(t)
<1>1. PICK m \in Nat : m = Len(s) /\ DOMAIN s = 1 .. m /\ s \in [1 .. m -> Nat]
  BY ZenonT(60), ListFacts
<1>2. PICK n \in Nat : n = Len(t) /\ DOMAIN t = 1 .. n /\ t \in [1 .. n -> Nat]
  BY ZenonT(60), ListFacts
<1>3. s \o t \in Seq(Nat) /\ Len(s \o t) = m + n
  BY <1>1, <1>2
<1>4. \A i \in 1 .. m + n : (s \o t)[i] = IF i <= m THEN s[i] ELSE t[i - m]
  BY <1>1, <1>2
<1>5. PICK u : u = s \o t
  BY ZenonT(60)
<1>6. DOMAIN u = 1 .. m + n /\ \A i \in 1 .. m + n : u[i] = IF i <= m THEN s[i] ELSE t[i - m]
  <2>1. DOMAIN (s \o t) = 1 .. m + n
    BY ZenonT(60), <1>3, ListFacts
  <2> QED BY ZenonT(60), <1>4, <1>5, <2>1
<1>7. ASSUME NEW i \in 1 .. m + n, NEW j \in 1 .. m + n, i < j PROVE u[i] < u[j]
  <2>1. CASE j <= m
    <3>1. i \in 1 .. m /\ j \in 1 .. m
      BY <1>7, <2>1
    <3> QED BY <1>1, <1>6, <1>7, <3>1 DEF Ascending
  <2>2. CASE i <= m /\ ~ (j <= m)
    <3>1. i \in 1 .. m /\ j - m \in 1 .. n
      BY <2>2
    <3> QED BY ZenonT(30), <1>1, <1>2, <1>6, <2>2, <3>1 DEF Below, Range
  <2>3. CASE ~ (i <= m)
    <3>1. i - m \in 1 .. n /\ j - m \in 1 .. n /\ i - m < j - m /\ ~ (j <= m)
      BY <1>7, <2>3
    <3> QED BY ZenonT(60), <1>2, <1>6, <2>3, <3>1 DEF Ascending
  <2> QED BY <2>1, <2>2, <2>3
<1>8. Ascending(u)
  BY <1>6, <1>7 DEF Ascending
<1>9. ASSUME NEW i \in 1 .. m + n PROVE u[i] \in Range(s) \cup Range(t)
  <2>1. CASE i <= m
    BY <1>1, <1>6, <2>1 DEF Range
  <2>2. CASE ~ (i <= m)
    <3>1. i - m \in 1 .. n
      BY <2>2
    <3> QED BY SMTT(20), <1>2, <1>6, <2>2, <3>1 DEF Range
  <2> QED BY <2>1, <2>2
<1>10. ASSUME NEW i \in 1 .. m PROVE s[i] \in Range(u)
  <2>1. i \in 1 .. m + n /\ i <= m
    OBVIOUS
  <2> QED BY ZenonT(60), <1>6, <2>1 DEF Range
<1>11. ASSUME NEW i \in 1 .. n PROVE t[i] \in Range(u)
  <2>1. PICK k \in 1 .. m + n : k = m + i /\ ~ (k <= m) /\ k - m = i
    <3>1. m + i \in 1 .. m + n /\ ~ (m + i <= m) /\ (m + i) - m = i
      OBVIOUS
    <3> QED BY <3>1
  <2>2. u[k] = t[i]
    BY <1>6, <2>1
  <2> QED BY ZenonT(60), <1>6, <2>2 DEF Range
<1>12. Range(u) = Range(s) \cup Range(t)
  <2>1. Range(u) \subseteq Range(s) \cup Range(t)
    BY ZenonT(60), <1>6, <1>9 DEF Range
  <2>2. Range(s) \subseteq Range(u)
    BY <1>1, <1>10 DEF Range
  <2>3. Range(t) \subseteq Range(u)
    BY <1>2, <1>11 DEF Range
  <2> QED BY <2>1, <2>2, <2>3
<1> QED BY <1>3, <1>5, <1>8, <1>12

\* Ascending lists with the same entries are the same list.
LEMMA AscendingUnique ==
  ASSUME NEW s \in Seq(Nat), NEW t \in Seq(Nat), Ascending(s), Ascending(t), Range(s) = Range(t)
  PROVE  s = t
<1>1. PICK m \in Nat : m = Len(s) /\ DOMAIN s = 1 .. m /\ s \in [1 .. m -> Nat]
  BY ZenonT(60), ListFacts
<1>2. PICK n \in Nat : n = Len(t) /\ DOMAIN t = 1 .. n /\ t \in [1 .. n -> Nat]
  BY ZenonT(60), ListFacts
<1>3. /\ \A i, j \in 1 .. m : i < j => s[i] < s[j]
      /\ \A i, j \in 1 .. n : i < j => t[i] < t[j]
  BY <1>1, <1>2 DEF Ascending
<1>4. /\ \A i \in 1 .. m : \E j \in 1 .. n : t[j] = s[i]
      /\ \A j \in 1 .. n : \E i \in 1 .. m : t[j] = s[i]
  BY ZenonT(60), <1>1, <1>2 DEF Range
<1> DEFINE T == {i \in 1 .. m : i <= n /\ s[i] # t[i]}
<1>5. T = {}
  <2> SUFFICES ASSUME T # {} PROVE FALSE
    OBVIOUS
  <2>1. PICK i \in T : \A k \in T : i <= k
    <3>1. T \subseteq Nat
      OBVIOUS
    <3> HIDE DEF T
    <3> QED BY ZenonT(60), <3>1, NatLeast
  <2>2. \A k \in 1 .. i - 1 : s[k] = t[k]
    BY <2>1
  <2>3. PICK j \in 1 .. n : t[j] = s[i]
    BY <1>4
  <2>4. PICK k \in 1 .. m : t[i] = s[k]
    BY <1>4
  <2>5. i \in 1 .. m /\ i \in 1 .. n /\ s[i] # t[i]
    OBVIOUS
  <2>6. j >= i
    <3> SUFFICES ASSUME j < i PROVE FALSE
      OBVIOUS
    <3>1. j \in 1 .. i - 1 /\ j \in 1 .. m
      BY <2>5
    <3>2. s[j] = s[i] /\ s[j] < s[i] /\ s[i] \in Nat
      BY SMTT(20), <1>1, <1>3, <2>2, <2>3, <2>5, <3>1
    <3> QED BY <3>2
  <2>7. k >= i
    <3> SUFFICES ASSUME k < i PROVE FALSE
      OBVIOUS
    <3>1. k \in 1 .. i - 1 /\ k \in 1 .. n
      BY <2>5
    <3>2. t[k] = t[i] /\ t[k] < t[i] /\ t[i] \in Nat
      BY SMTT(20), <1>2, <1>3, <2>2, <2>4, <2>5, <3>1
    <3> QED BY <3>2
  <2>8. t[i] <= t[j] /\ t[i] \in Nat
    <3>1. t[i] \in Nat /\ t[j] \in Nat
      BY ZenonT(60), <1>2, <2>5
    <3>2. i < j => t[i] < t[j]
      BY ZenonT(60), <1>3, <2>5
    <3> QED BY <2>6, <3>1, <3>2
  <2>9. s[i] <= s[k] /\ s[i] \in Nat
    <3>1. s[i] \in Nat /\ s[k] \in Nat
      BY ZenonT(60), <1>1, <2>5
    <3>2. i < k => s[i] < s[k]
      BY ZenonT(60), <1>3, <2>5
    <3> QED BY <2>7, <3>1, <3>2
  <2> QED BY SMTT(20), <2>3, <2>4, <2>5, <2>8, <2>9
<1>6. \A i \in 1 .. m : i <= n => s[i] = t[i]
  BY ZenonT(60), <1>5
<1> HIDE DEF T
<1>7. m <= n
  <2> SUFFICES ASSUME n < m PROVE FALSE
    OBVIOUS
  <2>1. n + 1 \in 1 .. m
    OBVIOUS
  <2>2. PICK j \in 1 .. n : t[j] = s[n + 1]
    BY <1>4, <2>1
  <2>3. j \in 1 .. m /\ j < n + 1 /\ j <= n
    OBVIOUS
  <2>4. s[j] = t[j]
    BY ZenonT(60), <1>6, <2>3
  <2>5. s[j] < s[n + 1] /\ s[j] \in Nat
    BY <1>1, <1>3, <2>1, <2>3
  <2> QED BY <2>2, <2>4, <2>5
<1>8. n <= m
  <2> SUFFICES ASSUME m < n PROVE FALSE
    OBVIOUS
  <2>1. m + 1 \in 1 .. n
    OBVIOUS
  <2>2. PICK i \in 1 .. m : t[m + 1] = s[i]
    BY <1>4, <2>1
  <2>3. i \in 1 .. n /\ i < m + 1 /\ i <= n
    OBVIOUS
  <2>4. s[i] = t[i]
    BY ZenonT(60), <1>6, <2>3
  <2>5. t[i] < t[m + 1] /\ t[i] \in Nat
    BY <1>2, <1>3, <2>1, <2>3
  <2> QED BY <2>2, <2>4, <2>5
<1>9. m = n
  BY <1>7, <1>8
<1>10. \A i \in 1 .. m : s[i] = t[i]
  BY <1>6, <1>9
<1>11. s = [i \in 1 .. m |-> s[i]] /\ t = [i \in 1 .. m |-> t[i]]
  BY ZenonT(60), <1>1, <1>2, <1>9
<1> QED BY <1>10, <1>11

\* The entries up to lsn and those beyond.
LEMMA UptoFacts ==
  ASSUME NEW s \in Seq(Nat), Ascending(s), NEW lsn \in Nat
  PROVE  /\ Upto(s, lsn) \in Seq(Nat) /\ Ascending(Upto(s, lsn))
         /\ Range(Upto(s, lsn)) = {e \in Range(s) : e <= lsn}
         /\ Beyond(s, lsn) \in Seq(Nat) /\ Ascending(Beyond(s, lsn))
         /\ Range(Beyond(s, lsn)) = {e \in Range(s) : e > lsn}
<1>1. PICK c : c = LastUpTo(s, lsn)
  OBVIOUS
<1>2. /\ c \in 0 .. Len(s) /\ \A i \in 1 .. c : s[i] <= lsn
      /\ \A i \in c + 1 .. Len(s) : s[i] > lsn
  BY ZenonT(60), <1>1, LastUpToFacts DEF IsLastUpTo
<1>3. /\ Upto(s, lsn) = SubSeq(s, 0 + 1, c) /\ Beyond(s, lsn) = SubSeq(s, c + 1, Len(s))
  BY <1>1 DEF Upto, Beyond
<1>4. /\ Upto(s, lsn) \in Seq(Nat) /\ Ascending(Upto(s, lsn))
      /\ Range(Upto(s, lsn)) = {s[i] : i \in 0 + 1 .. c}
  <2>1. 0 \in 0 .. Len(s) /\ c \in 0 .. Len(s)
    BY <1>2
  <2> QED BY <1>3, <2>1, PartOfList
<1>5. /\ Beyond(s, lsn) \in Seq(Nat) /\ Ascending(Beyond(s, lsn))
      /\ Range(Beyond(s, lsn)) = {s[i] : i \in c + 1 .. Len(s)}
  <2>1. c \in 0 .. Len(s) /\ Len(s) \in c .. Len(s)
    BY <1>2
  <2> QED BY ZenonT(30), <1>3, <2>1, PartOfList
<1>6. Range(s) = {s[i] : i \in 1 .. Len(s)} /\ \A i \in 1 .. Len(s) : s[i] \in Nat
  BY DEF Range
<1>7. {s[i] : i \in 0 + 1 .. c} = {e \in Range(s) : e <= lsn}
  BY <1>2, <1>6
<1>8. {s[i] : i \in c + 1 .. Len(s)} = {e \in Range(s) : e > lsn}
  BY <1>2, <1>6
<1> QED BY <1>4, <1>5, <1>7, <1>8

-----------------------------------------------------------------------------
(***************************************************************************)
(* Entries: the lists of the nodes, one after the other.                   *)
(***************************************************************************)
\* f is the function that Concatenated defines for the first n lists of q.
Concatenates(f, q, n) == f = [i \in 0 .. n |-> IF i = 0 THEN << >> ELSE f[i - 1] \o q[i]]

\* There is one, for every n.
LEMMA ConcatenatesExists ==
  ASSUME NEW n \in Nat, NEW q
  PROVE  \E f : Concatenates(f, q, n)
<1> DEFINE T == {k \in Nat : ~ \E f : Concatenates(f, q, k)}
<1> SUFFICES T = {}
  OBVIOUS
<1> SUFFICES ASSUME T # {} PROVE FALSE
  OBVIOUS
<1>1. PICK k \in T : \A l \in T : k <= l
  <2>1. T \subseteq Nat
    OBVIOUS
  <2> HIDE DEF T
  <2> QED BY ZenonT(60), <2>1, NatLeast
<1>2. k # 0
  <2>1. Concatenates([i \in 0 .. 0 |-> << >>], q, 0)
    BY DEF Concatenates
  <2> QED BY <2>1
<1>3. k - 1 \in Nat /\ k - 1 \notin T
  BY <1>1, <1>2
<1>4. PICK f : Concatenates(f, q, k - 1)
  BY <1>3
<1> DEFINE g == [i \in 0 .. k |-> IF i < k THEN f[i] ELSE f[k - 1] \o q[k]]
<1>5. \A i \in 0 .. k - 1 : f[i] = IF i = 0 THEN << >> ELSE f[i - 1] \o q[i]
  BY ZenonT(60), <1>4 DEF Concatenates
<1>6. \A i \in 0 .. k : g[i] = IF i = 0 THEN << >> ELSE g[i - 1] \o q[i]
  <2> SUFFICES ASSUME NEW i \in 0 .. k PROVE g[i] = IF i = 0 THEN << >> ELSE g[i - 1] \o q[i]
    OBVIOUS
  <2>1. CASE i < k
    <3>1. i \in 0 .. k - 1 /\ g[i] = f[i]
      BY <2>1
    <3>2. i # 0 => g[i - 1] = f[i - 1]
      BY <2>1
    <3> QED BY <1>5, <3>1, <3>2
  <2>2. CASE i = k
    <3>1. k - 1 \in 0 .. k /\ k - 1 < k /\ k \in 0 .. k /\ ~ (k < k)
      BY <1>2
    <3>2. g[k - 1] = f[k - 1] /\ g[k] = f[k - 1] \o q[k]
      BY ZenonT(60), <3>1
    <3> QED BY ZenonT(60), <1>2, <2>2, <3>2
  <2> QED BY <2>1, <2>2
<1>7. g = [i \in 0 .. k |-> g[i]]
  BY ZenonT(60)
<1> HIDE DEF g
<1>8. Concatenates(g, q, k)
  BY ZenonT(60), <1>6, <1>7 DEF Concatenates
<1> QED BY <1>8

\* The entries of the first i lists of q, and a list of them in order.
EntriesOf(q, i) == {e \in Nat : \E j \in 1 .. i : e \in Range(q[j])}

InOrder(l, q, i) == l \in Seq(Nat) /\ Ascending(l) /\ Range(l) = EntriesOf(q, i)

\* Lists of ascending entries, each below the next.
Blocks(q, n) ==
  /\ \A i \in 1 .. n : q[i] \in Seq(Nat) /\ Ascending(q[i])
  /\ \A i, j \in 1 .. n : i < j => Below(q[i], q[j])

\* The entries of the first i blocks, in order.
LEMMA ConcatenatesBlocks ==
  ASSUME NEW n \in Nat, NEW q, Blocks(q, n), NEW f, Concatenates(f, q, n)
  PROVE  \A i \in 0 .. n : InOrder(f[i], q, i)
<1>1. \A i \in 0 .. n : f[i] = IF i = 0 THEN << >> ELSE f[i - 1] \o q[i]
  BY DEF Concatenates
<1> DEFINE T == {i \in 0 .. n : ~ InOrder(f[i], q, i)}
<1> SUFFICES ASSUME T # {} PROVE FALSE
  OBVIOUS
<1>2. PICK i \in T : \A l \in T : i <= l
  <2>1. T \subseteq Nat
    OBVIOUS
  <2> HIDE DEF T
  <2> QED BY ZenonT(60), <2>1, NatLeast
<1>3. i \in 0 .. n /\ ~ InOrder(f[i], q, i)
  OBVIOUS
<1>4. CASE i = 0
  <2>1. f[i] = << >> /\ 1 .. i = {}
    BY <1>1, <1>3, <1>4
  <2>2. EntriesOf(q, i) = {} /\ Range(<< >>) = {}
    BY <2>1 DEF Range, EntriesOf
  <2>3. << >> \in Seq(Nat) /\ Ascending(<< >>)
    BY DEF Ascending
  <2> QED BY ZenonT(60), <1>3, <2>1, <2>2, <2>3 DEF InOrder
<1>5. CASE i # 0
  <2>1. PICK k \in 0 .. n : k = i - 1 /\ k < i /\ i = k + 1
    <3>1. i - 1 \in 0 .. n /\ i - 1 < i
      BY <1>3, <1>5
    <3> QED BY <3>1
  <2>2. InOrder(f[k], q, k)
    BY <1>2, <2>1
  <2>3. f[i] = f[k] \o q[i]
    BY ZenonT(60), <1>1, <1>3, <1>5, <2>1
  <2>4. i \in 1 .. n /\ q[i] \in Seq(Nat) /\ Ascending(q[i])
    BY <1>3, <1>5 DEF Blocks
  <2>5. Below(f[k], q[i])
    <3> SUFFICES ASSUME NEW a \in Range(f[k]), NEW b \in Range(q[i]) PROVE a < b
      BY DEF Below
    <3>1. PICK j \in 1 .. k : a \in Range(q[j])
      BY <2>2 DEF InOrder, EntriesOf
    <3>2. j \in 1 .. n /\ j < i
      BY <2>1
    <3> QED BY <2>4, <3>1, <3>2 DEF Blocks, Below
  <2>6. f[i] \in Seq(Nat) /\ Ascending(f[i]) /\ Range(f[i]) = Range(f[k]) \cup Range(q[i])
    BY <2>2, <2>3, <2>4, <2>5, ConcatAscending DEF InOrder
  <2>7. EntriesOf(q, i) = EntriesOf(q, k) \cup Range(q[i])
    <3>1. \A j \in 1 .. i : j \in 1 .. k \/ j = i
      BY <1>3, <2>1
    <3>2. (\A j \in 1 .. k : j \in 1 .. i) /\ i \in 1 .. i
      BY <2>1, <2>4
    <3>3. Range(q[i]) \subseteq Nat
      BY <2>4 DEF Range
    <3> QED BY <3>1, <3>2, <3>3 DEF EntriesOf
  <2>8. Range(f[i]) = EntriesOf(q, i)
    BY ZenonT(60), <2>2, <2>6, <2>7 DEF InOrder
  <2> QED BY ZenonT(60), <1>3, <2>6, <2>8 DEF InOrder
<1> QED BY <1>4, <1>5

\* Concatenated keeps the order and the entries.
LEMMA ConcatenatedFacts ==
  ASSUME NEW q \in Seq(Seq(Nat)), Blocks(q, Len(q))
  PROVE  InOrder(Concatenated(q), q, Len(q))
<1>1. PICK n \in Nat : n = Len(q)
  OBVIOUS
<1> DEFINE f == CHOOSE g : Concatenates(g, q, n)
<1>2. Concatenates(f, q, n)
  <2>1. \E g : Concatenates(g, q, n)
    BY ZenonT(60), ConcatenatesExists
  <2> QED BY <2>1
<1>3. Concatenated(q) = f[n]
  BY <1>1 DEF Concatenated, Concatenates
<1> HIDE DEF f
<1>4. \A i \in 0 .. n : InOrder(f[i], q, i)
  BY <1>1, <1>2, ConcatenatesBlocks
<1> QED BY <1>1, <1>3, <1>4

-----------------------------------------------------------------------------
(***************************************************************************)
(* The binary search.                                                      *)
(***************************************************************************)
\* What the search between two sides comes to, and the position between two
\* sides that is nearest to c.
SearchStep(f, targetLsn, entryList, smallSide, largeSide) ==
  LET mid == (largeSide + smallSide + 1) \div 2
  IN  IF largeSide = smallSide THEN largeSide
      ELSE IF entryList[mid] = targetLsn THEN mid
      ELSE IF targetLsn < entryList[mid]
             THEN f[<<smallSide, mid - 1>>]
             ELSE f[<<mid, largeSide>>]

Nearest(c, smallSide, largeSide) ==
  IF c < smallSide THEN smallSide ELSE IF c > largeSide THEN largeSide ELSE c

Sides(n) == {p \in (1 .. n) \X (1 .. n) : p[1] <= p[2]}

\* f is the function search of LsnListFindLowerBound.
Searches(f, targetLsn, entryList, n) ==
  f = [side \in Sides(n) |-> SearchStep(f, targetLsn, entryList, side[1], side[2])]

\* An ascending list of n entries, as a function.
Rising(list, n) ==
  list \in [1 .. n -> Nat] /\ \A i, j \in 1 .. n : i < j => list[i] < list[j]

\* f finds the position nearest to c between sides that are less than d apart.
Solved(f, c, n, d) ==
  \A s, l \in 1 .. n : s <= l /\ l - s < d => f[<<s, l>>] = Nearest(c, s, l)

\* One turn of the loop: if every search between nearer sides finds the
\* position nearest to c, so does this one.
LEMMA SearchTurn ==
  ASSUME NEW n \in Nat, NEW list, Rising(list, n), NEW target \in Nat,
         NEW c \in 0 .. n, IsLastUpTo(list, n, target, c),
         NEW f, NEW s \in 1 .. n, NEW l \in 1 .. n, s <= l, Solved(f, c, n, l - s)
  PROVE  SearchStep(f, target, list, s, l) = Nearest(c, s, l)
<1>0. /\ list \in [1 .. n -> Nat] /\ \A i, j \in 1 .. n : i < j => list[i] < list[j]
      /\ \A s2, l2 \in 1 .. n : s2 <= l2 /\ l2 - s2 < l - s => f[<<s2, l2>>] = Nearest(c, s2, l2)
  BY ZenonT(60) DEF Rising, Solved
<1>1. CASE l = s
  BY <1>1 DEF SearchStep, Nearest
<1>2. CASE l # s
  <2>1. PICK mid \in 1 .. n : mid = (l + s + 1) \div 2 /\ s < mid /\ mid <= l
    <3>1. (l + s + 1) \div 2 \in 1 .. n /\ s < (l + s + 1) \div 2 /\ (l + s + 1) \div 2 <= l
      BY <1>2
    <3> QED BY <3>1
  <2>2. SearchStep(f, target, list, s, l) =
          IF list[mid] = target THEN mid
          ELSE IF target < list[mid] THEN f[<<s, mid - 1>>] ELSE f[<<mid, l>>]
    BY <1>2, <2>1 DEF SearchStep
  <2>3. \A i \in 1 .. n : (i <= c => list[i] <= target) /\ (i > c => list[i] > target) /\ list[i] \in Nat
    BY <1>0 DEF IsLastUpTo
  <2>4. CASE list[mid] = target
    <3>1. mid <= c
      BY <2>3, <2>4
    <3>2. c <= mid
      <4> SUFFICES ASSUME mid < c PROVE FALSE
        OBVIOUS
      <4>1. c \in 1 .. n /\ list[mid] < list[c]
        BY <1>0
      <4> QED BY <2>3, <2>4, <4>1
    <3> QED BY <2>1, <2>2, <2>4, <3>1, <3>2 DEF Nearest
  <2>5. CASE list[mid] # target /\ target < list[mid]
    <3>1. c < mid
      BY <2>3, <2>5
    <3>2. mid - 1 \in 1 .. n /\ s <= mid - 1 /\ (mid - 1) - s < l - s
      BY <2>1
    <3>3. f[<<s, mid - 1>>] = Nearest(c, s, mid - 1)
      BY SMTT(20), <1>0, <3>2
    <3> QED BY <2>1, <2>2, <2>5, <3>1, <3>2, <3>3 DEF Nearest
  <2>6. CASE list[mid] # target /\ ~ (target < list[mid])
    <3>1. mid <= c
      BY <2>3, <2>6
    <3>2. mid <= l /\ l - mid < l - s
      BY <2>1
    <3>3. f[<<mid, l>>] = Nearest(c, mid, l)
      BY ZenonT(60), <1>0, <3>2
    <3> QED BY <2>1, <2>2, <2>6, <3>1, <3>2, <3>3 DEF Nearest
  <2> QED BY <2>4, <2>5, <2>6
<1> QED BY <1>1, <1>2

\* The function exists, and it finds the position nearest to c.
LEMMA SearchFinds ==
  ASSUME NEW n \in Nat, NEW list, Rising(list, n), NEW target \in Nat,
         NEW c \in 0 .. n, IsLastUpTo(list, n, target, c)
  PROVE  /\ \E f : Searches(f, target, list, n)
         /\ \A f : Searches(f, target, list, n) =>
              \A s, l \in 1 .. n : s <= l => f[<<s, l>>] = Nearest(c, s, l)
<1>0. \A s, l \in 1 .. n : s <= l => <<s, l>> \in Sides(n)
  BY DEF Sides
<1> DEFINE g == [side \in Sides(n) |-> Nearest(c, side[1], side[2])]
<1>1. Searches(g, target, list, n)
  <2>1. \A s, l \in 1 .. n : s <= l => g[<<s, l>>] = Nearest(c, s, l)
    BY <1>0
  <2>2. ASSUME NEW side \in Sides(n)
        PROVE  g[side] = SearchStep(g, target, list, side[1], side[2])
    <3>1. PICK s \in 1 .. n, l \in 1 .. n : side = <<s, l>> /\ s <= l
      BY DEF Sides
    <3> HIDE DEF g
    <3>2. Solved(g, c, n, l - s)
      BY <2>1 DEF Solved
    <3>3. SearchStep(g, target, list, s, l) = Nearest(c, s, l)
      BY <3>1, <3>2, SearchTurn
    <3>4. side[1] = s /\ side[2] = l /\ g[side] = Nearest(c, s, l)
      BY <2>1, <3>1
    <3> QED BY <3>3, <3>4
  <2>3. g = [side \in Sides(n) |-> g[side]]
    BY ZenonT(60)
  <2> HIDE DEF g
  <2> QED BY ZenonT(60), <2>2, <2>3 DEF Searches
<1>2. ASSUME NEW f, Searches(f, target, list, n)
      PROVE  \A s, l \in 1 .. n : s <= l => f[<<s, l>>] = Nearest(c, s, l)
  <2>1. \A s, l \in 1 .. n : s <= l => f[<<s, l>>] = SearchStep(f, target, list, s, l)
    BY <1>0, <1>2 DEF Searches
  <2> DEFINE T == {d \in Nat : \E s, l \in 1 .. n :
                     s <= l /\ l - s = d /\ f[<<s, l>>] # Nearest(c, s, l)}
  <2>2. T = {}
    <3> SUFFICES ASSUME T # {} PROVE FALSE
      OBVIOUS
    <3>1. PICK d \in T : \A e \in T : d <= e
      <4>1. T \subseteq Nat
        OBVIOUS
      <4> HIDE DEF T
      <4> QED BY ZenonT(60), <4>1, NatLeast
    <3>2. PICK s \in 1 .. n, l \in 1 .. n : s <= l /\ l - s = d /\ f[<<s, l>>] # Nearest(c, s, l)
      OBVIOUS
    <3>3. ASSUME NEW s2 \in 1 .. n, NEW l2 \in 1 .. n, s2 <= l2, l2 - s2 < l - s
          PROVE  f[<<s2, l2>>] = Nearest(c, s2, l2)
      <4>1. PICK e \in Nat : e = l2 - s2 /\ e < d
        BY <3>2, <3>3
      <4>2. e \notin T
        <5>1. \A x \in T : ~ (x < d)
          BY SMTT(20), <3>1
        <5> HIDE DEF T
        <5> QED BY <4>1, <5>1
      <4> QED BY ZenonT(60), <3>3, <4>1, <4>2
    <3>4. Solved(f, c, n, l - s)
      BY <3>3 DEF Solved
    <3>5. SearchStep(f, target, list, s, l) = Nearest(c, s, l)
      BY <3>2, <3>4, SearchTurn
    <3> QED BY <2>1, <3>2, <3>5
  <2>3. ASSUME NEW s \in 1 .. n, NEW l \in 1 .. n, s <= l PROVE f[<<s, l>>] = Nearest(c, s, l)
    <3>1. l - s \in Nat
      BY <2>3
    <3> QED BY ZenonT(60), <2>2, <2>3, <3>1
  <2> QED BY <2>3
<1> QED BY <1>1, <1>2

\* LsnListFindLowerBound finds the position of the last entry that is not
\* above the target.
THEOREM LowerBoundFound ==
  ASSUME NEW list \in Seq(Nat), Ascending(list), NEW target \in Nat
  PROVE  LsnListFindLowerBound(target, list) = LastUpTo(list, target)
<1>1. PICK n \in Nat : n = Len(list) /\ DOMAIN list = 1 .. n /\ list \in [1 .. n -> Nat]
  BY ZenonT(60), ListFacts
<1>2. PICK c \in 0 .. n : c = LastUpTo(list, target) /\ IsLastUpTo(list, n, target, c)
  BY ZenonT(60), <1>1, LastUpToFacts DEF IsLastUpTo
<1>3. Rising(list, n)
  BY <1>1 DEF Ascending, Rising
<1> DEFINE f == CHOOSE g : Searches(g, target, list, n)
           found == f[<<1, n>>]
<1>4. LsnListFindLowerBound(target, list) = IF n = 0 \/ list[found] > target THEN 0 ELSE found
  BY <1>1 DEF LsnListFindLowerBound, Searches, SearchStep, Sides
<1>5. Searches(f, target, list, n)
  <2>1. \E g : Searches(g, target, list, n)
    BY <1>2, <1>3, SearchFinds
  <2> QED BY <2>1
<1> HIDE DEF f
<1>6. n # 0 => found = Nearest(c, 1, n)
  <2>1. \A s, l \in 1 .. n : s <= l => f[<<s, l>>] = Nearest(c, s, l)
    BY <1>2, <1>3, <1>5, SearchFinds
  <2>2. n # 0 => 1 \in 1 .. n /\ n \in 1 .. n /\ 1 <= n
    OBVIOUS
  <2> QED BY ZenonT(60), <2>1, <2>2
<1>7. \A i \in 1 .. n : (i <= c => list[i] <= target) /\ (i > c => list[i] > target) /\ list[i] \in Nat
  BY <1>1, <1>2 DEF IsLastUpTo
<1>8. CASE c = 0
  BY <1>2, <1>4, <1>6, <1>7, <1>8 DEF Nearest
<1>9. CASE c # 0
  <2>1. c \in 1 .. n /\ n # 0 /\ found = c
    BY <1>6, <1>9 DEF Nearest
  <2>2. list[c] <= target /\ list[c] \in Nat
    BY <1>7, <2>1
  <2>3. ~ (n = 0 \/ list[found] > target)
    BY <2>1, <2>2
  <2>4. LsnListFindLowerBound(target, list) = found
    BY ZenonT(60), <1>4, <2>3
  <2> QED BY ZenonT(60), <1>2, <2>1, <2>4
<1> QED BY <1>8, <1>9

-----------------------------------------------------------------------------
(***************************************************************************)
(* The list of the records to replay.                                      *)
(***************************************************************************)
Between(S, low, high) == {e \in S : low < e /\ e <= high}

\* l lists the entries of S that are above low and not above high.
Lists(l, S, low, high) == l \in Seq(Nat) /\ Ascending(l) /\ Range(l) = Between(S, low, high)

\* The first and the last entry.
LEMMA EndsOfList ==
  ASSUME NEW list \in Seq(Nat), Ascending(list), list # << >>
  PROVE  /\ list[1] \in Range(list) /\ Last(list) \in Range(list)
         /\ \A e \in Range(list) : list[1] <= e /\ e <= Last(list)
<1>1. PICK n \in Nat : n = Len(list) /\ DOMAIN list = 1 .. n /\ list \in [1 .. n -> Nat]
  BY ZenonT(60), ListFacts
<1>2. n # 0 /\ 1 \in 1 .. n /\ n \in 1 .. n /\ Last(list) = list[n]
  BY <1>1 DEF Last
<1>3. ASSUME NEW i \in 1 .. n PROVE list[1] <= list[i] /\ list[i] <= list[n]
  <2>1. (i = 1 \/ 1 < i) /\ (i = n \/ i < n)
    OBVIOUS
  <2>2. list[i] \in Nat /\ list[1] \in Nat /\ list[n] \in Nat
    BY <1>1, <1>2
  <2>3. 1 < i => list[1] < list[i]
    BY <1>1, <1>2 DEF Ascending
  <2>4. i < n => list[i] < list[n]
    BY <1>1, <1>2 DEF Ascending
  <2> QED BY <2>1, <2>2, <2>3, <2>4
<1> QED BY <1>1, <1>2, <1>3 DEF Range

\* The copy loops: the entries behind position a that are not above target.
LEMMA CopyFacts ==
  ASSUME NEW list \in Seq(Nat), Ascending(list), NEW target \in Nat, NEW a \in 0 .. Len(list)
  PROVE  /\ CopyUpTo(list, a + 1, target) \in Seq(Nat)
         /\ Ascending(CopyUpTo(list, a + 1, target))
         /\ Range(CopyUpTo(list, a + 1, target)) = {list[i] : i \in a + 1 .. LastUpTo(list, target)}
<1>1. PICK n \in Nat : n = Len(list) /\ DOMAIN list = 1 .. n /\ list \in [1 .. n -> Nat]
  BY ZenonT(60), ListFacts
<1>2. PICK c \in 0 .. n : c = LastUpTo(list, target) /\ IsLastUpTo(list, n, target, c)
  BY ZenonT(60), <1>1, LastUpToFacts DEF IsLastUpTo
<1>3. \A i \in 1 .. n : (i <= c => list[i] <= target) /\ (i > c => list[i] > target) /\ list[i] \in Nat
  BY <1>1, <1>2 DEF IsLastUpTo
<1> DEFINE above == {i \in a + 1 .. n : list[i] > target}
           stop == IF above = {} THEN n ELSE Min(above) - 1
<1>4. CopyUpTo(list, a + 1, target) = SubSeq(list, a + 1, stop)
  BY <1>1 DEF CopyUpTo
<1>5. PICK b \in a .. n : b = (IF c < a THEN a ELSE c)
  BY <1>1
<1>6. above = b + 1 .. n
  BY <1>1, <1>3, <1>5
<1> HIDE DEF above
<1>7. stop = b
  <2>1. CASE b = n
    <3>1. above = {}
      BY <1>6, <2>1
    <3> QED BY <2>1, <3>1
  <2>2. CASE b # n
    <3>0. b \in Nat /\ b < n
      <4>1. a \in 0 .. n
        BY <1>1
      <4> HIDE <1>1
      <4>2. a \in Nat
        BY <4>1
      <4> QED BY <2>2, <4>2
    <3>1. b + 1 \in above /\ \A i \in above : b + 1 <= i
      BY <1>6, <3>0
    <3>2. \A x \in above : (\A i \in above : x <= i) => x = b + 1
      <4> SUFFICES ASSUME NEW x \in above, \A i \in above : x <= i PROVE x = b + 1
        OBVIOUS
      <4>1. x <= b + 1 /\ b + 1 <= x /\ x \in Int
        BY <1>1, <1>6, <3>1
      <4> QED BY <4>1
    <3>3. Min(above) = b + 1
      BY <3>1, <3>2 DEF Min
    <3> QED BY <3>1, <3>3
  <2> QED BY <2>1, <2>2
<1> HIDE DEF stop
<1>8. /\ SubSeq(list, a + 1, b) \in Seq(Nat) /\ Ascending(SubSeq(list, a + 1, b))
      /\ Range(SubSeq(list, a + 1, b)) = {list[i] : i \in a + 1 .. b}
  BY ZenonT(60), <1>1, PartOfList
<1>9. a + 1 .. b = a + 1 .. c
  BY <1>1, <1>5
<1> QED BY ZenonT(60), <1>2, <1>4, <1>7, <1>8, <1>9

\* All entries up to the target.
LEMMA CopyFromStart ==
  ASSUME NEW list \in Seq(Nat), Ascending(list), NEW target \in Nat
  PROVE  /\ CopyUpTo(list, 1, target) \in Seq(Nat) /\ Ascending(CopyUpTo(list, 1, target))
         /\ Range(CopyUpTo(list, 1, target)) = {e \in Range(list) : e <= target}
<1>1. 0 \in 0 .. Len(list) /\ 0 + 1 = 1
  OBVIOUS
<1>2. /\ CopyUpTo(list, 0 + 1, target) \in Seq(Nat) /\ Ascending(CopyUpTo(list, 0 + 1, target))
      /\ Range(CopyUpTo(list, 0 + 1, target)) = {list[i] : i \in 0 + 1 .. LastUpTo(list, target)}
  BY ZenonT(60), <1>1, CopyFacts
<1>3. Range(Upto(list, target)) = {list[i] : i \in 0 + 1 .. LastUpTo(list, target)}
  <2>1. LastUpTo(list, target) \in 0 .. Len(list)
    BY LastUpToFacts DEF IsLastUpTo
  <2>2. Upto(list, target) = SubSeq(list, 0 + 1, LastUpTo(list, target))
    BY DEF Upto
  <2> QED BY ZenonT(60), <1>1, <2>1, <2>2, PartOfList
<1>4. Range(Upto(list, target)) = {e \in Range(list) : e <= target}
  BY ZenonT(60), UptoFacts
<1> QED BY <1>1, <1>2, <1>3, <1>4

\* The entries after the position of replayedLsn, up to the target.
LEMMA CopyFromReplayed ==
  ASSUME NEW list \in Seq(Nat), Ascending(list), NEW target \in Nat, NEW replayed \in Nat,
         NEW start, start = LsnListFindLowerBound(replayed, list) + 1
  PROVE  Lists(CopyUpTo(list, start, target), Range(list), replayed, target)
<1>1. PICK n \in Nat : n = Len(list) /\ DOMAIN list = 1 .. n /\ list \in [1 .. n -> Nat]
  BY ZenonT(60), ListFacts
<1>2. PICK a \in 0 .. n : a = LastUpTo(list, replayed) /\ IsLastUpTo(list, n, replayed, a)
  BY ZenonT(60), <1>1, LastUpToFacts DEF IsLastUpTo
<1>3. PICK c \in 0 .. n : c = LastUpTo(list, target) /\ IsLastUpTo(list, n, target, c)
  BY ZenonT(60), <1>1, LastUpToFacts DEF IsLastUpTo
<1>4. start = a + 1
  BY <1>2, LowerBoundFound
<1>5. /\ CopyUpTo(list, start, target) \in Seq(Nat) /\ Ascending(CopyUpTo(list, start, target))
      /\ Range(CopyUpTo(list, start, target)) = {list[i] : i \in a + 1 .. c}
  BY ZenonT(60), <1>1, <1>3, <1>4, CopyFacts
<1>6. ASSUME NEW i \in 1 .. n
      PROVE  i \in a + 1 .. c <=> replayed < list[i] /\ list[i] <= target
  <2>1. list[i] \in Nat
    BY <1>1
  <2>2. (i <= a => list[i] <= replayed) /\ (i > a => list[i] > replayed)
    BY <1>2 DEF IsLastUpTo
  <2>3. (i <= c => list[i] <= target) /\ (i > c => list[i] > target)
    BY <1>3 DEF IsLastUpTo
  <2> QED BY <2>1, <2>2, <2>3
<1>7. {list[i] : i \in a + 1 .. c} = {e \in Range(list) : replayed < e /\ e <= target}
  <2>1. a + 1 .. c \subseteq 1 .. n
    OBVIOUS
  <2>2. Range(list) = {list[i] : i \in 1 .. n}
    BY <1>1 DEF Range
  <2> QED BY ZenonT(60), <1>6, <2>1, <2>2
<1> QED BY <1>5, <1>7 DEF Lists, Between

\* What the lists of a head node are: ascending, the head's below the element
\* nodes', none empty.
Chain(lsnEntry, eles) ==
  /\ lsnEntry \in Seq(Nat) /\ Ascending(lsnEntry) /\ lsnEntry # << >>
  /\ eles \in Seq(Seq(Nat)) /\ Blocks(eles, Len(eles))
  /\ \A i \in 1 .. Len(eles) : eles[i] # << >> /\ Below(lsnEntry, eles[i])

Listed(lsnEntry, eles) == Range(lsnEntry) \cup EntriesOf(eles, Len(eles))

\* The parts of ReplayList, as definitions of their own.
Copied(eles, replayedLsn, targetLsn) ==
  {i \in DOMAIN eles : /\ \A j \in 1 .. i : eles[j][1] <= targetLsn
                       /\ Last(eles[i]) >= replayedLsn}

Part(lsnEntry, eles, replayedLsn, targetLsn, i) ==
  IF i \notin Copied(eles, replayedLsn, targetLsn) THEN << >>
  ELSE CopyUpTo(eles[i],
         IF ~ (replayedLsn <= Last(lsnEntry)) /\
              \A j \in Copied(eles, replayedLsn, targetLsn) : i <= j
           THEN LsnListFindLowerBound(replayedLsn, eles[i]) + 1 ELSE 1, targetLsn)

HeadPart(lsnEntry, replayedLsn, targetLsn) ==
  IF replayedLsn <= Last(lsnEntry)
    THEN CopyUpTo(lsnEntry, LsnListFindLowerBound(replayedLsn, lsnEntry) + 1, targetLsn)
    ELSE << >>

\* The empty list, for an empty interval.
LEMMA EmptyLists ==
  ASSUME NEW S, NEW low, NEW high, Between(S, low, high) = {}
  PROVE  Lists(<< >>, S, low, high)
<1>1. << >> \in Seq(Nat) /\ DOMAIN << >> = {}
  OBVIOUS
<1>2. Range(<< >>) = {}
  BY <1>1 DEF Range
<1> QED BY <1>1, <1>2 DEF Lists, Ascending

\* What is copied from one element node: what it holds of the interval.
LEMMA PartLists ==
  ASSUME NEW lsnEntry, NEW eles, Chain(lsnEntry, eles), NEW r \in Nat, NEW t \in Nat,
         NEW i \in 1 .. Len(eles)
  PROVE  Lists(Part(lsnEntry, eles, r, t, i), Range(eles[i]), r, t)
<1>1. PICK n \in Nat : n = Len(eles) /\ DOMAIN eles = 1 .. n
  BY DEF Chain
<1>2. i \in 1 .. n /\ i \in Nat /\ \A j \in 1 .. i : j \in 1 .. n
  BY <1>1
<1>3. \A j \in 1 .. n : eles[j] \in Seq(Nat) /\ Ascending(eles[j]) /\ eles[j] # << >>
  BY <1>1 DEF Chain, Blocks
<1>4. \A j \in 1 .. n : /\ eles[j][1] \in Range(eles[j]) /\ Last(eles[j]) \in Range(eles[j])
                        /\ \A e \in Range(eles[j]) : eles[j][1] <= e /\ e <= Last(eles[j])
  BY <1>3, EndsOfList
<1>5. \A j \in 1 .. n : Range(eles[j]) \subseteq Nat
  BY <1>3, ListFacts
<1>6. \A j, k \in 1 .. n : j < k => \A a \in Range(eles[j]), b \in Range(eles[k]) : a < b
  BY ZenonT(60), <1>1 DEF Chain, Blocks, Below
<1> DEFINE C == Copied(eles, r, t)
           E == Range(eles[i])
<1>7. ASSUME \A e \in E : e > r
      PROVE  Lists(CopyUpTo(eles[i], 1, t), E, r, t)
  <2>1. /\ CopyUpTo(eles[i], 1, t) \in Seq(Nat) /\ Ascending(CopyUpTo(eles[i], 1, t))
        /\ Range(CopyUpTo(eles[i], 1, t)) = {e \in E : e <= t}
    BY ZenonT(60), <1>2, <1>3, CopyFromStart
  <2>2. {e \in E : e <= t} = Between(E, r, t)
    BY <1>2, <1>5, <1>7 DEF Between
  <2> QED BY ZenonT(60), <2>1, <2>2 DEF Lists
<1>8. Lists(CopyUpTo(eles[i], LsnListFindLowerBound(r, eles[i]) + 1, t), E, r, t)
  <2>1. eles[i] \in Seq(Nat) /\ Ascending(eles[i])
    BY <1>2, <1>3
  <2> QED BY <2>1, CopyFromReplayed
<1>9. CASE i \notin C
  <2>1. PICK j \in 1 .. i : ~ (eles[j][1] <= t) \/ ~ (Last(eles[i]) >= r)
    <3>1. ~ (\A j \in 1 .. i : eles[j][1] <= t) \/ ~ (Last(eles[i]) >= r)
      BY <1>1, <1>2, <1>9 DEF Copied
    <3>2. i \in 1 .. i
      BY <1>2
    <3> QED BY <3>1, <3>2
  <2>2. ASSUME NEW e \in E PROVE ~ (r < e /\ e <= t)
    <3>1. e \in Nat /\ Last(eles[i]) \in Nat /\ eles[j][1] \in Nat /\ e <= Last(eles[i])
      BY <1>2, <1>4, <1>5
    <3>2. eles[j][1] <= e
      <4>1. CASE j = i
        BY <1>2, <1>4, <4>1
      <4>2. CASE j < i
        BY <1>2, <1>4, <1>6, <3>1, <4>2
      <4> QED BY <1>2, <4>1, <4>2
    <3> QED BY <2>1, <3>1, <3>2
  <2>3. Between(E, r, t) = {}
    BY <2>2 DEF Between
  <2>4. Part(lsnEntry, eles, r, t, i) = << >>
    BY <1>9 DEF Part
  <2> QED BY <2>3, <2>4, EmptyLists
<1>10. CASE i \in C /\ r <= Last(lsnEntry)
  <2>1. Part(lsnEntry, eles, r, t, i) = CopyUpTo(eles[i], 1, t)
    BY <1>10 DEF Part
  <2>2. Last(lsnEntry) \in Range(lsnEntry) /\ Last(lsnEntry) \in Nat
    <3>1. lsnEntry \in Seq(Nat) /\ Ascending(lsnEntry) /\ lsnEntry # << >>
      BY DEF Chain
    <3>2. Last(lsnEntry) \in Range(lsnEntry) /\ Range(lsnEntry) \subseteq Nat
      BY <3>1, EndsOfList, ListFacts
    <3> QED BY <3>2
  <2>3. \A e \in E : Last(lsnEntry) < e
    BY <2>2 DEF Chain, Below
  <2>4. ASSUME NEW e \in E PROVE e > r
    <3>1. e \in Nat /\ Last(lsnEntry) < e
      BY <1>2, <1>5, <2>3
    <3> HIDE DEF C, E
    <3> QED BY <1>10, <2>2, <3>1
  <2> QED BY <1>7, <2>1, <2>4
<1>11. CASE i \in C /\ ~ (r <= Last(lsnEntry)) /\ \A j \in C : i <= j
  <2>1. Part(lsnEntry, eles, r, t, i) = CopyUpTo(eles[i], LsnListFindLowerBound(r, eles[i]) + 1, t)
    BY <1>11 DEF Part
  <2> QED BY <1>8, <2>1
<1>12. CASE i \in C /\ ~ (r <= Last(lsnEntry)) /\ ~ (\A j \in C : i <= j)
  <2>1. Part(lsnEntry, eles, r, t, i) = CopyUpTo(eles[i], 1, t)
    BY <1>12 DEF Part
  <2>2. PICK j \in C : ~ (i <= j)
    BY <1>12
  <2>3. j \in 1 .. n /\ Last(eles[j]) >= r
    BY <1>1 DEF Copied
  <2>4. j < i /\ Last(eles[j]) \in Range(eles[j]) /\ Last(eles[j]) \in Nat
    <3>1. j < i
      BY <1>2, <2>2, <2>3
    <3>2. Last(eles[j]) \in Range(eles[j]) /\ Range(eles[j]) \subseteq Nat
      BY <1>4, <1>5, <2>3
    <3> QED BY <3>1, <3>2
  <2>5. \A e \in E : Last(eles[j]) < e
    BY <1>2, <1>6, <2>3, <2>4
  <2>6. ASSUME NEW e \in E PROVE e > r
    <3>1. e \in Nat /\ Last(eles[j]) < e
      BY <1>2, <1>5, <2>5
    <3> HIDE DEF C, E
    <3> QED BY <2>3, <2>4, <3>1
  <2> QED BY <1>7, <2>1, <2>6
<1> QED BY <1>9, <1>10, <1>11, <1>12

\* The parts one after the other hold what all the nodes hold of the interval.
LEMMA PartsTogether ==
  ASSUME NEW lsnEntry, NEW eles, Chain(lsnEntry, eles), NEW low \in Nat, NEW high \in Nat,
         NEW first, Lists(first, Range(lsnEntry), low, high),
         NEW parts, DOMAIN parts = 1 .. Len(eles), parts = [i \in 1 .. Len(eles) |-> parts[i]],
         \A i \in 1 .. Len(eles) : Lists(parts[i], Range(eles[i]), low, high)
  PROVE  Lists(first \o Concatenated(parts), Listed(lsnEntry, eles), low, high)
<1>1. PICK n \in Nat : n = Len(eles)
  <2>1. eles \in Seq(Seq(Nat))
    BY ZenonT(60) DEF Chain
  <2> QED BY <2>1, ListFacts
<1>2. \A i \in 1 .. n : /\ parts[i] \in Seq(Nat) /\ Ascending(parts[i])
                        /\ Range(parts[i]) = Between(Range(eles[i]), low, high)
  BY <1>1 DEF Lists
<1>3. parts \in Seq(Seq(Nat)) /\ Len(parts) = n
  <2>1. parts \in [1 .. n -> Seq(Nat)]
    BY <1>1, <1>2
  <2> QED BY <2>1
<1>4. \A i, j \in 1 .. n : i < j => Below(parts[i], parts[j])
  <2> SUFFICES ASSUME NEW i \in 1 .. n, NEW j \in 1 .. n, i < j PROVE Below(parts[i], parts[j])
    BY SMTT(20)
  <2>1. Range(parts[i]) \subseteq Range(eles[i]) /\ Range(parts[j]) \subseteq Range(eles[j])
    BY ZenonT(60), <1>2 DEF Between
  <2>2. Below(eles[i], eles[j])
    BY <1>1 DEF Chain, Blocks
  <2> QED BY ZenonT(60), <2>1, <2>2 DEF Below
<1>5. Blocks(parts, n)
  BY ZenonT(60), <1>2, <1>4 DEF Blocks
<1>6. InOrder(Concatenated(parts), parts, n)
  BY ZenonT(60), <1>3, <1>5, ConcatenatedFacts
<1> DEFINE all == Concatenated(parts)
<1>7. all \in Seq(Nat) /\ Ascending(all) /\ Range(all) = EntriesOf(parts, n)
  BY <1>6 DEF InOrder
<1>8. EntriesOf(parts, n) = Between(EntriesOf(eles, n), low, high)
  BY ZenonT(60), <1>2 DEF EntriesOf, Between
<1> HIDE DEF all
<1>9. first \in Seq(Nat) /\ Ascending(first) /\ Range(first) = Between(Range(lsnEntry), low, high)
  BY DEF Lists
<1>10. Below(first, all)
  <2> SUFFICES ASSUME NEW a \in Range(first), NEW b \in Range(all) PROVE a < b
    BY DEF Below
  <2>1. a \in Range(lsnEntry)
    BY <1>9 DEF Between
  <2>2. PICK i \in 1 .. n : b \in Range(eles[i])
    BY ZenonT(60), <1>7, <1>8 DEF Between, EntriesOf
  <2> QED BY <1>1, <2>1, <2>2 DEF Chain, Below
<1>11. /\ first \o all \in Seq(Nat) /\ Ascending(first \o all)
       /\ Range(first \o all) = Range(first) \cup Range(all)
  BY ZenonT(60), <1>7, <1>9, <1>10, ConcatAscending
<1>12. Range(first \o all) = Between(Listed(lsnEntry, eles), low, high)
  BY <1>1, <1>7, <1>8, <1>9, <1>11 DEF Between, Listed
<1> QED BY <1>11, <1>12 DEF Lists, all

\* HashMapGetBlockReplayList's two copy loops list exactly what the page has
\* of the records after replayedLsn, up to targetLsn, in ascending order.
THEOREM ReplayListExact ==
  ASSUME NEW lsnEntry, NEW eles, Chain(lsnEntry, eles), NEW r \in Nat, NEW t \in Nat
  PROVE  Lists(ReplayList(lsnEntry, eles, r, t), Listed(lsnEntry, eles), r, t)
<1> DEFINE parts == [i \in 1 .. Len(eles) |-> Part(lsnEntry, eles, r, t, i)]
<1>1. DOMAIN eles = 1 .. Len(eles)
  BY DEF Chain
<1>2. ReplayList(lsnEntry, eles, r, t) = HeadPart(lsnEntry, r, t) \o Concatenated(parts)
  BY <1>1 DEF ReplayList, HeadPart, Part, Copied
<1>3. lsnEntry \in Seq(Nat) /\ Ascending(lsnEntry) /\ lsnEntry # << >>
  BY DEF Chain
<1>4. Lists(HeadPart(lsnEntry, r, t), Range(lsnEntry), r, t)
  <2>1. CASE r <= Last(lsnEntry)
    <3>1. HeadPart(lsnEntry, r, t) = CopyUpTo(lsnEntry, LsnListFindLowerBound(r, lsnEntry) + 1, t)
      BY <2>1 DEF HeadPart
    <3> QED BY <1>3, <3>1, CopyFromReplayed
  <2>2. CASE ~ (r <= Last(lsnEntry))
    <3>1. HeadPart(lsnEntry, r, t) = << >>
      BY <2>2 DEF HeadPart
    <3>2. Range(lsnEntry) \subseteq Nat
      BY <1>3, ListFacts
    <3>3. Last(lsnEntry) \in Range(lsnEntry) /\ \A e \in Range(lsnEntry) : e <= Last(lsnEntry)
      BY <1>3, EndsOfList
    <3>4. ASSUME NEW e \in Range(lsnEntry) PROVE ~ (r < e)
      <4>1. e \in Nat /\ Last(lsnEntry) \in Nat /\ e <= Last(lsnEntry)
        BY <3>2, <3>3
      <4> QED BY <2>2, <4>1
    <3>5. Between(Range(lsnEntry), r, t) = {}
      BY <3>4 DEF Between
    <3> QED BY <3>1, <3>5, EmptyLists
  <2> QED BY <2>1, <2>2
<1>5. \A i \in 1 .. Len(eles) : Lists(parts[i], Range(eles[i]), r, t)
  BY PartLists
<1>6. DOMAIN parts = 1 .. Len(eles) /\ parts = [i \in 1 .. Len(eles) |-> parts[i]]
  OBVIOUS
<1> HIDE DEF parts
<1>7. Lists(HeadPart(lsnEntry, r, t) \o Concatenated(parts), Listed(lsnEntry, eles), r, t)
  BY <1>4, <1>5, <1>6, PartsTogether
<1> QED BY <1>2, <1>7

-----------------------------------------------------------------------------
(***************************************************************************)
(* The head node as a whole.                                               *)
(***************************************************************************)
\* All entries of a chain, in ascending order.
LEMMA EntriesInOrder ==
  ASSUME NEW h, Chain(h.lsnEntry, h.nextEle)
  PROVE  /\ Entries(h) \in Seq(Nat) /\ Ascending(Entries(h))
         /\ Range(Entries(h)) = Listed(h.lsnEntry, h.nextEle)
<1> DEFINE s == h.lsnEntry
           q == h.nextEle
           all == Concatenated(q)
<1>1. s \in Seq(Nat) /\ Ascending(s) /\ q \in Seq(Seq(Nat)) /\ Blocks(q, Len(q))
  BY DEF Chain
<1>2. all \in Seq(Nat) /\ Ascending(all) /\ Range(all) = EntriesOf(q, Len(q))
  BY <1>1, ConcatenatedFacts DEF InOrder
<1>3. Below(s, all)
  <2>1. \A i \in 1 .. Len(q) : Below(s, q[i])
    BY DEF Chain
  <2> QED BY <1>2, <2>1 DEF Below, EntriesOf
<1>4. Entries(h) = s \o all
  BY DEF Entries
<1> HIDE DEF s, q, all
<1>5. /\ s \o all \in Seq(Nat) /\ Ascending(s \o all) /\ Range(s \o all) = Range(s) \cup Range(all)
  BY <1>1, <1>2, <1>3, ConcatAscending
<1> QED BY <1>2, <1>4, <1>5 DEF Listed, s, q

\* The first entries of an ascending list are those up to the last of them.
LEMMA FirstEntries ==
  ASSUME NEW s \in Seq(Nat), Ascending(s), NEW k \in 1 .. Len(s)
  PROVE  /\ SubSeq(s, 1, k) \in Seq(Nat) /\ Ascending(SubSeq(s, 1, k)) /\ SubSeq(s, 1, k) # << >>
         /\ Last(SubSeq(s, 1, k)) = s[k] /\ s[k] \in Range(s)
         /\ Range(SubSeq(s, 1, k)) = {e \in Range(s) : e <= s[k]}
<1>1. PICK n \in Nat : n = Len(s) /\ DOMAIN s = 1 .. n /\ s \in [1 .. n -> Nat]
  BY ZenonT(60), ListFacts
<1>2. k \in 1 .. n /\ 0 \in 0 .. n /\ k \in 0 .. n /\ 0 + 1 = 1 /\ k - 0 = k /\ 0 + k = k /\ k \in 1 .. k
  BY <1>1
<1>3. /\ SubSeq(s, 0 + 1, k) \in Seq(Nat) /\ Len(SubSeq(s, 0 + 1, k)) = k - 0
      /\ \A i \in 1 .. k - 0 : SubSeq(s, 0 + 1, k)[i] = s[0 + i]
      /\ Ascending(SubSeq(s, 0 + 1, k))
      /\ Range(SubSeq(s, 0 + 1, k)) = {s[i] : i \in 0 + 1 .. k}
  BY ZenonT(60), <1>1, <1>2, PartOfList
<1>4. \A i \in 1 .. n : i \in 1 .. k <=> s[i] <= s[k]
  <2> SUFFICES ASSUME NEW i \in 1 .. n PROVE i \in 1 .. k <=> s[i] <= s[k]
    OBVIOUS
  <2>1. s[i] \in Nat /\ s[k] \in Nat /\ (i < k => s[i] < s[k]) /\ (k < i => s[k] < s[i])
    BY <1>1, <1>2 DEF Ascending
  <2> QED BY <1>2, <2>1
<1>5. Range(s) = {s[i] : i \in 1 .. n}
  BY <1>1 DEF Range
<1>6. {s[i] : i \in 1 .. k} = {e \in Range(s) : e <= s[k]}
  <2>1. 1 .. k \subseteq 1 .. n
    BY <1>2
  <2> QED BY ZenonT(60), <1>4, <1>5, <2>1
<1>7. SubSeq(s, 1, k) # << >> /\ Last(SubSeq(s, 1, k)) = s[k]
  <2> DEFINE p == SubSeq(s, 1, k)
  <2>1. Len(p) = k /\ p[k] = s[k] /\ p \in Seq(Nat)
    BY <1>2, <1>3
  <2> HIDE DEF p
  <2>2. p # << >> /\ Last(p) = s[k]
    BY <1>2, <2>1 DEF Last
  <2> QED BY <2>2 DEF p
<1> QED BY SMTT(20), <1>2, <1>3, <1>5, <1>6, <1>7

\* The smaller of two numbers.
LEMMA MinOfTwo ==
  ASSUME NEW a \in Nat, NEW b \in Nat
  PROVE  Min({a, b}) = IF a <= b THEN a ELSE b
<1> DEFINE m == IF a <= b THEN a ELSE b
<1>1. m \in {a, b} /\ \A y \in {a, b} : m <= y
  OBVIOUS
<1>2. \A x \in {a, b} : (\A y \in {a, b} : x <= y) => x = m
  OBVIOUS
<1> HIDE DEF m
<1>3. Min({a, b}) = m
  BY <1>1, <1>2 DEF Min
<1> QED BY <1>3 DEF m

\* BackgroundReplayHeadNode collects the records after replayedLsn up to the
\* last one it collects, in ascending order, and at least one if there is one.
THEOREM CollectedExact ==
  ASSUME NEW h, Chain(h.lsnEntry, h.nextEle), h.replayedLsn \in Nat
  PROVE  /\ Collected(h) = << >> => \A e \in Listed(h.lsnEntry, h.nextEle) : e <= h.replayedLsn
         /\ Collected(h) # << >> =>
              /\ Last(Collected(h)) \in Listed(h.lsnEntry, h.nextEle)
              /\ Last(Collected(h)) > h.replayedLsn
              /\ Lists(Collected(h), Listed(h.lsnEntry, h.nextEle), h.replayedLsn, Last(Collected(h)))
<1> DEFINE L == Listed(h.lsnEntry, h.nextEle)
           r == h.replayedLsn
           s == Entries(h)
           all == Beyond(s, r)
           k == Min({Len(all), MAX_REPLAY_VERSION_SIZE})
           C == Collected(h)
<1>1. s \in Seq(Nat) /\ Ascending(s) /\ Range(s) = L
  BY EntriesInOrder
<1>2. L \subseteq Nat
  BY <1>1, ListFacts
<1>3. all \in Seq(Nat) /\ Ascending(all) /\ Range(all) = {e \in L : e > r}
  <2> HIDE DEF s, L, r
  <2>1. r \in Nat
    BY DEF r
  <2> QED BY ZenonT(60), <1>1, <2>1, UptoFacts
<1>4. C = SubSeq(all, 1, k)
  BY DEF Collected
<1> HIDE DEF all, s, C, L
<1>5. PICK n \in Nat : n = Len(all) /\ DOMAIN all = 1 .. n
  BY <1>3
<1>6. k = IF n <= MAX_REPLAY_VERSION_SIZE THEN n ELSE MAX_REPLAY_VERSION_SIZE
  BY <1>5, MinOfTwo, SizesAssumption
<1>7. CASE n = 0
  <2>1. k = 0
    BY <1>6, <1>7, SizesAssumption
  <2>2. C = << >>
    BY <1>3, <1>4, <2>1
  <2>3. Range(all) = {}
    BY <1>5, <1>7 DEF Range
  <2>4. \A e \in L : ~ (e > r)
    BY <1>3, <2>3
  <2>5. \A e \in L : e <= r
    BY <1>2, <2>4
  <2> QED BY <2>2, <2>5 DEF C, L
<1>8. CASE n > 0
  <2>1. k \in 1 .. n
    BY <1>6, <1>8, SizesAssumption
  <2> HIDE DEF k
  <2>2. /\ C \in Seq(Nat) /\ Ascending(C) /\ C # << >> /\ Last(C) = all[k] /\ all[k] \in Range(all)
        /\ Range(C) = {e \in Range(all) : e <= all[k]}
    BY ZenonT(60), <1>3, <1>4, <1>5, <2>1, FirstEntries
  <2>3. Last(C) \in L /\ Last(C) > r
    BY <1>3, <2>2
  <2>4. Range(C) = Between(L, r, Last(C))
    BY <1>2, <1>3, <2>2 DEF Between
  <2>5. Lists(C, L, r, Last(C))
    BY <2>2, <2>4 DEF Lists
  <2> QED BY <2>2, <2>3, <2>5 DEF C, L
<1> QED BY <1>7, <1>8

\* The nodes from position m on are a chain again.
LEMMA ChainFrom ==
  ASSUME NEW s, NEW q, Chain(s, q), NEW m \in 1 .. Len(q)
  PROVE  /\ Chain(s, SubSeq(q, m, Len(q)))
         /\ Len(SubSeq(q, m, Len(q))) = Len(q) - m + 1
         /\ \A i \in 1 .. Len(q) - m + 1 : SubSeq(q, m, Len(q))[i] = q[m - 1 + i]
         /\ Listed(s, SubSeq(q, m, Len(q))) =
              Range(s) \cup {e \in Nat : \E j \in m .. Len(q) : e \in Range(q[j])}
<1>1. q \in Seq(Seq(Nat))
  BY ZenonT(60) DEF Chain
<1>2. PICK n \in Nat : n = Len(q) /\ DOMAIN q = 1 .. n /\ q \in [1 .. n -> Seq(Nat)]
  BY <1>1
<1> DEFINE p == SubSeq(q, m, Len(q))
           d == n - m + 1
<1>3. d \in Nat /\ \A i \in 1 .. d : m - 1 + i \in 1 .. n
  BY <1>2
<1>4. p \in Seq(Seq(Nat)) /\ Len(p) = d /\ \A i \in 1 .. d : p[i] = q[m - 1 + i]
  <2>1. p = [i \in 1 .. d |-> q[m - 1 + i]]
    BY <1>1, <1>2
  <2>2. [i \in 1 .. d |-> q[m - 1 + i]] \in [1 .. d -> Seq(Nat)]
    BY <1>2, <1>3
  <2> HIDE DEF p, d
  <2>3. d \in Nat /\ p \in [1 .. d -> Seq(Nat)]
    BY ZenonT(60), <1>3, <2>1, <2>2
  <2>4. \A i \in 1 .. d : p[i] = q[m - 1 + i]
    BY <2>1
  <2>5. p \in Seq(Seq(Nat)) /\ Len(p) = d
    BY <2>3
  <2> QED BY <2>4, <2>5
<1> HIDE DEF p
<1>5. ASSUME NEW i \in 1 .. d
      PROVE  p[i] \in Seq(Nat) /\ Ascending(p[i]) /\ p[i] # << >> /\ Below(s, p[i])
  <2>1. p[i] = q[m - 1 + i] /\ m - 1 + i \in 1 .. n
    BY <1>3, <1>4
  <2>2. \A j \in 1 .. n : q[j] \in Seq(Nat) /\ Ascending(q[j]) /\ q[j] # << >> /\ Below(s, q[j])
    BY <1>2 DEF Chain, Blocks
  <2> QED BY <2>1, <2>2
<1>6. ASSUME NEW i \in 1 .. d, NEW j \in 1 .. d, i < j
      PROVE  Below(p[i], p[j])
  <2>1. p[i] = q[m - 1 + i] /\ m - 1 + i \in 1 .. n /\ p[j] = q[m - 1 + j] /\ m - 1 + j \in 1 .. n
    BY <1>3, <1>4
  <2>2. m - 1 + i < m - 1 + j
    BY <1>2, <1>6
  <2>3. \A a, b \in 1 .. n : a < b => Below(q[a], q[b])
    BY <1>2 DEF Chain, Blocks
  <2> QED BY <2>1, <2>2, <2>3
<1>7. Blocks(p, Len(p))
  BY <1>4, <1>5, <1>6 DEF Blocks
<1>8. Chain(s, p)
  <2>1. s \in Seq(Nat) /\ Ascending(s) /\ s # << >>
    BY DEF Chain
  <2> QED BY ZenonT(60), <1>4, <1>5, <1>7, <2>1 DEF Chain
<1>9. EntriesOf(p, d) = {e \in Nat : \E j \in m .. n : e \in Range(q[j])}
  <2>1. ASSUME NEW e \in Nat, NEW i \in 1 .. d, e \in Range(p[i])
        PROVE  \E j \in m .. n : e \in Range(q[j])
    <3>1. m - 1 + i \in m .. n
      BY <1>2
    <3> QED BY <1>4, <2>1, <3>1
  <2>2. ASSUME NEW e \in Nat, NEW j \in m .. n, e \in Range(q[j])
        PROVE  \E i \in 1 .. d : e \in Range(p[i])
    <3>1. j - m + 1 \in 1 .. d /\ m - 1 + (j - m + 1) = j
      BY <1>2
    <3>2. p[j - m + 1] = q[j]
      BY <1>4, <3>1
    <3> QED BY <2>2, <3>1, <3>2
  <2> QED BY <2>1, <2>2 DEF EntriesOf
<1>10. Listed(s, p) = Range(s) \cup {e \in Nat : \E j \in m .. n : e \in Range(q[j])}
  BY <1>4, <1>9 DEF Listed
<1> QED BY <1>2, <1>4, <1>8, <1>10 DEF p

\* The element nodes that VacuumHashNode frees held nothing beyond what has
\* been collected, and the others stay as they are.
THEOREM FreedNodesCollected ==
  ASSUME NEW h, Chain(h.lsnEntry, h.nextEle), h.replayedLsn \in Nat, h.nextEle # << >>,
         NEW upTo \in Nat,
         upTo = IF Collected(h) = << >> THEN h.replayedLsn ELSE Last(Collected(h))
  PROVE  /\ \E m \in 1 .. Len(h.nextEle) : EleNodesKept(h) = SubSeq(h.nextEle, m, Len(h.nextEle))
         /\ Chain(h.lsnEntry, EleNodesKept(h))
         /\ Listed(h.lsnEntry, EleNodesKept(h)) \subseteq Listed(h.lsnEntry, h.nextEle)
         /\ \A e \in Listed(h.lsnEntry, h.nextEle) :
              e > upTo => e \in Listed(h.lsnEntry, EleNodesKept(h))
<1> DEFINE s == h.lsnEntry
           q == h.nextEle
           kept == {i \in DOMAIN q : i = Len(q) \/ Last(q[i]) > upTo}
<1>1. EleNodesKept(h) = SubSeq(q, Min(kept), Len(q))
  BY DEF EleNodesKept
<1>2. q \in Seq(Seq(Nat)) /\ q # << >> /\ Chain(s, q)
  BY ZenonT(60) DEF Chain
<1> HIDE DEF s, q
<1>3. PICK n \in Nat : n = Len(q) /\ DOMAIN q = 1 .. n /\ n # 0
  BY <1>2
<1>4. kept \subseteq Nat /\ n \in kept /\ kept # {}
  BY <1>3
<1>5. PICK m \in kept : \A i \in kept : m <= i
  <2> HIDE DEF kept
  <2>1. \E m \in kept : \A i \in kept : m <= i
    BY ZenonT(60), <1>4, NatLeast
  <2> QED BY <2>1
<1>6. Min(kept) = m
  <2>1. \A x \in kept : (\A i \in kept : x <= i) => x = m
    <3> SUFFICES ASSUME NEW x \in kept, \A i \in kept : x <= i PROVE x = m
      OBVIOUS
    <3>1. x <= m /\ m <= x /\ x \in Nat /\ m \in Nat
      BY <1>4, <1>5
    <3> QED BY <3>1
  <2> HIDE DEF kept
  <2> QED BY <1>5, <2>1 DEF Min
<1>7. m \in 1 .. n /\ m \in 1 .. Len(q)
  BY <1>3
<1>8. ASSUME NEW i \in 1 .. n, i < m PROVE ~ (Last(q[i]) > upTo)
  <2>1. i \notin kept
    BY <1>4, <1>5, <1>8
  <2> QED BY <1>3, <2>1
<1> DEFINE p == SubSeq(q, m, Len(q))
<1>9. p = EleNodesKept(h)
  BY ZenonT(60), <1>1, <1>6
<1>10. Chain(s, p) /\ Listed(s, p) = Range(s) \cup {e \in Nat : \E j \in m .. n : e \in Range(q[j])}
  <2> HIDE DEF kept
  <2>1. m \in 1 .. Len(q)
    BY <1>7
  <2>2. /\ Chain(s, p)
        /\ Listed(s, p) = Range(s) \cup {e \in Nat : \E j \in m .. Len(q) : e \in Range(q[j])}
    <3>1. Chain(s, q)
      BY <1>2
    <3> HIDE <1>1, <1>6
    <3> QED BY SMT, <2>1, <3>1, ChainFrom
  <2> QED BY <1>3, <2>2
<1> HIDE DEF p, kept
<1>11. Listed(s, q) = Range(s) \cup {e \in Nat : \E j \in 1 .. n : e \in Range(q[j])}
  BY <1>3 DEF Listed, EntriesOf
<1>12. Listed(s, p) \subseteq Listed(s, q)
  <2>1. m .. n \subseteq 1 .. n
    BY <1>7
  <2> QED BY <1>10, <1>11, <2>1
<1>13. ASSUME NEW e \in Listed(s, q), e > upTo PROVE e \in Listed(s, p)
  <2>1. CASE e \in Range(s)
    BY <1>10, <2>1
  <2>2. CASE e \in Nat /\ \E j \in 1 .. n : e \in Range(q[j])
    <3>1. PICK j \in 1 .. n : e \in Range(q[j])
      BY <2>2
    <3>2. q[j] \in Seq(Nat) /\ Ascending(q[j]) /\ q[j] # << >>
      BY <1>2, <1>3 DEF Chain, Blocks
    <3>3. Last(q[j]) \in Nat /\ e <= Last(q[j])
      <4>1. Last(q[j]) \in Range(q[j]) /\ e <= Last(q[j])
        BY <3>1, <3>2, EndsOfList
      <4>2. Range(q[j]) \subseteq Nat
        BY <3>2, ListFacts
      <4> QED BY <4>1, <4>2
    <3>4. Last(q[j]) > upTo
      BY <1>13, <2>2, <3>3
    <3>5. ~ (j < m)
      BY <1>8, <3>4
    <3>6. j \in m .. n
      BY <1>7, <3>5
    <3> QED BY <1>10, <2>2, <3>1, <3>6
  <2> QED BY <1>11, <2>1, <2>2
<1>14. \E x \in 1 .. Len(q) : EleNodesKept(h) = SubSeq(q, x, Len(q))
  BY <1>7, <1>9 DEF p
<1> QED BY <1>9, <1>10, <1>12, <1>13, <1>14 DEF s, q

\* A list with one more entry, above the others.
LEMMA AppendAscending ==
  ASSUME NEW s \in Seq(Nat), Ascending(s), NEW lsn \in Nat, \A e \in Range(s) : e < lsn
  PROVE  /\ Append(s, lsn) \in Seq(Nat) /\ Ascending(Append(s, lsn)) /\ Append(s, lsn) # << >>
         /\ Range(Append(s, lsn)) = Range(s) \cup {lsn} /\ Len(Append(s, lsn)) = Len(s) + 1
         /\ Last(Append(s, lsn)) = lsn
<1>1. PICK n \in Nat : n = Len(s) /\ DOMAIN s = 1 .. n /\ s \in [1 .. n -> Nat]
  BY ZenonT(60), ListFacts
<1> DEFINE t == Append(s, lsn)
<1>2. /\ t \in Seq(Nat) /\ Len(t) = n + 1 /\ DOMAIN t = 1 .. n + 1 /\ t # << >>
      /\ t[n + 1] = lsn /\ \A i \in 1 .. n : t[i] = s[i]
  BY <1>1
<1> HIDE DEF t
<1>3. \A i \in 1 .. n : s[i] \in Nat /\ s[i] < lsn
  BY <1>1 DEF Range
<1>4. Ascending(t)
  <2> SUFFICES ASSUME NEW i \in 1 .. n + 1, NEW j \in 1 .. n + 1, i < j PROVE t[i] < t[j]
    BY <1>2 DEF Ascending
  <2>1. i \in 1 .. n
    OBVIOUS
  <2>2. CASE j = n + 1
    BY ZenonT(60), <1>2, <1>3, <2>1, <2>2
  <2>3. CASE j \in 1 .. n
    <3>1. s[i] < s[j]
      BY <1>1, <2>1, <2>3 DEF Ascending
    <3> QED BY <1>2, <2>1, <2>3, <3>1
  <2> QED BY <2>2, <2>3
<1>5. Range(t) = Range(s) \cup {lsn}
  <2>1. Range(t) = {t[i] : i \in 1 .. n + 1} /\ Range(s) = {s[i] : i \in 1 .. n}
    BY <1>1, <1>2 DEF Range
  <2>2. ASSUME NEW i \in 1 .. n + 1 PROVE t[i] \in Range(s) \cup {lsn}
    <3>1. CASE i = n + 1
      BY <1>2, <3>1
    <3>2. CASE i \in 1 .. n
      BY ZenonT(60), <1>2, <2>1, <3>2
    <3> QED BY <3>1, <3>2
  <2>3. ASSUME NEW i \in 1 .. n PROVE s[i] \in Range(t)
    <3>1. i \in 1 .. n + 1 /\ t[i] = s[i]
      BY <1>2
    <3> QED BY <2>1, <3>1
  <2>4. lsn \in Range(t)
    <3>1. n + 1 \in 1 .. n + 1
      OBVIOUS
    <3> QED BY <1>2, <2>1, <3>1
  <2> QED BY SMTT(20), <2>1, <2>2, <2>3, <2>4
<1>6. Last(t) = lsn
  BY <1>2 DEF Last
<1> QED BY <1>1, <1>2, <1>4, <1>5, <1>6 DEF t

\* The list of one entry.
LEMMA OneEntry ==
  ASSUME NEW lsn \in Nat
  PROVE  /\ <<lsn>> \in Seq(Nat) /\ Ascending(<<lsn>>) /\ <<lsn>> # << >> /\ Len(<<lsn>>) = 1
         /\ Range(<<lsn>>) = {lsn}
<1>1. <<lsn>> \in Seq(Nat) /\ Len(<<lsn>>) = 1 /\ DOMAIN <<lsn>> = 1 .. 1 /\ <<lsn>>[1] = lsn
  OBVIOUS
<1>2. 1 .. 1 = {1}
  OBVIOUS
<1>3. Range(<<lsn>>) = {lsn}
  BY <1>1, <1>2 DEF Range
<1>4. Ascending(<<lsn>>)
  BY <1>1 DEF Ascending
<1> QED BY <1>1, <1>3, <1>4

\* The sizes of the nodes: none is empty or overfull, and the head's array is
\* full before there is an element node.
Sizes(s, q) ==
  /\ Len(s) \in 1 .. HASH_HEAD_NUM
  /\ \A i \in 1 .. Len(q) : Len(q[i]) \in 1 .. HASH_ELEM_NUM
  /\ q # << >> => Len(s) = HASH_HEAD_NUM

\* The first entry of a page goes into a new head.
LEMMA NewHeadFacts ==
  ASSUME NEW lsn \in Nat
  PROVE  /\ Chain(NewHead(lsn).lsnEntry, NewHead(lsn).nextEle)
         /\ Sizes(NewHead(lsn).lsnEntry, NewHead(lsn).nextEle)
         /\ Listed(NewHead(lsn).lsnEntry, NewHead(lsn).nextEle) = {lsn}
<1>1. NewHead(lsn).lsnEntry = <<lsn>> /\ NewHead(lsn).nextEle = << >>
  BY DEF NewHead
<1>2. /\ <<lsn>> \in Seq(Nat) /\ Ascending(<<lsn>>) /\ <<lsn>> # << >> /\ Len(<<lsn>>) = 1
      /\ Range(<<lsn>>) = {lsn}
  BY OneEntry
<1>3. << >> \in Seq(Seq(Nat)) /\ Len(<< >>) = 0 /\ 1 .. 0 = {}
  OBVIOUS
<1>4. Blocks(<< >>, 0) /\ EntriesOf(<< >>, 0) = {}
  BY <1>3 DEF Blocks, EntriesOf
<1>5. Chain(<<lsn>>, << >>) /\ Listed(<<lsn>>, << >>) = {lsn}
  BY <1>2, <1>3, <1>4 DEF Chain, Listed
<1>6. Sizes(<<lsn>>, << >>)
  <2>1. 1 \in 1 .. HASH_HEAD_NUM
    BY SizesAssumption
  <2> QED BY <1>2, <1>3, <2>1 DEF Sizes
<1> QED BY <1>1, <1>5, <1>6

\* One more entry in the head's array, while there is no element node.
LEMMA InsertIntoHead ==
  ASSUME NEW s, Chain(s, << >>), NEW lsn \in Nat, \A e \in Listed(s, << >>) : e < lsn
  PROVE  /\ Chain(Append(s, lsn), << >>) /\ Len(Append(s, lsn)) = Len(s) + 1
         /\ Listed(Append(s, lsn), << >>) = Listed(s, << >>) \cup {lsn}
<1>1. s \in Seq(Nat) /\ Ascending(s) /\ << >> \in Seq(Seq(Nat)) /\ Blocks(<< >>, Len(<< >>))
  BY ZenonT(60) DEF Chain
<1>2. \A e \in Range(s) : e < lsn
  BY DEF Listed
<1> DEFINE t == Append(s, lsn)
<1>3. /\ t \in Seq(Nat) /\ Ascending(t) /\ t # << >>
      /\ Range(t) = Range(s) \cup {lsn} /\ Len(t) = Len(s) + 1
  BY <1>1, <1>2, AppendAscending
<1> HIDE DEF t
<1>4. \A i \in 1 .. Len(<< >>) : FALSE
  OBVIOUS
<1>5. Chain(t, << >>)
  BY <1>1, <1>3, <1>4 DEF Chain
<1>6. Listed(t, << >>) = Listed(s, << >>) \cup {lsn}
  BY <1>3 DEF Listed
<1> QED BY <1>3, <1>5, <1>6 DEF t

\* A node that may follow the first m nodes of a chain, and a chain in which
\* it does.
Follows(ele, s, q, m) ==
  /\ ele \in Seq(Nat) /\ Ascending(ele) /\ ele # << >> /\ Below(s, ele)
  /\ \A i \in 1 .. m : Below(q[i], ele)

Extension(p, q, m, ele) ==
  /\ p \in Seq(Seq(Nat)) /\ Len(p) = m + 1
  /\ p[m + 1] = ele /\ \A i \in 1 .. m : p[i] = q[i]

\* What a longer chain is made of: the first nodes of the old one, and a last
\* one whose entries are above theirs.
LEMMA ChainExtended ==
  ASSUME NEW s, NEW q, Chain(s, q), NEW m \in Nat, m <= Len(q),
         NEW ele, Follows(ele, s, q, m), NEW p, Extension(p, q, m, ele)
  PROVE  Chain(s, p) /\ Listed(s, p) = Range(s) \cup EntriesOf(q, m) \cup Range(ele)
<1> USE DEF Follows, Extension
<1>1. PICK n \in Nat : n = Len(q) /\ m <= n
  <2>1. q \in Seq(Seq(Nat))
    BY ZenonT(60) DEF Chain
  <2> QED BY <2>1, ListFacts
<1>2. \A i \in 1 .. m : i \in 1 .. n
  BY <1>1
<1>3. \A i \in 1 .. m : q[i] \in Seq(Nat) /\ Ascending(q[i]) /\ q[i] # << >> /\ Below(s, q[i])
  BY SMTT(20), <1>1, <1>2 DEF Chain, Blocks
<1>4. \A i, j \in 1 .. m : i < j => Below(q[i], q[j])
  BY <1>1, <1>2 DEF Chain, Blocks
<1>5. ASSUME NEW i \in 1 .. m + 1
      PROVE  p[i] \in Seq(Nat) /\ Ascending(p[i]) /\ p[i] # << >> /\ Below(s, p[i])
  <2>1. CASE i = m + 1
    BY <2>1
  <2>2. CASE i \in 1 .. m
    BY ZenonT(60), <1>3, <2>2
  <2> QED BY <2>1, <2>2
<1>6. ASSUME NEW i \in 1 .. m + 1, NEW j \in 1 .. m + 1, i < j
      PROVE  Below(p[i], p[j])
  <2>1. i \in 1 .. m /\ p[i] = q[i]
    BY SMTT(20), <1>6
  <2>2. CASE j = m + 1
    BY <2>1, <2>2
  <2>3. CASE j \in 1 .. m
    BY <1>4, <1>6, <2>1, <2>3
  <2> QED BY <2>2, <2>3
<1>7. Blocks(p, Len(p))
  BY <1>5, <1>6 DEF Blocks
<1>8. Chain(s, p)
  <2>1. s \in Seq(Nat) /\ Ascending(s) /\ s # << >>
    BY ZenonT(60) DEF Chain
  <2> QED BY <1>5, <1>7, <2>1 DEF Chain
<1>9. EntriesOf(p, m + 1) = EntriesOf(q, m) \cup Range(ele)
  <2>1. Range(ele) \subseteq Nat
    BY ListFacts
  <2>2. ASSUME NEW e \in Nat, NEW i \in 1 .. m + 1, e \in Range(p[i])
        PROVE  e \in EntriesOf(q, m) \cup Range(ele)
    <3>1. CASE i = m + 1
      BY <2>2, <3>1
    <3>2. CASE i \in 1 .. m
      BY <2>2, <3>2 DEF EntriesOf
    <3> QED BY <3>1, <3>2
  <2>3. ASSUME NEW e \in Nat, NEW i \in 1 .. m, e \in Range(q[i])
        PROVE  e \in EntriesOf(p, m + 1)
    <3>1. i \in 1 .. m + 1 /\ p[i] = q[i]
      OBVIOUS
    <3> QED BY <2>3, <3>1 DEF EntriesOf
  <2>4. ASSUME NEW e \in Range(ele) PROVE e \in EntriesOf(p, m + 1)
    <3>1. m + 1 \in 1 .. m + 1 /\ e \in Nat
      BY <2>1
    <3> QED BY <3>1 DEF EntriesOf
  <2>5. EntriesOf(p, m + 1) \subseteq EntriesOf(q, m) \cup Range(ele)
    BY <2>2 DEF EntriesOf
  <2>6. EntriesOf(q, m) \subseteq EntriesOf(p, m + 1)
    BY <2>3 DEF EntriesOf
  <2>7. Range(ele) \subseteq EntriesOf(p, m + 1)
    BY <2>4
  <2> QED BY ZenonT(60), <2>5, <2>6, <2>7
<1>10. Listed(s, p) = Range(s) \cup EntriesOf(q, m) \cup Range(ele)
  BY ZenonT(60), <1>9 DEF Listed
<1> QED BY <1>8, <1>10

\* The head node is in order: the lists are a chain of nodes of the right
\* sizes, and maxLsn is not below any entry.
NodeInOrder(h) ==
  /\ h \in HeadNodes
  /\ Chain(h.lsnEntry, h.nextEle)
  /\ Sizes(h.lsnEntry, h.nextEle)
  /\ \A e \in Listed(h.lsnEntry, h.nextEle) : e <= h.maxLsn

\* The entries of a chain are numbers.
LEMMA ListedNat ==
  ASSUME NEW s, NEW q, Chain(s, q)
  PROVE  Listed(s, q) \subseteq Nat
<1>1. s \in Seq(Nat)
  BY ZenonT(60) DEF Chain
<1>2. Range(s) \subseteq Nat
  BY <1>1, ListFacts
<1> QED BY <1>2 DEF Listed, EntriesOf

AllBelow(s, q, lsn) == \A e \in Listed(s, q) : e < lsn

\* The last of n element nodes has room.
Room(q, n) == n = Len(q) /\ n > 0 /\ Len(q[n]) < HASH_ELEM_NUM

\* p is the chain q with one more entry.
Grown(s, q, lsn, p) == Chain(s, p) /\ Sizes(s, p) /\ Listed(s, p) = Listed(s, q) \cup {lsn}

\* HashMapInsertKey into the last element node, which has room.
LEMMA InsertIntoLast ==
  ASSUME NEW s, NEW q, Chain(s, q), Sizes(s, q), NEW lsn \in Nat, AllBelow(s, q, lsn),
         NEW n \in Nat, Room(q, n)
  PROVE  Grown(s, q, lsn, [q EXCEPT ![n] = Append(q[n], lsn)])
<1> USE DEF AllBelow, Room
<1>1. q \in Seq(Seq(Nat)) /\ DOMAIN q = 1 .. n /\ q \in [1 .. n -> Seq(Nat)]
  <2>1. q \in Seq(Seq(Nat))
    BY ZenonT(60) DEF Chain
  <2> QED BY <2>1
<1>2. \A i \in 1 .. n : q[i] \in Seq(Nat) /\ Ascending(q[i]) /\ q[i] # << >> /\ Below(s, q[i])
  BY DEF Chain, Blocks
<1>3. \A i, j \in 1 .. n : i < j => Below(q[i], q[j])
  BY DEF Chain, Blocks
<1>4. \A i \in 1 .. n : \A e \in Range(q[i]) : e \in Nat /\ e < lsn
  <2>1. \A i \in 1 .. n : Range(q[i]) \subseteq Nat
    BY SMTT(20), <1>2, ListFacts
  <2> QED BY <2>1 DEF Listed, EntriesOf
<1>5. \A e \in Range(s) : e < lsn
  BY DEF Listed
<1>6. n \in 1 .. n
  OBVIOUS
<1> DEFINE ele == Append(q[n], lsn)
           p == [q EXCEPT ![n] = Append(q[n], lsn)]
<1>7. /\ ele \in Seq(Nat) /\ Ascending(ele) /\ ele # << >>
      /\ Range(ele) = Range(q[n]) \cup {lsn} /\ Len(ele) = Len(q[n]) + 1
  <2>1. q[n] \in Seq(Nat) /\ Ascending(q[n]) /\ \A e \in Range(q[n]) : e < lsn
    BY <1>2, <1>4, <1>6
  <2> QED BY <2>1, AppendAscending
<1> HIDE DEF ele
<1>8. p \in [1 .. n -> Seq(Nat)] /\ p[n] = ele /\ \A i \in 1 .. n - 1 : p[i] = q[i]
  BY <1>1, <1>6, <1>7 DEF ele
<1> HIDE DEF p
<1>9. p \in Seq(Seq(Nat)) /\ Len(p) = n
  BY <1>8
<1> DEFINE m == n - 1
<1>10. m \in Nat /\ m <= Len(q) /\ m + 1 = n /\ (\A i \in 1 .. m : i \in 1 .. n /\ i < n)
  OBVIOUS
<1> HIDE DEF m
<1>11. Below(s, ele)
  <2>1. Below(s, q[n])
    BY <1>2, <1>6
  <2> QED BY <1>5, <1>7, <2>1 DEF Below
<1>12. \A i \in 1 .. m : Below(q[i], ele)
  <2> SUFFICES ASSUME NEW i \in 1 .. m PROVE Below(q[i], ele)
    OBVIOUS
  <2>1. Below(q[i], q[n]) /\ \A e \in Range(q[i]) : e < lsn
    BY <1>3, <1>4, <1>6, <1>10
  <2> QED BY <1>7, <2>1 DEF Below
<1>13. Len(p) = m + 1 /\ p[m + 1] = ele /\ \A i \in 1 .. m : p[i] = q[i]
  BY <1>8, <1>9, <1>10 DEF m
<1>14. Chain(s, p) /\ Listed(s, p) = Range(s) \cup EntriesOf(q, m) \cup Range(ele)
  <2>1. Follows(ele, s, q, m)
    BY ZenonT(60), <1>7, <1>11, <1>12 DEF Follows
  <2>2. Extension(p, q, m, ele)
    BY ZenonT(60), <1>9, <1>13 DEF Extension
  <2>3. m \in Nat /\ m <= Len(q) /\ Chain(s, q)
    BY <1>10
  <2> QED BY SMT, <2>1, <2>2, <2>3, ChainExtended
<1>15. EntriesOf(q, n) = EntriesOf(q, m) \cup Range(q[n])
  <2>1. 1 .. n = 1 .. m \cup {n}
    BY <1>10 DEF m
  <2>2. Range(q[n]) \subseteq Nat
    BY <1>4, <1>6
  <2> QED BY <2>1, <2>2 DEF EntriesOf
<1>16. Listed(s, p) = Listed(s, q) \cup {lsn}
  <2>1. Listed(s, q) = Range(s) \cup EntriesOf(q, n)
    BY DEF Listed
  <2> QED BY ZenonT(60), <1>7, <1>14, <1>15, <2>1
<1>17. Sizes(s, p)
  <2>1. Len(s) \in 1 .. HASH_HEAD_NUM /\ Len(s) = HASH_HEAD_NUM
        /\ \A i \in 1 .. n : Len(q[i]) \in 1 .. HASH_ELEM_NUM
    <3>1. q # << >>
      BY <1>1
    <3> QED BY <3>1 DEF Sizes
  <2>2. Len(ele) \in 1 .. HASH_ELEM_NUM
    <3>1. Len(q[n]) \in 1 .. HASH_ELEM_NUM
      BY <1>6, <2>1
    <3> QED BY <1>7, <3>1, SizesAssumption
  <2>3. ASSUME NEW i \in 1 .. n PROVE Len(p[i]) \in 1 .. HASH_ELEM_NUM
    <3>1. CASE i = n
      BY <1>8, <2>2, <3>1
    <3>2. CASE i # n
      <4>1. i \in 1 .. n - 1
        BY <3>2
      <4> QED BY <1>8, <2>1, <4>1
    <3> QED BY <3>1, <3>2
  <2> QED BY <1>9, <2>1, <2>3 DEF Sizes
<1> QED BY ZenonT(60), <1>14, <1>16, <1>17 DEF p, Grown

\* HashMapInsertKey into a new element node.
LEMMA InsertIntoNew ==
  ASSUME NEW s, NEW q, Chain(s, q), Sizes(s, q), NEW lsn \in Nat, \A e \in Listed(s, q) : e < lsn,
         Len(s) = HASH_HEAD_NUM
  PROVE  /\ Chain(s, Append(q, <<lsn>>)) /\ Sizes(s, Append(q, <<lsn>>))
         /\ Listed(s, Append(q, <<lsn>>)) = Listed(s, q) \cup {lsn}
<1>1. q \in Seq(Seq(Nat))
  BY ZenonT(60) DEF Chain
<1>2. PICK n \in Nat : n = Len(q) /\ DOMAIN q = 1 .. n
  BY <1>1
<1> DEFINE ele == <<lsn>>
           p == Append(q, ele)
<1>3. ele \in Seq(Nat) /\ Ascending(ele) /\ ele # << >> /\ Len(ele) = 1 /\ Range(ele) = {lsn}
  BY OneEntry
<1> HIDE DEF ele
<1>4. p \in Seq(Seq(Nat)) /\ Len(p) = n + 1 /\ p[n + 1] = ele /\ \A i \in 1 .. n : p[i] = q[i]
  BY <1>1, <1>2, <1>3
<1> HIDE DEF p
<1>5. \A i \in 1 .. n : q[i] \in Seq(Nat)
  BY <1>1, <1>2
<1>6. \A i \in 1 .. n : Range(q[i]) \subseteq Nat
  BY <1>5, ListFacts
<1>7. Below(s, ele) /\ \A i \in 1 .. n : Below(q[i], ele)
  BY <1>2, <1>3, <1>6 DEF Below, Listed, EntriesOf
<1>8. Chain(s, p) /\ Listed(s, p) = Range(s) \cup EntriesOf(q, n) \cup Range(ele)
  <2>1. Follows(ele, s, q, n)
    BY ZenonT(60), <1>3, <1>7 DEF Follows
  <2>2. Extension(p, q, n, ele)
    BY ZenonT(60), <1>4 DEF Extension
  <2>3. n <= Len(q)
    BY <1>2
  <2> QED BY SMT, <2>1, <2>2, <2>3, ChainExtended
<1>9. Listed(s, p) = Listed(s, q) \cup {lsn}
  BY <1>2, <1>3, <1>8 DEF Listed
<1>10. Sizes(s, p)
  <2>1. Len(s) \in 1 .. HASH_HEAD_NUM /\ \A i \in 1 .. n : Len(q[i]) \in 1 .. HASH_ELEM_NUM
    BY <1>2 DEF Sizes
  <2>2. ASSUME NEW i \in 1 .. n + 1 PROVE Len(p[i]) \in 1 .. HASH_ELEM_NUM
    <3>1. CASE i = n + 1
      <4>1. Len(p[i]) = 1
        BY <1>3, <1>4, <3>1
      <4>2. 1 \in 1 .. HASH_ELEM_NUM
        BY SizesAssumption
      <4> QED BY <4>1, <4>2
    <3>2. CASE i \in 1 .. n
      BY ZenonT(60), <1>4, <2>1, <3>2
    <3> QED BY <3>1, <3>2
  <2> QED BY <1>4, <2>1, <2>2 DEF Sizes
<1> QED BY <1>8, <1>9, <1>10 DEF p, ele

\* HashMapInsertKey keeps the head node in order, and adds the LSN, wherever
\* there is room for it.
THEOREM InsertedInOrder ==
  ASSUME NEW h, NodeInOrder(h), NEW lsn \in Nat
  PROVE  /\ NodeInOrder(Inserted(h, lsn))
         /\ Inserted(h, lsn).replayedLsn = h.replayedLsn
         /\ lsn <= h.maxLsn => Inserted(h, lsn) = h
         /\ lsn > h.maxLsn =>
              /\ Inserted(h, lsn).maxLsn = lsn
              /\ Listed(Inserted(h, lsn).lsnEntry, Inserted(h, lsn).nextEle) =
                   Listed(h.lsnEntry, h.nextEle) \cup {lsn}
<1> DEFINE s == h.lsnEntry
           q == h.nextEle
           g == Inserted(h, lsn)
<1>1. h \in HeadNodes /\ Chain(s, q) /\ Sizes(s, q) /\ \A e \in Listed(s, q) : e <= h.maxLsn
  BY ZenonT(60) DEF NodeInOrder
<1>2. s \in Seq(Nat) /\ q \in Seq(Seq(Nat)) /\ h.maxLsn \in Nat /\ h.replayedLsn \in Nat
  BY <1>1 DEF HeadNodes
<1>3. Listed(s, q) \subseteq Nat
  BY <1>1, ListedNat
<1>4. CASE h.maxLsn >= lsn
  <2>1. g = h
    BY <1>4 DEF Inserted
  <2>2. ~ (lsn > h.maxLsn)
    BY <1>2, <1>4
  <2> QED BY <2>1, <2>2
<1>5. CASE ~ (h.maxLsn >= lsn)
  <2>1. lsn > h.maxLsn /\ ~ (lsn <= h.maxLsn)
    BY <1>2, <1>5
  <2>2. \A e \in Listed(s, q) : e < lsn
    BY <1>1, <1>2, <1>3, <2>1
  <2> SUFFICES \E t, p : /\ g = [lsnEntry |-> t, nextEle |-> p, maxLsn |-> lsn,
                                 replayedLsn |-> h.replayedLsn]
                         /\ Chain(t, p) /\ Sizes(t, p) /\ Listed(t, p) = Listed(s, q) \cup {lsn}
    <3>1. PICK t, p : /\ g = [lsnEntry |-> t, nextEle |-> p, maxLsn |-> lsn,
                              replayedLsn |-> h.replayedLsn]
                      /\ Chain(t, p) /\ Sizes(t, p) /\ Listed(t, p) = Listed(s, q) \cup {lsn}
      OBVIOUS
    <3> HIDE DEF g
    <3>2. g.lsnEntry = t /\ g.nextEle = p /\ g.maxLsn = lsn /\ g.replayedLsn = h.replayedLsn
      BY <3>1
    <3>3. t \in Seq(Nat) /\ p \in Seq(Seq(Nat))
      BY ZenonT(60), <3>1 DEF Chain
    <3>4. g \in HeadNodes
      BY <1>2, <3>1, <3>3 DEF HeadNodes
    <3>5. \A e \in Listed(t, p) : e <= lsn
      BY <1>3, <2>2, <3>1
    <3>6. NodeInOrder(g)
      BY <3>1, <3>2, <3>4, <3>5 DEF NodeInOrder
    <3> QED BY <2>1, <3>1, <3>2, <3>6 DEF g
  <2>3. h = [lsnEntry |-> s, nextEle |-> q, maxLsn |-> h.maxLsn, replayedLsn |-> h.replayedLsn]
    BY <1>1 DEF HeadNodes
  <2>4. CASE Len(s) < HASH_HEAD_NUM
    <3>1. q = << >>
      <4>1. Len(s) # HASH_HEAD_NUM
        BY <1>2, <2>4, SizesAssumption
      <4> QED BY <1>1, <4>1 DEF Sizes
    <3>2. g = [lsnEntry |-> Append(s, lsn), nextEle |-> q, maxLsn |-> lsn,
               replayedLsn |-> h.replayedLsn]
      BY ZenonT(60), <1>5, <2>3, <2>4 DEF Inserted
    <3>3. Chain(Append(s, lsn), q) /\ Listed(Append(s, lsn), q) = Listed(s, q) \cup {lsn}
          /\ Len(Append(s, lsn)) = Len(s) + 1
      <4> HIDE DEF s, q
      <4> QED BY <1>1, <2>2, <3>1, InsertIntoHead
    <3>4. Sizes(Append(s, lsn), q)
      <4>1. Len(s) \in 1 .. HASH_HEAD_NUM
        BY <1>1 DEF Sizes
      <4>2. Len(Append(s, lsn)) \in 1 .. HASH_HEAD_NUM
        BY <2>4, <3>3, <4>1, SizesAssumption
      <4>3. \A i \in 1 .. Len(q) : FALSE
        BY <3>1
      <4> QED BY <3>1, <4>2, <4>3 DEF Sizes
    <3> QED BY ZenonT(60), <3>2, <3>3, <3>4
  <2>5. CASE ~ (Len(s) < HASH_HEAD_NUM) /\ Len(q) > 0 /\ Len(q[Len(q)]) < HASH_ELEM_NUM
    <3> DEFINE p == [q EXCEPT ![Len(q)] = Append(q[Len(q)], lsn)]
    <3>1. g = [lsnEntry |-> s, nextEle |-> p, maxLsn |-> lsn, replayedLsn |-> h.replayedLsn]
      BY ZenonT(60), <1>5, <2>3, <2>5 DEF Inserted
    <3>2. Chain(s, p) /\ Sizes(s, p) /\ Listed(s, p) = Listed(s, q) \cup {lsn}
      <4> HIDE DEF s, q
      <4>1. Len(q) \in Nat
        BY <1>2, ListFacts
      <4>2. AllBelow(s, q, lsn) /\ Room(q, Len(q))
        BY ZenonT(60), <2>2, <2>5 DEF AllBelow, Room
      <4>3. Grown(s, q, lsn, p)
        BY <1>1, <4>1, <4>2, InsertIntoLast
      <4> QED BY ZenonT(60), <4>3 DEF Grown
    <3> QED BY ZenonT(60), <3>1, <3>2
  <2>6. CASE ~ (Len(s) < HASH_HEAD_NUM) /\ ~ (Len(q) > 0 /\ Len(q[Len(q)]) < HASH_ELEM_NUM)
    <3>1. g = [lsnEntry |-> s, nextEle |-> Append(q, <<lsn>>), maxLsn |-> lsn,
               replayedLsn |-> h.replayedLsn]
      BY ZenonT(60), <1>5, <2>3, <2>6 DEF Inserted
    <3>2. Len(s) = HASH_HEAD_NUM
      <4>1. Len(s) \in 1 .. HASH_HEAD_NUM
        BY <1>1 DEF Sizes
      <4> QED BY <2>6, <4>1, SizesAssumption
    <3>3. /\ Chain(s, Append(q, <<lsn>>)) /\ Sizes(s, Append(q, <<lsn>>))
          /\ Listed(s, Append(q, <<lsn>>)) = Listed(s, q) \cup {lsn}
      <4> HIDE DEF s, q
      <4> QED BY <1>1, <2>2, <3>2, InsertIntoNew
    <3> QED BY ZenonT(60), <3>1, <3>3
  <2> QED BY <2>4, <2>5, <2>6
<1> QED BY <1>4, <1>5

-----------------------------------------------------------------------------
(***************************************************************************)
(* The search for an older version.                                        *)
(***************************************************************************)
\* v is the largest number of S that is not above target, 0 if there is none.
Newest(v, S, target) ==
  \/ v \in S /\ v <= target /\ \A e \in S : e <= target => e <= v
  \/ v = 0 /\ \A e \in S : e > target

\* What the binary search finds in one list.
LEMMA LowerEntry ==
  ASSUME NEW list \in Seq(Nat), Ascending(list), NEW target \in Nat
  PROVE  /\ LsnListFindLowerBound(target, list) \in Nat
         /\ LsnListFindLowerBound(target, list) = 0 => \A e \in Range(list) : e > target
         /\ LsnListFindLowerBound(target, list) > 0 =>
              LET v == list[LsnListFindLowerBound(target, list)]
              IN  v \in Range(list) /\ v <= target /\ \A e \in Range(list) : e <= target => e <= v
<1>1. PICK n \in Nat : n = Len(list) /\ DOMAIN list = 1 .. n /\ list \in [1 .. n -> Nat]
  BY ZenonT(60), ListFacts
<1>2. PICK c \in 0 .. n : c = LastUpTo(list, target) /\ IsLastUpTo(list, n, target, c)
  BY ZenonT(60), <1>1, LastUpToFacts DEF IsLastUpTo
<1>3. LsnListFindLowerBound(target, list) = c
  BY <1>2, LowerBoundFound
<1>4. ASSUME c = 0 PROVE \A e \in Range(list) : e > target
  <2>1. \A i \in 1 .. n : list[i] > target
    BY <1>2, <1>4 DEF IsLastUpTo
  <2> QED BY <1>1, <2>1 DEF Range
<1>5. ASSUME c > 0
      PROVE  /\ list[c] \in Range(list) /\ list[c] <= target
             /\ \A e \in Range(list) : e <= target => e <= list[c]
  <2>1. c \in 1 .. n /\ c \in 1 .. c
    BY <1>5
  <2>2. list[c] <= target
    BY <1>2, <2>1 DEF IsLastUpTo
  <2>3. ASSUME NEW i \in 1 .. n, list[i] <= target PROVE list[i] <= list[c]
    <3>1. list[i] \in Nat /\ list[c] \in Nat
      BY <1>1, <2>1
    <3>2. i <= c
      <4>1. i > c => list[i] > target
        BY <1>2 DEF IsLastUpTo
      <4> QED BY <2>3, <3>1, <4>1
    <3>3. i < c => list[i] < list[c]
      BY <1>1, <2>1 DEF Ascending
    <3> QED BY <3>1, <3>2, <3>3
  <2> QED BY <1>1, <2>1, <2>2, <2>3 DEF Range
<1> QED BY <1>3, <1>4, <1>5

\* When all nodes from m on are beyond the target and all before it are not,
\* the last entry before m is the one to find.
LEMMA LastBefore ==
  ASSUME NEW s, NEW q, Chain(s, q), NEW t \in Nat, NEW n \in Nat, n = Len(q), NEW m \in 1 .. n + 1,
         Last(s) <= t, \A i \in 1 .. m - 1 : Last(q[i]) <= t,
         \A i \in m .. n : \A e \in Range(q[i]) : e > t
  PROVE  Newest(IF m - 1 > 0 THEN Last(q[m - 1]) ELSE Last(s), Listed(s, q), t)
<1>1. /\ s \in Seq(Nat) /\ Ascending(s) /\ s # << >>
      /\ \A i \in 1 .. n : q[i] \in Seq(Nat) /\ Ascending(q[i]) /\ q[i] # << >> /\ Below(s, q[i])
      /\ \A i, j \in 1 .. n : i < j => Below(q[i], q[j])
  BY DEF Chain, Blocks
<1>2. /\ Last(s) \in Range(s) /\ \A e \in Range(s) : e <= Last(s)
      /\ \A i \in 1 .. n : Last(q[i]) \in Range(q[i]) /\ \A e \in Range(q[i]) : e <= Last(q[i])
  BY SMTT(20), <1>1, EndsOfList
<1>3. Range(s) \subseteq Nat /\ \A i \in 1 .. n : Range(q[i]) \subseteq Nat
  BY SMTT(20), <1>1, ListFacts
<1>4. \A e \in Listed(s, q) : e \in Range(s) \/ \E i \in 1 .. n : e \in Range(q[i])
  BY DEF Listed, EntriesOf
<1>5. CASE m = 1
  <2>1. m - 1 = 0 /\ ~ (0 > 0)
    BY <1>5
  <2>2. Last(s) \in Listed(s, q)
    BY <1>2 DEF Listed
  <2>3. ASSUME NEW e \in Listed(s, q), e <= t PROVE e <= Last(s)
    <3>1. CASE e \in Range(s)
      BY <1>2, <3>1
    <3>2. CASE \E i \in 1 .. n : e \in Range(q[i])
      <4>1. PICK i \in 1 .. n : e \in Range(q[i])
        BY <3>2
      <4>2. e > t /\ e \in Nat
        BY <1>3, <1>5, <4>1
      <4> QED BY <2>3, <4>2
    <3> QED BY <1>4, <3>1, <3>2
  <2> QED BY <2>1, <2>2, <2>3 DEF Newest
<1>6. CASE m # 1
  <2> DEFINE k == m - 1
  <2>1. k \in 1 .. n /\ k > 0 /\ k \in 1 .. m - 1
    BY <1>6
  <2>2. Last(q[k]) \in Listed(s, q)
    <3>1. Last(q[k]) \in Range(q[k]) /\ Last(q[k]) \in Nat
      BY <1>2, <1>3, <2>1
    <3> QED BY <2>1, <3>1 DEF Listed, EntriesOf
  <2>3. Last(q[k]) <= t /\ Last(q[k]) \in Nat /\ Last(q[k]) \in Range(q[k])
    BY <1>2, <1>3, <2>1
  <2>4. ASSUME NEW e \in Listed(s, q), e <= t PROVE e <= Last(q[k])
    <3>1. CASE e \in Range(s)
      <4>1. e < Last(q[k]) /\ e \in Nat
        BY ZenonT(60), <1>1, <1>3, <2>1, <2>3, <3>1 DEF Below
      <4> QED BY <2>3, <4>1
    <3>2. CASE \E i \in 1 .. n : e \in Range(q[i])
      <4>1. PICK i \in 1 .. n : e \in Range(q[i])
        BY <3>2
      <4>2. e \in Nat
        BY <1>3, <4>1
      <4>3. ~ (i \in m .. n)
        BY <2>4, <4>1, <4>2
      <4>4. CASE i = k
        BY <1>2, <4>1, <4>4
      <4>5. CASE i < k
        <5>1. Below(q[i], q[k])
          BY <1>1, <2>1, <4>5
        <5>2. e < Last(q[k])
          BY <2>3, <4>1, <5>1 DEF Below
        <5> QED BY SMTT(20), <2>3, <4>2, <5>2
      <4> QED BY <2>1, <4>3, <4>4, <4>5
    <3> QED BY <1>4, <3>1, <3>2
  <2>5. Newest(Last(q[k]), Listed(s, q), t)
    BY <2>2, <2>3, <2>4 DEF Newest
  <2> QED BY <2>1, <2>5
<1> QED BY <1>5, <1>6

\* HashMapGetBlockReplayList, for a target behind replayedLsn, finds the
\* newest listed version that is not above the target.
THEOREM OlderVersionExact ==
  ASSUME NEW s, NEW q, Chain(s, q), NEW t \in Nat
  PROVE  Newest(FindVersion(s, q, t), Listed(s, q), t)
<1> DEFINE inHead == LsnListFindLowerBound(t, s)
           reaching == {i \in DOMAIN q : Last(q[i]) >= t}
           m == Min(reaching)
           inEle == LsnListFindLowerBound(t, q[m])
           before == IF reaching = {} THEN Len(q) ELSE m - 1
           v == FindVersion(s, q, t)
<1>1. v = IF Last(s) >= t THEN (IF inHead = 0 THEN 0 ELSE s[inHead])
          ELSE IF reaching # {} /\ inEle > 0 THEN q[m][inEle]
          ELSE IF before > 0 THEN Last(q[before])
          ELSE Last(s)
  BY DEF FindVersion
<1>2. q \in Seq(Seq(Nat))
  BY ZenonT(60) DEF Chain
<1>3. PICK n \in Nat : n = Len(q) /\ DOMAIN q = 1 .. n
  BY <1>2
<1>4. /\ s \in Seq(Nat) /\ Ascending(s) /\ s # << >>
      /\ \A i \in 1 .. n : q[i] \in Seq(Nat) /\ Ascending(q[i]) /\ q[i] # << >> /\ Below(s, q[i])
      /\ \A i, j \in 1 .. n : i < j => Below(q[i], q[j])
  BY <1>3 DEF Chain, Blocks
<1>5. /\ Last(s) \in Range(s) /\ \A e \in Range(s) : e <= Last(s)
      /\ \A i \in 1 .. n : Last(q[i]) \in Range(q[i]) /\ \A e \in Range(q[i]) : e <= Last(q[i])
  BY <1>4, EndsOfList
<1>6. Range(s) \subseteq Nat /\ \A i \in 1 .. n : Range(q[i]) \subseteq Nat
  BY <1>4, ListFacts
<1>7. /\ \A e \in Listed(s, q) : e \in Range(s) \/ \E i \in 1 .. n : e \in Range(q[i])
      /\ Range(s) \subseteq Listed(s, q) /\ \A i \in 1 .. n : Range(q[i]) \subseteq Listed(s, q)
  BY <1>3, <1>6 DEF Listed, EntriesOf
<1> HIDE DEF inHead, reaching, m, inEle, before, v
<1>8. CASE Last(s) >= t
  <2>1. \A i \in 1 .. n : \A e \in Range(q[i]) : e > t
    <3> SUFFICES ASSUME NEW i \in 1 .. n, NEW e \in Range(q[i]) PROVE e > t
      OBVIOUS
    <3>1. Last(s) < e
      BY <1>4, <1>5 DEF Below
    <3>2. e \in Nat /\ Last(s) \in Nat
      BY <1>5, <1>6
    <3> QED BY <1>8, <3>1, <3>2
  <2>2. /\ inHead \in Nat
        /\ inHead = 0 => \A e \in Range(s) : e > t
        /\ inHead > 0 => s[inHead] \in Range(s) /\ s[inHead] <= t
                         /\ \A e \in Range(s) : e <= t => e <= s[inHead]
    BY ZenonT(60), <1>4, LowerEntry DEF inHead
  <2>3. CASE inHead = 0
    <3>1. v = 0
      BY <1>1, <1>8, <2>3
    <3>2. \A e \in Listed(s, q) : e > t
      BY SMTT(20), <1>7, <2>1, <2>2, <2>3
    <3> QED BY <3>1, <3>2 DEF Newest, v
  <2>4. CASE inHead # 0
    <3>1. v = s[inHead] /\ inHead > 0
      BY <1>1, <1>8, <2>2, <2>4
    <3>2. ASSUME NEW e \in Listed(s, q), e <= t PROVE e <= v
      <4>1. e \in Range(s)
        <5>1. ASSUME NEW i \in 1 .. n, e \in Range(q[i]) PROVE FALSE
          <6>1. e > t /\ e \in Nat
            BY <1>6, <2>1, <5>1
          <6> QED BY <3>2, <6>1
        <5> QED BY <1>7, <5>1
      <4> QED BY <2>2, <3>1, <3>2, <4>1
    <3> QED BY <1>7, <2>2, <3>1, <3>2 DEF Newest, v
  <2> QED BY <2>3, <2>4
<1>9. CASE ~ (Last(s) >= t)
  <2>1. Last(s) <= t
    BY <1>5, <1>6, <1>9
  <2>2. CASE reaching = {}
    <3>1. \A i \in 1 .. n : Last(q[i]) <= t
      <4> SUFFICES ASSUME NEW i \in 1 .. n PROVE Last(q[i]) <= t
        OBVIOUS
      <4>1. ~ (Last(q[i]) >= t)
        BY <1>3, <2>2 DEF reaching
      <4>2. Last(q[i]) \in Nat
        BY <1>5, <1>6
      <4> QED BY <4>1, <4>2
    <3>2. PICK k \in 1 .. n + 1 : k = n + 1
      OBVIOUS
    <3>3. v = IF k - 1 > 0 THEN Last(q[k - 1]) ELSE Last(s)
      <4>1. k - 1 = n
        BY <3>2
      <4> QED BY <1>1, <1>3, <1>9, <2>2, <4>1 DEF before
    <3>4. \A i \in 1 .. k - 1 : Last(q[i]) <= t
      BY <3>1, <3>2
    <3>5. \A i \in k .. n : \A e \in Range(q[i]) : e > t
      BY <3>2
    <3> HIDE <3>2
    <3>6. Newest(IF k - 1 > 0 THEN Last(q[k - 1]) ELSE Last(s), Listed(s, q), t)
      BY <1>3, <2>1, <3>4, <3>5, LastBefore
    <3> QED BY <3>3, <3>6 DEF v
  <2>3. CASE reaching # {}
    <3>1. m \in reaching /\ \A i \in reaching : m <= i
      <4>1. reaching \subseteq Nat
        BY <1>3 DEF reaching
      <4>2. \E x \in reaching : \A i \in reaching : x <= i
        BY ZenonT(60), <2>3, <4>1, NatLeast
      <4> QED BY <4>2 DEF m, Min
    <3>2. m \in 1 .. n /\ Last(q[m]) >= t
      BY <1>3, <3>1 DEF reaching
    <3>3. ASSUME NEW i \in 1 .. n, i < m PROVE Last(q[i]) <= t
      <4>1. i \notin reaching
        BY <3>1, <3>2, <3>3
      <4>2. ~ (Last(q[i]) >= t)
        BY <1>3, <4>1 DEF reaching
      <4>3. Last(q[i]) \in Nat
        BY <1>5, <1>6
      <4> QED BY <4>2, <4>3
    <3>4. ASSUME NEW i \in 1 .. n, i > m, NEW e \in Range(q[i]) PROVE e > t
      <4>1. Below(q[m], q[i])
        BY <1>4, <3>2, <3>4
      <4>2. Last(q[m]) < e
        BY <1>5, <3>2, <4>1 DEF Below
      <4>3. Last(q[m]) \in Nat /\ e \in Nat
        BY <1>5, <1>6, <3>2
      <4> QED BY <3>2, <4>2, <4>3
    <3>5. /\ inEle \in Nat
          /\ inEle = 0 => \A e \in Range(q[m]) : e > t
          /\ inEle > 0 => q[m][inEle] \in Range(q[m]) /\ q[m][inEle] <= t
                          /\ \A e \in Range(q[m]) : e <= t => e <= q[m][inEle]
      <4>1. q[m] \in Seq(Nat) /\ Ascending(q[m])
        BY <1>4, <3>2
      <4> QED BY ZenonT(60), <4>1, LowerEntry DEF inEle
    <3>6. CASE inEle = 0
      <4>1. v = IF m - 1 > 0 THEN Last(q[m - 1]) ELSE Last(s)
        BY <1>1, <1>9, <2>3, <3>6 DEF before
      <4>2. \A i \in 1 .. m - 1 : Last(q[i]) <= t
        BY <3>2, <3>3
      <4>3. \A i \in m .. n : \A e \in Range(q[i]) : e > t
        BY <3>2, <3>4, <3>5, <3>6
      <4>4. m \in 1 .. n + 1
        BY <3>2
      <4>5. Newest(IF m - 1 > 0 THEN Last(q[m - 1]) ELSE Last(s), Listed(s, q), t)
        BY SMTT(20), <1>3, <2>1, <4>2, <4>3, <4>4, LastBefore
      <4> QED BY <4>1, <4>5 DEF v
    <3>7. CASE inEle # 0
      <4>1. v = q[m][inEle] /\ inEle > 0
        BY SMTT(20), <1>1, <1>9, <2>3, <3>5, <3>7
      <4>2. v \in Range(q[m]) /\ v \in Nat /\ v <= t /\ v \in Listed(s, q)
        BY <1>6, <1>7, <3>2, <3>5, <4>1
      <4>3. ASSUME NEW e \in Listed(s, q), e <= t PROVE e <= v
        <5>1. CASE e \in Range(s)
          <6>1. e < v /\ e \in Nat
            BY <1>4, <1>6, <3>2, <4>2, <5>1 DEF Below
          <6> QED BY <4>2, <6>1
        <5>2. ASSUME NEW i \in 1 .. n, e \in Range(q[i]) PROVE e <= v
          <6>1. e \in Nat /\ ~ (i > m)
            BY SMTT(20), <1>6, <3>4, <4>3, <5>2
          <6>2. CASE i = m
            BY <3>5, <4>1, <4>3, <5>2, <6>2
          <6>3. CASE i < m
            <7>1. Below(q[i], q[m])
              BY <1>4, <3>2, <6>3
            <7>2. e < v
              BY <4>2, <5>2, <7>1 DEF Below
            <7> QED BY <4>2, <6>1, <7>2
          <6> QED BY <3>2, <6>1, <6>2, <6>3
        <5> QED BY <1>7, <5>1, <5>2
      <4> QED BY SMTT(20), <4>2, <4>3 DEF Newest, v
    <3> QED BY <3>6, <3>7
  <2> QED BY <2>2, <2>3
<1> QED BY SMTT(20), <1>8, <1>9

-----------------------------------------------------------------------------
(***************************************************************************)
(* The head node of a page and the records of that page.                   *)
(***************************************************************************)
\* A list over a set, told by its entries.
LEMMA ListOver ==
  ASSUME NEW s \in Seq(Nat), NEW S, Range(s) \subseteq S
  PROVE  s \in Seq(S)
<1>1. PICK n \in Nat : n = Len(s) /\ DOMAIN s = 1 .. n /\ s \in [1 .. n -> Nat]
  OBVIOUS
<1>2. \A i \in 1 .. n : s[i] \in S
  BY <1>1 DEF Range
<1>3. s \in [1 .. n -> S]
  BY <1>1, <1>2
<1> QED BY <1>3

\* The head node h lists records of w, and all of those above low.
ListsRecords(h, w, low) ==
  /\ NodeInOrder(h)
  /\ h.maxLsn \in Range(w) /\ \A e \in Range(w) : e <= h.maxLsn
  /\ h.replayedLsn = 0 \/ h.replayedLsn \in Range(w)
  /\ Listed(h.lsnEntry, h.nextEle) \subseteq Range(w)
  /\ \A e \in Range(w) : e > low => e \in Listed(h.lsnEntry, h.nextEle)

\* A list of the records between low and t, when something is in it, ends at
\* the last record up to t.
LEMMA ListReaches ==
  ASSUME NEW list, NEW S, NEW low \in Nat, NEW t \in Nat, Lists(list, S, low, t),
         list # << >>, \A e \in S : e \in Nat
  PROVE  /\ Last(list) \in S /\ Last(list) > low /\ Last(list) <= t
         /\ Lists(list, S, low, Last(list))
         /\ \A e \in S : e <= t => e <= Last(list)
<1>1. list \in Seq(Nat) /\ Ascending(list) /\ Range(list) = {e \in S : low < e /\ e <= t}
  BY DEF Lists, Between
<1>2. Last(list) \in Range(list) /\ \A e \in Range(list) : e <= Last(list)
  BY <1>1, EndsOfList
<1>3. PICK last \in Nat : last = Last(list) /\ last \in S /\ low < last /\ last <= t
  BY <1>1, <1>2
<1>4. \A e \in S : e <= t => e <= last
  <2> SUFFICES ASSUME NEW e \in S, e <= t PROVE e <= last
    OBVIOUS
  <2>1. CASE low < e
    BY <1>1, <1>2, <1>3, <2>1
  <2>2. CASE ~ (low < e)
    BY <1>3, <2>2
  <2> QED BY <2>1, <2>2
<1>5. \A e \in S : (low < e /\ e <= last) <=> (low < e /\ e <= t)
  BY <1>3, <1>4
<1>6. Range(list) = Between(S, low, last)
  BY <1>1, <1>5 DEF Between
<1> QED BY <1>1, <1>3, <1>4, <1>6 DEF Lists

\* The head node g is h with lsn added, unless h has it.
Inserts(g, h, lsn) ==
  /\ NodeInOrder(g) /\ g.replayedLsn = h.replayedLsn
  /\ lsn <= h.maxLsn => g = h
  /\ lsn > h.maxLsn =>
       /\ g.maxLsn = lsn
       /\ Listed(g.lsnEntry, g.nextEle) = Listed(h.lsnEntry, h.nextEle) \cup {lsn}

\* This is what HashMapInsertKey does.
LEMMA InsertedInserts ==
  ASSUME NEW h, NodeInOrder(h), NEW lsn \in Nat
  PROVE  Inserts(Inserted(h, lsn), h, lsn)
  BY ZenonT(60), InsertedInOrder DEF Inserts

\* What the background thread leaves of a head node that lists all records
\* after replayedLsn: it lists all records after the collected ones.
LEMMA KeptListsRecords ==
  ASSUME NEW w, \A e \in Range(w) : e \in Nat, NEW h, ListsRecords(h, w, h.replayedLsn), h.nextEle # << >>,
         NEW upTo \in Nat,
         upTo = IF Collected(h) = << >> THEN h.replayedLsn ELSE Last(Collected(h)),
         h.replayedLsn <= upTo,
         NEW g, g = [h EXCEPT !.nextEle = EleNodesKept(h)]
  PROVE  g \in HeadNodes /\ g.replayedLsn = h.replayedLsn /\ ListsRecords(g, w, upTo)
<1>1. \A e \in Range(w) : e \in Nat
  OBVIOUS
<1>2. /\ NodeInOrder(h) /\ h.maxLsn \in Range(w) /\ \A e \in Range(w) : e <= h.maxLsn
      /\ h.replayedLsn = 0 \/ h.replayedLsn \in Range(w)
      /\ Listed(h.lsnEntry, h.nextEle) \subseteq Range(w)
      /\ \A e \in Range(w) : e > h.replayedLsn => e \in Listed(h.lsnEntry, h.nextEle)
  BY ZenonT(60) DEF ListsRecords
<1>3. /\ h \in HeadNodes /\ Chain(h.lsnEntry, h.nextEle) /\ Sizes(h.lsnEntry, h.nextEle)
      /\ \A e \in Listed(h.lsnEntry, h.nextEle) : e <= h.maxLsn
  BY ZenonT(60), <1>2 DEF NodeInOrder
<1>4. h.replayedLsn \in Nat
  BY <1>3 DEF HeadNodes
<1> DEFINE kept == EleNodesKept(h)
<1>5. PICK m \in 1 .. Len(h.nextEle) : kept = SubSeq(h.nextEle, m, Len(h.nextEle))
  BY ZenonT(60), <1>3, <1>4, FreedNodesCollected
<1>6. /\ Chain(h.lsnEntry, kept)
      /\ Listed(h.lsnEntry, kept) \subseteq Listed(h.lsnEntry, h.nextEle)
      /\ \A e \in Listed(h.lsnEntry, h.nextEle) : e > upTo => e \in Listed(h.lsnEntry, kept)
  BY ZenonT(60), <1>3, <1>4, FreedNodesCollected
<1> HIDE DEF kept
<1>7. kept \in Seq(Seq(Nat))
  BY ZenonT(60), <1>6 DEF Chain
<1>8. /\ g \in HeadNodes /\ g.lsnEntry = h.lsnEntry /\ g.nextEle = kept
      /\ g.maxLsn = h.maxLsn /\ g.replayedLsn = h.replayedLsn
  <2>1. g = [h EXCEPT !.nextEle = kept]
    BY DEF kept
  <2> QED BY ZenonT(60), <1>3, <1>7, <2>1 DEF HeadNodes
<1>9. Sizes(g.lsnEntry, g.nextEle)
  <2>1. PICK n \in Nat : n = Len(h.nextEle)
    <3>1. PICK q : q = h.nextEle
      OBVIOUS
    <3>2. q \in Seq(Seq(Nat))
      BY ZenonT(60), <1>3, <3>1 DEF Chain
    <3>3. Len(q) \in Nat
      BY <3>2
    <3> QED BY ZenonT(60), <3>1, <3>3
  <2>2. /\ Len(kept) = n - m + 1 /\ \A i \in 1 .. n - m + 1 : kept[i] = h.nextEle[m - 1 + i]
    BY <1>3, <1>5, <2>1, ChainFrom
  <2>3. /\ Len(h.lsnEntry) \in 1 .. HASH_HEAD_NUM /\ Len(h.lsnEntry) = HASH_HEAD_NUM
        /\ \A i \in 1 .. n : Len(h.nextEle[i]) \in 1 .. HASH_ELEM_NUM
    BY <1>3, <2>1 DEF Sizes
  <2>4. \A i \in 1 .. Len(kept) : Len(kept[i]) \in 1 .. HASH_ELEM_NUM
    <3> SUFFICES ASSUME NEW i \in 1 .. Len(kept) PROVE Len(kept[i]) \in 1 .. HASH_ELEM_NUM
      OBVIOUS
    <3>1. m \in 1 .. n /\ i \in 1 .. n - m + 1
      BY ZenonT(60), <1>5, <2>1, <2>2
    <3>2. m - 1 + i \in 1 .. n
      BY <3>1
    <3> QED BY ZenonT(60), <2>2, <2>3, <3>1, <3>2
  <2> QED BY <1>8, <2>3, <2>4 DEF Sizes
<1>10. NodeInOrder(g)
  BY <1>3, <1>6, <1>8, <1>9 DEF NodeInOrder
<1>11. \A e \in Range(w) : e > upTo => e \in Listed(g.lsnEntry, g.nextEle)
  <2>1. \A e \in Range(w) : e > upTo => e > h.replayedLsn
    BY <1>1, <1>4
  <2> QED BY <1>2, <1>6, <1>8, <2>1
<1>12. ListsRecords(g, w, upTo)
  BY <1>2, <1>6, <1>8, <1>10, <1>11 DEF ListsRecords
<1> QED BY ZenonT(60), <1>8, <1>12

\* What the background thread collects from such a head node.
LEMMA CollectedRecords ==
  ASSUME NEW w, \A e \in Range(w) : e \in Nat, NEW h, ListsRecords(h, w, h.replayedLsn),
         Collected(h) # << >>
  PROVE  /\ Last(Collected(h)) \in Range(w) /\ Last(Collected(h)) > h.replayedLsn
         /\ Lists(Collected(h), Range(w), h.replayedLsn, Last(Collected(h)))
<1> DEFINE list == Collected(h)
           low == h.replayedLsn
           S == Listed(h.lsnEntry, h.nextEle)
<1>1. \A e \in Range(w) : e \in Nat
  OBVIOUS
<1>2. /\ NodeInOrder(h) /\ S \subseteq Range(w) /\ \A e \in Range(w) : e > low => e \in S
  BY ZenonT(60) DEF ListsRecords
<1>3. Chain(h.lsnEntry, h.nextEle) /\ h \in HeadNodes
  BY ZenonT(60), <1>2 DEF NodeInOrder
<1>4. low \in Nat
  BY <1>3 DEF HeadNodes
<1>5. Last(list) \in S /\ Last(list) > low /\ Lists(list, S, low, Last(list))
  BY ZenonT(60), <1>3, <1>4, CollectedExact
<1> HIDE DEF list, low, S
<1>6. PICK last \in Nat : last = Last(list)
  BY <1>1, <1>2, <1>5
<1>7. list \in Seq(Nat) /\ Ascending(list) /\ Range(list) = {e \in S : low < e /\ e <= last}
  BY <1>5, <1>6 DEF Lists, Between
<1>8. \A e : (e \in S /\ low < e /\ e <= last) <=> (e \in Range(w) /\ low < e /\ e <= last)
  BY <1>1, <1>2, <1>4
<1>9. Range(list) = {e \in Range(w) : low < e /\ e <= last}
  BY <1>7, <1>8
<1>10. Lists(list, Range(w), low, last)
  BY <1>7, <1>9 DEF Lists, Between
<1> QED BY ZenonT(60), <1>2, <1>5, <1>6, <1>10 DEF list, low
\* A new head node lists the first record of its page.
LEMMA NewHeadLists ==
  ASSUME NEW lsn \in Nat, NEW w, Range(w) = {lsn}
  PROVE  ListsRecords(NewHead(lsn), w, 0) /\ NewHead(lsn).replayedLsn = 0 /\ NewHead(lsn).maxLsn = lsn
<1>1. /\ NewHead(lsn) \in HeadNodes /\ NewHead(lsn).replayedLsn = 0 /\ NewHead(lsn).maxLsn = lsn
  BY DEF NewHead, HeadNodes
<1>2. /\ Chain(NewHead(lsn).lsnEntry, NewHead(lsn).nextEle)
      /\ Sizes(NewHead(lsn).lsnEntry, NewHead(lsn).nextEle)
      /\ Listed(NewHead(lsn).lsnEntry, NewHead(lsn).nextEle) = {lsn}
  BY ZenonT(60), NewHeadFacts
<1>3. NodeInOrder(NewHead(lsn))
  BY <1>1, <1>2 DEF NodeInOrder
<1> QED BY <1>1, <1>2, <1>3 DEF ListsRecords

\* The records v are those of w and a later one.
LaterRecord(v, w, lsn) ==
  /\ lsn \in Nat /\ \A e \in Range(w) : e \in Nat /\ e < lsn
  /\ Range(v) = Range(w) \cup {lsn}

\* A head node that lists the records of w lists, with a later one inserted,
\* that one as well.
LEMMA InsertedLists ==
  ASSUME NEW w, NEW h, NEW low, ListsRecords(h, w, low), NEW lsn, NEW v, LaterRecord(v, w, lsn)
  PROVE  /\ ListsRecords(Inserted(h, lsn), v, low)
         /\ Inserts(Inserted(h, lsn), h, lsn) /\ lsn > h.maxLsn
<1> lsn \in Nat /\ (\A e \in Range(w) : e \in Nat /\ e < lsn) /\ Range(v) = Range(w) \cup {lsn}
  BY ZenonT(60) DEF LaterRecord
<1>1. /\ NodeInOrder(h) /\ h.maxLsn \in Range(w) /\ \A e \in Range(w) : e <= h.maxLsn
      /\ h.replayedLsn = 0 \/ h.replayedLsn \in Range(w)
      /\ Listed(h.lsnEntry, h.nextEle) \subseteq Range(w)
      /\ \A e \in Range(w) : e > low => e \in Listed(h.lsnEntry, h.nextEle)
  BY ZenonT(60) DEF ListsRecords
<1>2. PICK g : g = Inserted(h, lsn)
  OBVIOUS
<1>3. Inserts(g, h, lsn)
  BY ZenonT(60), <1>1, <1>2, InsertedInserts
<1>4. lsn > h.maxLsn
  BY <1>1
<1>5. /\ NodeInOrder(g) /\ g.replayedLsn = h.replayedLsn /\ g.maxLsn = lsn
      /\ Listed(g.lsnEntry, g.nextEle) = Listed(h.lsnEntry, h.nextEle) \cup {lsn}
  BY ZenonT(60), <1>3, <1>4 DEF Inserts
<1>6. \A e \in Range(v) : e <= lsn
  OBVIOUS
<1>7. ListsRecords(g, v, low)
  BY <1>1, <1>5, <1>6 DEF ListsRecords
<1> QED BY ZenonT(60), <1>2, <1>3, <1>4, <1>7

\* What HashMapGetBlockReplayList answers on a head node that lists all records
\* after replayedLsn: the newest listed version, or the records to replay.
LEMMA AnswerRecords ==
  ASSUME NEW w, \A e \in Range(w) : e \in Nat, NEW h, ListsRecords(h, w, h.replayedLsn),
         NEW target \in Nat
  PROVE  /\ h.replayedLsn > target =>
              /\ BlockReplayList(h, target).list = << >>
              /\ Newest(BlockReplayList(h, target).replayedLsn, Listed(h.lsnEntry, h.nextEle), target)
         /\ h.replayedLsn <= target =>
              /\ BlockReplayList(h, target).found
              /\ BlockReplayList(h, target).replayedLsn = h.replayedLsn
              /\ Lists(BlockReplayList(h, target).list, Range(w), h.replayedLsn, target)
<1> DEFINE answer == BlockReplayList(h, target)
           low == h.replayedLsn
           version == FindVersion(h.lsnEntry, h.nextEle, target)
           list == ReplayList(h.lsnEntry, h.nextEle, low, target)
           S == Listed(h.lsnEntry, h.nextEle)
<1>1. /\ Chain(h.lsnEntry, h.nextEle) /\ S \subseteq Range(w) /\ h \in HeadNodes
      /\ \A e \in Range(w) : e <= h.maxLsn
      /\ \A e \in Range(w) : e > low => e \in S
  BY ZenonT(60) DEF ListsRecords, NodeInOrder
<1>2. low \in Nat /\ h.maxLsn \in Nat
  BY <1>1 DEF HeadNodes
<1>3. Newest(version, S, target)
  BY ZenonT(60), <1>1, OlderVersionExact
<1>4. Lists(list, S, low, target)
  BY ZenonT(60), <1>1, <1>2, ReplayListExact
<1>5. answer = IF low = target \/ (low < target /\ low = h.maxLsn)
                 THEN [found |-> TRUE, replayedLsn |-> low, list |-> << >>]
               ELSE IF low > target
                 THEN [found |-> version > 0, replayedLsn |-> version, list |-> << >>]
               ELSE [found |-> TRUE, replayedLsn |-> low, list |-> list]
  BY ZenonT(60) DEF BlockReplayList
<1> HIDE DEF answer, low, version, list, S
<1>6. CASE low > target
  <2>1. answer = [found |-> version > 0, replayedLsn |-> version, list |-> << >>]
    BY <1>2, <1>5, <1>6
  <2>2. answer.replayedLsn = version /\ answer.list = << >>
    BY <2>1
  <2>3. ~ (low <= target)
    BY <1>2, <1>6
  <2> QED BY ZenonT(60), <1>3, <2>2, <2>3 DEF answer, low, S
<1>7. CASE low <= target
  <2>1. answer.found /\ answer.replayedLsn = low /\ ~ (low > target)
    BY <1>2, <1>5, <1>7
  <2>2. CASE low = target \/ low = h.maxLsn
    <3>1. answer.list = << >>
      BY <1>2, <1>5, <1>7, <2>2
    <3>2. Between(Range(w), low, target) = {}
      BY <1>1, <1>2, <2>2 DEF Between
    <3>3. Lists(answer.list, Range(w), low, target)
      BY ZenonT(60), <3>1, <3>2, EmptyLists
    <3> QED BY ZenonT(60), <2>1, <3>3 DEF answer, low
  <2>3. CASE ~ (low = target \/ low = h.maxLsn)
    <3>1. answer.list = list
      BY <1>2, <1>5, <1>7, <2>3
    <3>2. list \in Seq(Nat) /\ Ascending(list) /\ Range(list) = {e \in S : low < e /\ e <= target}
      BY ZenonT(60), <1>4 DEF Lists, Between
    <3>3. \A e : (e \in S /\ low < e /\ e <= target) <=> (e \in Range(w) /\ low < e /\ e <= target)
      BY <1>1, <1>2
    <3>4. Range(list) = {e \in Range(w) : low < e /\ e <= target}
      BY <3>2, <3>3
    <3>5. Lists(answer.list, Range(w), low, target)
      BY ZenonT(60), <3>1, <3>2, <3>4 DEF Lists, Between
    <3> QED BY ZenonT(60), <2>1, <3>5 DEF answer, low
  <2> QED BY ZenonT(60), <2>2, <2>3
<1> QED BY <1>2, <1>6, <1>7

\* The end of an interval.
LEMMA EndOfInterval ==
  ASSUME NEW n \in Nat
  PROVE  (n > 0 => n \in 1 .. n) /\ \A i \in 1 .. n : i # n => i < n
  OBVIOUS

\* The last entry of the last element node is the largest of the chain.
LEMMA TopOfChain ==
  ASSUME NEW s, NEW q, Chain(s, q), q # << >>
  PROVE  Last(Last(q)) \in Listed(s, q) /\ \A e \in Listed(s, q) : e <= Last(Last(q))
<1>1. PICK n \in Nat : n = Len(q) /\ n > 0 /\ q \in [1 .. n -> Seq(Nat)]
  <2>1. q \in Seq(Seq(Nat))
    BY ZenonT(60) DEF Chain
  <2>2. Len(q) \in Nat /\ q \in [1 .. Len(q) -> Seq(Nat)]
    BY ZenonT(60), <2>1, ListFacts
  <2>3. Len(q) # 0
    BY <2>1
  <2>4. Len(q) > 0
    BY <2>2, <2>3
  <2> QED BY ZenonT(60), <2>2, <2>4
<1>2. /\ s \in Seq(Nat) /\ Ascending(s) /\ s # << >> /\ Blocks(q, n)
      /\ \A i \in 1 .. n : q[i] # << >> /\ Below(s, q[i])
  BY ZenonT(60), <1>1 DEF Chain
<1>3. \A i \in 1 .. n : q[i] \in Seq(Nat) /\ Ascending(q[i])
  BY <1>1, <1>2 DEF Blocks
<1>4. n \in 1 .. n /\ Last(q) = q[n]
  <2>1. n > 0
    BY ZenonT(60), <1>1
  <2>2. n \in 1 .. n
    BY ZenonT(60), <2>1, EndOfInterval
  <2> QED BY ZenonT(60), <1>1, <2>2 DEF Last
<1>5. PICK top \in Nat : top = Last(q[n]) /\ top \in Range(q[n]) /\ \A e \in Range(q[n]) : e <= top
  <2>1. Last(q[n]) \in Range(q[n]) /\ \A e \in Range(q[n]) : e <= Last(q[n])
    BY ZenonT(60), <1>2, <1>3, <1>4, EndsOfList
  <2>2. Range(q[n]) \subseteq Nat
    BY ZenonT(60), <1>3, <1>4, ListFacts
  <2> QED BY ZenonT(60), <2>1, <2>2
<1>6. top \in EntriesOf(q, n)
  BY <1>4, <1>5 DEF EntriesOf
<1>7. \A e \in Range(s) : e < top
  BY ZenonT(60), <1>2, <1>4, <1>5 DEF Below
<1>8. \A i \in 1 .. n : \A e \in Range(q[i]) : e <= top
  <2> SUFFICES ASSUME NEW i \in 1 .. n, NEW e \in Range(q[i]) PROVE e <= top
    OBVIOUS
  <2>1. CASE i = n
    BY ZenonT(60), <1>5, <2>1
  <2>2. CASE i # n
    <3>1. i < n
      BY ZenonT(60), <2>2, EndOfInterval
    <3>2. Below(q[i], q[n])
      BY ZenonT(60), <1>2, <1>4, <3>1 DEF Blocks
    <3>3. e < top /\ e \in Nat
      <4>1. Range(q[i]) \subseteq Nat
        BY ZenonT(60), <1>3, ListFacts
      <4> QED BY ZenonT(60), <1>5, <3>2, <4>1 DEF Below
    <3> QED BY <3>3
  <2> QED BY ZenonT(60), <2>1, <2>2
<1>9. \A e \in EntriesOf(q, n) : e <= top
  BY ZenonT(60), <1>8 DEF EntriesOf
<1>10. \A e \in Range(s) : e <= top
  <2>1. Range(s) \subseteq Nat
    BY ZenonT(60), <1>2, ListFacts
  <2> QED BY <1>7, <2>1
<1> QED BY ZenonT(60), <1>1, <1>4, <1>5, <1>6, <1>9, <1>10 DEF Listed

\* The larger one of two LSNs.
LEMMA MaxOfTwo ==
  ASSUME NEW a \in Nat, NEW b \in Nat, a <= b
  PROVE  Max({a, b}) = b
<1>1. b \in {a, b} /\ \A y \in {a, b} : b >= y
  OBVIOUS
<1>2. \A x \in {a, b} : (\A y \in {a, b} : x >= y) => x = b
  OBVIOUS
<1> QED BY <1>1, <1>2 DEF Max

-----------------------------------------------------------------------------
(***************************************************************************)
(* The versions of a page.                                                 *)
(***************************************************************************)
\* A record that is parsed later does not change an older version.
LEMMA UptoGrows ==
  ASSUME NEW w \in Seq(Nat), Ascending(w), NEW lsn \in Nat, \A e \in Range(w) : e < lsn,
         NEW l \in Nat, l < lsn
  PROVE  Upto(Append(w, lsn), l) = Upto(w, l)
<1> DEFINE x == Append(w, lsn)
<1>1. x \in Seq(Nat) /\ Ascending(x) /\ Range(x) = Range(w) \cup {lsn}
  BY AppendAscending
<1> HIDE DEF x
<1>2. /\ Upto(x, l) \in Seq(Nat) /\ Ascending(Upto(x, l))
      /\ Range(Upto(x, l)) = {e \in Range(x) : e <= l}
  BY ZenonT(60), <1>1, UptoFacts
<1>3. /\ Upto(w, l) \in Seq(Nat) /\ Ascending(Upto(w, l))
      /\ Range(Upto(w, l)) = {e \in Range(w) : e <= l}
  BY ZenonT(60), UptoFacts
<1>4. ~ (lsn <= l)
  OBVIOUS
<1>5. Range(Upto(x, l)) = Range(Upto(w, l))
  BY <1>1, <1>2, <1>3, <1>4
<1>6. Upto(x, l) = Upto(w, l)
  BY ZenonT(60), <1>2, <1>3, <1>5, AscendingUnique
<1> QED BY <1>6 DEF x

\* The version low and the records from there up to high are the version high.
LEMMA UptoExtended ==
  ASSUME NEW w \in Seq(Nat), Ascending(w), NEW low \in Nat, NEW high \in Nat, low <= high,
         NEW list, Lists(list, Range(w), low, high)
  PROVE  Upto(w, low) \o list = Upto(w, high)
<1> DEFINE a == Upto(w, low)
           b == Upto(w, high)
<1>1. a \in Seq(Nat) /\ Ascending(a) /\ Range(a) = {e \in Range(w) : e <= low}
  BY UptoFacts
<1>2. b \in Seq(Nat) /\ Ascending(b) /\ Range(b) = {e \in Range(w) : e <= high}
  BY UptoFacts
<1>3. /\ list \in Seq(Nat) /\ Ascending(list)
      /\ Range(list) = {e \in Range(w) : low < e /\ e <= high}
  BY DEF Lists, Between
<1>4. Range(w) \subseteq Nat
  BY ListFacts
<1> HIDE DEF a, b
<1>5. Below(a, list)
  <2> SUFFICES ASSUME NEW x \in Range(a), NEW y \in Range(list) PROVE x < y
    BY DEF Below
  <2>1. x \in Nat /\ y \in Nat /\ x <= low /\ low < y
    BY <1>1, <1>3, <1>4
  <2> QED BY <2>1
<1>6. a \o list \in Seq(Nat) /\ Ascending(a \o list) /\ Range(a \o list) = Range(a) \cup Range(list)
  BY <1>1, <1>3, <1>5, ConcatAscending
<1>7. \A e \in Range(w) : e <= high <=> e <= low \/ (low < e /\ e <= high)
  BY <1>4
<1>8. Range(a \o list) = Range(b)
  BY <1>1, <1>2, <1>3, <1>6, <1>7
<1>9. a \o list = b
  BY ZenonT(60), <1>2, <1>6, <1>8, AscendingUnique
<1> QED BY <1>9 DEF a, b

\* Two LSNs without a record between them name the same version.
LEMMA UptoSame ==
  ASSUME NEW w \in Seq(Nat), Ascending(w), NEW l \in Nat, NEW m \in Nat, l <= m,
         \A e \in Range(w) : e <= m => e <= l
  PROVE  Upto(w, l) = Upto(w, m)
<1>1. /\ Upto(w, l) \in Seq(Nat) /\ Ascending(Upto(w, l))
      /\ Range(Upto(w, l)) = {e \in Range(w) : e <= l}
  BY ZenonT(60), UptoFacts
<1>2. /\ Upto(w, m) \in Seq(Nat) /\ Ascending(Upto(w, m))
      /\ Range(Upto(w, m)) = {e \in Range(w) : e <= m}
  BY ZenonT(60), UptoFacts
<1>3. \A e \in Range(w) : e \in Nat
  BY ListFacts
<1>4. \A e \in Range(w) : e <= m <=> e <= l
  BY <1>3
<1>5. Range(Upto(w, l)) = Range(Upto(w, m))
  BY <1>1, <1>2, <1>4
<1> QED BY ZenonT(60), <1>1, <1>2, <1>5, AscendingUnique

\* No record is in the version 0, the page as its file has it.
LEMMA UptoZero ==
  ASSUME NEW w \in Seq(Nat), Ascending(w), \A e \in Range(w) : e > 0
  PROVE  Upto(w, 0) = << >>
<1>1. Upto(w, 0) \in Seq(Nat) /\ Range(Upto(w, 0)) = {e \in Range(w) : e <= 0}
  BY ZenonT(60), UptoFacts
<1>2. \A e \in Range(w) : e \in Nat
  BY ListFacts
<1>3. Range(Upto(w, 0)) = {}
  BY <1>1, <1>2
<1>4. PICK n \in Nat : n = Len(Upto(w, 0)) /\ DOMAIN Upto(w, 0) = 1 .. n
  BY <1>1
<1>5. n = 0
  <2>1. n # 0 => 1 \in 1 .. n
    OBVIOUS
  <2> QED BY ZenonT(60), <1>3, <1>4, <2>1 DEF Range
<1> QED BY <1>1, <1>4, <1>5
=============================================================================
