--------------------------- MODULE LogIndexProofs ---------------------------
(***************************************************************************)
(* Proofs about the versions of a page: module LogIndex.                   *)
(***************************************************************************)
EXTENDS LogIndex, HeadNodeProofs

\* A step that names no prover has 30 seconds of SMT.
USE SMTT(30)

ReaderStates == {"idle", "lock", "fetch", "apply", "put", "update", "delete", "done"}

VacuumerStates == {"idle", "lock", "apply", "put", "delete", "update"}

\* Where a thread holds headLock.
ReaderLocks == {"apply", "put", "update"}

VacuumerLocks == {"apply", "put", "delete", "update"}

ReaderLocals ==
  [pc : ReaderStates, replayedLsn : 0 .. MaxLsn, list : Seq(Lsns), page : Pages,
   target : 0 .. MaxLsn, seen : Seq(Lsns)]

VacuumerLocals ==
  [pc : VacuumerStates, replayedLsn : 0 .. MaxLsn, list : Seq(Lsns), page : Pages]

TypeInv ==
  /\ rd \in [Readers -> ReaderLocals]
  /\ vac \in VacuumerLocals
  /\ wal \in Seq(Lsns) /\ Ascending(wal)
  /\ headLock \in Readers \cup {Vacuumer, NONE}

LockInv ==
  /\ \A r \in Readers : rd[r].pc \in ReaderLocks <=> headLock = r
  /\ vac.pc \in VacuumerLocks <=> headLock = Vacuumer

\* The records up to here may be missing in the head node: what has been
\* replayed, and what the background thread has collected.
FreedUpTo == IF headLock = Vacuumer THEN Last(vac.list) ELSE head.replayedLsn

NothingParsed ==
  /\ wal = << >> /\ DOMAIN rocksdb = {} /\ vac.pc = "idle"
  /\ \A r \in Readers : rd[r].pc \in {"idle", "done"}

HeadInv ==
  \/ head = NONE /\ NothingParsed
  \/ head # NONE /\ ListsRecords(head, wal, FreedUpTo)

StoreInv ==
  /\ DOMAIN rocksdb \subseteq Range(wal)
  /\ VersionsExact
  /\ head # NONE /\ head.replayedLsn > 0 /\ vac.pc # "update"
       => head.replayedLsn \in DOMAIN rocksdb

\* A thread with locals t replays the records of w that follow the version
\* low, up to the last one of its list.
Carries(t, low, w) ==
  /\ t.replayedLsn = low
  /\ t.list # << >> /\ Last(t.list) \in Range(w) /\ Last(t.list) > low
  /\ Lists(t.list, Range(w), low, Last(t.list))
  /\ t.pc # "apply" => t.page = Upto(w, Last(t.list))

\* The last record of a reader's list is the last one up to its target.
Reaches(t, w) ==
  /\ t.seen = w
  /\ Last(t.list) <= t.target
  /\ \A e \in Range(w) : e <= t.target => e <= Last(t.list)

Answered(t) == t.page = Upto(t.seen, t.target)

ReaderInv(r) ==
  /\ rd[r].pc \in {"idle", "lock", "fetch"} => rd[r].list = << >>
  /\ rd[r].pc \in ReaderLocks => Carries(rd[r], head.replayedLsn, wal) /\ Reaches(rd[r], wal)
  /\ rd[r].pc = "update" => Last(rd[r].list) \in DOMAIN rocksdb
  /\ rd[r].pc = "delete" => 0 < rd[r].replayedLsn /\ rd[r].replayedLsn < head.replayedLsn
  /\ rd[r].pc = "delete" \/ (rd[r].pc = "done" /\ rd[r].list # << >>) => Answered(rd[r])

VacuumerInv ==
  /\ vac.pc \in {"idle", "lock"} => vac.list = << >>
  /\ vac.pc \in VacuumerLocks => Carries(vac, head.replayedLsn, wal)
  /\ vac.pc \in {"delete", "update"} => Last(vac.list) \in DOMAIN rocksdb
  /\ vac.pc = "delete" => vac.replayedLsn > 0
  /\ vac.pc = "update" => head.replayedLsn \notin DOMAIN rocksdb

\* The inductive invariant.
LogInv ==
  /\ TypeInv /\ LockInv /\ HeadInv /\ StoreInv
  /\ \A r \in Readers : ReaderInv(r)
  /\ VacuumerInv
  /\ NoVersionLeaks

-----------------------------------------------------------------------------
(***************************************************************************)
(* The records of the page, as an ascending list.                          *)
(***************************************************************************)
\* Lists of LSNs are lists of positive numbers.
LEMMA LsnList ==
  ASSUME NEW s \in Seq(Lsns)
  PROVE  s \in Seq(Nat) /\ Range(s) \subseteq Lsns /\ \A e \in Range(s) : e \in Nat /\ e > 0
<1>1. Lsns \subseteq Nat /\ \A e \in Lsns : e > 0
  BY ValuesAssumption DEF Lsns
<1>2. PICK n \in Nat : n = Len(s) /\ DOMAIN s = 1 .. n /\ s \in [1 .. n -> Lsns]
  OBVIOUS
<1>3. \A i \in 1 .. n : s[i] \in Lsns /\ s[i] \in Nat
  BY ZenonT(60), <1>1, <1>2
<1>4. s \in Seq(Nat)
  <2>1. s \in [1 .. n -> Nat]
    BY <1>2, <1>3
  <2> QED BY <2>1
<1>5. Range(s) \subseteq Lsns
  BY <1>2, <1>3 DEF Range
<1> QED BY ZenonT(60), <1>1, <1>4, <1>5

\* A list of records is a list of LSNs.
LEMMA RecordsAreLsns ==
  ASSUME NEW list, NEW S, S \subseteq Lsns, NEW low, NEW high, Lists(list, S, low, high)
  PROVE  list \in Seq(Lsns)
<1>1. list \in Seq(Nat) /\ Range(list) \subseteq Lsns
  BY DEF Lists, Between
<1> QED BY ZenonT(60), <1>1, ListOver

\* What the invariant says of the WAL and of an existing head node.
LEMMA WalFacts ==
  ASSUME TypeInv
  PROVE  /\ wal \in Seq(Lsns) /\ wal \in Seq(Nat) /\ Ascending(wal)
         /\ Range(wal) \subseteq Lsns /\ \A e \in Range(wal) : e \in Nat /\ e > 0
         /\ \A l \in Nat : Upto(wal, l) \in Seq(Lsns)
<1>1. wal \in Seq(Lsns) /\ Ascending(wal)
  BY DEF TypeInv
<1>2. wal \in Seq(Nat) /\ Range(wal) \subseteq Lsns /\ \A e \in Range(wal) : e \in Nat /\ e > 0
  BY <1>1, LsnList
<1>3. ASSUME NEW l \in Nat PROVE Upto(wal, l) \in Seq(Lsns)
  <2>1. Upto(wal, l) \in Seq(Nat) /\ Range(Upto(wal, l)) = {e \in Range(wal) : e <= l}
    BY ZenonT(60), <1>1, <1>2, UptoFacts
  <2>2. Range(Upto(wal, l)) \subseteq Lsns
    BY <1>2, <2>1
  <2> QED BY <2>1, <2>2, ListOver
<1> QED BY <1>1, <1>2, <1>3

\* The head node lists records of the WAL, and its LSNs are in range.
LEMMA HeadFacts ==
  ASSUME TypeInv, HeadInv, head # NONE
  PROVE  /\ ListsRecords(head, wal, FreedUpTo) /\ NodeInOrder(head) /\ head \in HeadNodes
         /\ head.replayedLsn \in Nat /\ head.replayedLsn \in 0 .. MaxLsn
         /\ head.maxLsn \in Lsns /\ head.maxLsn \in Nat
<1>1. ListsRecords(head, wal, FreedUpTo)
  BY ZenonT(60) DEF HeadInv
<1>2. NodeInOrder(head) /\ head.maxLsn \in Range(wal) /\ (head.replayedLsn = 0 \/ head.replayedLsn \in Range(wal))
  BY ZenonT(60), <1>1 DEF ListsRecords
<1>3. head \in HeadNodes
  BY ZenonT(60), <1>2 DEF NodeInOrder
<1>4. head.maxLsn \in Lsns /\ (head.replayedLsn = 0 \/ head.replayedLsn \in Lsns)
  BY <1>2, WalFacts
<1> QED BY <1>1, <1>2, <1>3, <1>4, ValuesAssumption DEF Lsns

\* Where a thread holds the lock, or waits for it, there is a head node.
LEMMA HeadThere ==
  ASSUME HeadInv
  PROVE  /\ vac.pc # "idle" => head # NONE
         /\ \A r \in Readers : rd[r].pc \notin {"idle", "done"} => head # NONE
  BY ZenonT(60) DEF HeadInv, NothingParsed

\* ApplyLsnList makes the version of the last record of the list.
LEMMA ApplyExact ==
  ASSUME TypeInv, HeadInv, StoreInv, head # NONE, vac.pc # "update",
         NEW t, Carries(t, head.replayedLsn, wal)
  PROVE  Apply(t) = Upto(wal, Last(t.list)) /\ Apply(t) \in Seq(Lsns)
<1>1. PICK low \in Nat : low = head.replayedLsn
  BY HeadFacts
<1>2. /\ t.replayedLsn = low /\ Last(t.list) \in Range(wal) /\ Last(t.list) > low
      /\ Lists(t.list, Range(wal), low, Last(t.list))
  BY <1>1 DEF Carries
<1>3. wal \in Seq(Nat) /\ Ascending(wal) /\ \A e \in Range(wal) : e \in Nat /\ e > 0
  BY WalFacts
<1>4. PICK high \in Nat : high = Last(t.list) /\ low <= high
  BY <1>2, <1>3
<1>5. Upto(wal, low) \o t.list = Upto(wal, high)
  <2>1. Lists(t.list, Range(wal), low, high) /\ low <= high
    BY <1>2, <1>4
  <2>2. wal \in Seq(Nat) /\ Ascending(wal)
    BY <1>3
  <2> QED BY ZenonT(60), <2>1, <2>2, UptoExtended
<1>6. Upto(wal, low) \in Seq(Lsns) /\ Upto(wal, high) \in Seq(Lsns)
  BY WalFacts
<1> DEFINE base == IF t.replayedLsn > 0 THEN GetPageFromRocksdb(t.replayedLsn) ELSE << >>
<1>7. base = Upto(wal, low)
  <2>1. CASE low > 0
    <3>1. low \in DOMAIN rocksdb
      BY <1>1, <2>1 DEF StoreInv
    <3>2. rocksdb[low] = Upto(wal, low)
      BY <3>1 DEF StoreInv, VersionsExact
    <3> QED BY <1>2, <2>1, <3>1, <3>2 DEF GetPageFromRocksdb
  <2>2. CASE low = 0
    <3>1. Upto(wal, 0) = << >>
      BY <1>3, UptoZero
    <3> QED BY <1>2, <2>2, <3>1
  <2> QED BY <2>1, <2>2
<1>8. base # NONE
  BY <1>6, <1>7, ValuesAssumption
<1>9. Apply(t) = base \o t.list
  BY ZenonT(60), <1>8 DEF Apply
<1> QED BY ZenonT(60), <1>4, <1>5, <1>6, <1>7, <1>9

-----------------------------------------------------------------------------
(***************************************************************************)
(* Steps in which a reader changes nothing but its own locals, and perhaps *)
(* headLock.                                                               *)
(***************************************************************************)
\* Such a step keeps the invariant if it keeps the reader's part of it.
LEMMA ReaderMoves ==
  ASSUME LogInv, NEW r \in Readers, NEW x \in ReaderLocals,
         rd' = [rd EXCEPT ![r] = x], UNCHANGED <<head, rocksdb, vac, wal>>,
         headLock' \in Readers \cup {Vacuumer, NONE}, LockInv',
         headLock' = Vacuumer <=> headLock = Vacuumer,
         rd[r].pc \notin {"update", "delete"},
         head = NONE => x.pc \in {"idle", "done"},
         ReaderInv(r)'
  PROVE  LogInv'
<1>1. rd \in [Readers -> ReaderLocals]
  BY DEF LogInv, TypeInv
<1>2. rd'[r] = x /\ \A u \in Readers \ {r} : rd'[u] = rd[u]
  BY <1>1
<1>3. TypeInv'
  BY <1>1 DEF LogInv, TypeInv
<1>4. HeadInv'
  <2>1. FreedUpTo' = FreedUpTo
    BY DEF FreedUpTo
  <2> QED BY <1>2, <2>1 DEF LogInv, HeadInv, NothingParsed
<1>5. StoreInv'
  BY DEF LogInv, StoreInv, VersionsExact
<1>6. \A u \in Readers : ReaderInv(u)'
  <2> SUFFICES ASSUME NEW u \in Readers \ {r} PROVE ReaderInv(u)'
    OBVIOUS
  <2>1. rd'[u] = rd[u] /\ ReaderInv(u)
    BY <1>2 DEF LogInv
  <2> QED BY <2>1 DEF ReaderInv
<1>7. VacuumerInv'
  BY DEF LogInv, VacuumerInv
<1>8. NoVersionLeaks'
  <2> SUFFICES ASSUME NEW l \in DOMAIN rocksdb
               PROVE  \/ l = head.replayedLsn
                      \/ \E u \in Readers :
                           \/ rd'[u].pc = "update" /\ l = Last(rd'[u].list)
                           \/ rd'[u].pc = "delete" /\ l = rd'[u].replayedLsn
                      \/ vac.pc \in {"delete", "update"} /\ l = Last(vac.list)
    BY DEF NoVersionLeaks
  <2> QED BY <1>2 DEF LogInv, NoVersionLeaks
<1> QED BY <1>3, <1>4, <1>5, <1>6, <1>7, <1>8 DEF LogInv

\* The step neither takes nor releases the lock.
LEMMA LockKept ==
  ASSUME LogInv, NEW r \in Readers, NEW x,
         rd' = [rd EXCEPT ![r] = x], UNCHANGED <<headLock, vac>>,
         rd[r].pc \in ReaderLocks <=> x.pc \in ReaderLocks
  PROVE  LockInv' /\ headLock' \in Readers \cup {Vacuumer, NONE}
<1>1. rd'[r] = x /\ \A u \in Readers \ {r} : rd'[u] = rd[u]
  BY DEF LogInv, TypeInv
<1>2. \A u \in Readers : rd[u].pc \in ReaderLocks <=> headLock = u
  BY ZenonT(60) DEF LogInv, LockInv
<1>3. \A u \in Readers : rd'[u].pc \in ReaderLocks <=> headLock' = u
  <2> SUFFICES ASSUME NEW u \in Readers PROVE rd'[u].pc \in ReaderLocks <=> headLock' = u
    OBVIOUS
  <2>1. CASE u = r
    BY <1>1, <1>2, <2>1
  <2>2. CASE u # r
    BY <1>1, <1>2, <2>2
  <2> QED BY <2>1, <2>2
<1> QED BY <1>3 DEF LogInv, LockInv, TypeInv

\* The locals of a reader have the fields of ReaderLocals.
LEMMA ReaderFields ==
  ASSUME TypeInv, NEW r \in Readers
  PROVE  /\ rd[r] = [pc |-> rd[r].pc, replayedLsn |-> rd[r].replayedLsn, list |-> rd[r].list,
                     page |-> rd[r].page, target |-> rd[r].target, seen |-> rd[r].seen]
         /\ rd[r].pc \in ReaderStates /\ rd[r].replayedLsn \in 0 .. MaxLsn
         /\ rd[r].list \in Seq(Lsns) /\ rd[r].page \in Pages
         /\ rd[r].target \in 0 .. MaxLsn /\ rd[r].seen \in Seq(Lsns)
<1>1. rd[r] \in ReaderLocals
  BY DEF TypeInv
<1> QED BY <1>1 DEF ReaderLocals

\* The LSNs a reader carries are numbers.
LEMMA ReaderNats ==
  ASSUME TypeInv, NEW r \in Readers
  PROVE  rd[r].replayedLsn \in Nat /\ rd[r].target \in Nat
<1>1. rd[r].replayedLsn \in 0 .. MaxLsn /\ rd[r].target \in 0 .. MaxLsn
  BY ZenonT(60), ReaderFields
<1> QED BY <1>1, ValuesAssumption

\* A record of ReaderLocals is told by its fields.
LEMMA RecordFields ==
  ASSUME NEW x \in ReaderLocals
  PROVE  x = [pc |-> x.pc, replayedLsn |-> x.replayedLsn, list |-> x.list, page |-> x.page,
              target |-> x.target, seen |-> x.seen]
  BY DEF ReaderLocals

\* What an assignment to pc leaves.
LEMMA PcSet ==
  ASSUME NEW x \in ReaderLocals, NEW pc
  PROVE  [x EXCEPT !.pc = pc] =
           [pc |-> pc, replayedLsn |-> x.replayedLsn, list |-> x.list, page |-> x.page,
            target |-> x.target, seen |-> x.seen]
<1>1. PICK b, c, d, e, f : /\ b = x.replayedLsn /\ c = x.list /\ d = x.page
                           /\ e = x.target /\ f = x.seen
  OBVIOUS
<1>2. PICK a : x = [pc |-> a, replayedLsn |-> b, list |-> c, page |-> d, target |-> e, seen |-> f]
  BY <1>1, RecordFields
<1>3. [x EXCEPT !.pc = pc] =
        [pc |-> pc, replayedLsn |-> b, list |-> c, page |-> d, target |-> e, seen |-> f]
  BY <1>2
<1> QED BY ZenonT(60), <1>1, <1>3

\* The same for an assignment to pc and page.
LEMMA PcAndPageSet ==
  ASSUME NEW x \in ReaderLocals, NEW pc, NEW page
  PROVE  [x EXCEPT !.pc = pc, !.page = page] =
           [pc |-> pc, replayedLsn |-> x.replayedLsn, list |-> x.list, page |-> page,
            target |-> x.target, seen |-> x.seen]
<1>1. PICK b, c, d, e, f : /\ b = x.replayedLsn /\ c = x.list /\ d = x.page
                           /\ e = x.target /\ f = x.seen
  OBVIOUS
<1>2. [x EXCEPT !.pc = pc, !.page = page] = [[x EXCEPT !.pc = pc] EXCEPT !.page = page]
  OBVIOUS
<1>3. [x EXCEPT !.pc = pc] =
        [pc |-> pc, replayedLsn |-> b, list |-> c, page |-> d, target |-> e, seen |-> f]
  BY ZenonT(60), <1>1, PcSet
<1>4. [[pc |-> pc, replayedLsn |-> b, list |-> c, page |-> d, target |-> e, seen |-> f]
         EXCEPT !.page = page] =
        [pc |-> pc, replayedLsn |-> b, list |-> c, page |-> page, target |-> e, seen |-> f]
  OBVIOUS
<1> QED BY ZenonT(60), <1>1, <1>2, <1>3, <1>4

\* Six values make the locals of a reader.
LEMMA LocalsOf ==
  ASSUME NEW pc \in ReaderStates, NEW lsn \in 0 .. MaxLsn, NEW list \in Seq(Lsns),
         NEW page \in Pages, NEW target \in 0 .. MaxLsn, NEW seen \in Seq(Lsns)
  PROVE  [pc |-> pc, replayedLsn |-> lsn, list |-> list, page |-> page, target |-> target,
          seen |-> seen] \in ReaderLocals
  BY DEF ReaderLocals

\* A request begins: without a head node it is answered from the file.
LEMMA ReadBufferCommonKeeps ==
  ASSUME LogInv, NEW r \in Readers, NEW target \in Lsns, ReadBufferCommon(r, target)
  PROVE  LogInv'
<1> DEFINE x == [pc |-> IF head = NONE THEN "done" ELSE "lock", replayedLsn |-> 0, list |-> << >>,
                 page |-> IF head = NONE THEN << >> ELSE NONE, target |-> target, seen |-> << >>]
<1>1. rd[r].pc = "idle" /\ UNCHANGED <<head, headLock, rocksdb, vac, wal>>
  BY DEF ReadBufferCommon
<1>2. rd' = [rd EXCEPT ![r] = x]
  BY DEF ReadBufferCommon
<1>3. x \in ReaderLocals
  <2>1. /\ 0 \in 0 .. MaxLsn /\ target \in 0 .. MaxLsn /\ << >> \in Seq(Lsns)
        /\ (IF head = NONE THEN << >> ELSE NONE) \in Pages
        /\ (IF head = NONE THEN "done" ELSE "lock") \in ReaderStates
    BY ValuesAssumption DEF Lsns, Pages, ReaderStates
  <2> QED BY ZenonT(60), <2>1, LocalsOf
<1>4. /\ x.pc \in {"done", "lock"} /\ x.list = << >> /\ (head = NONE => x.pc = "done")
  OBVIOUS
<1> HIDE DEF x
<1>5. LockInv' /\ headLock' \in Readers \cup {Vacuumer, NONE}
  BY ZenonT(60), <1>1, <1>2, <1>4, LockKept DEF ReaderLocks
<1>6. rd'[r] = x
  BY <1>2 DEF LogInv, TypeInv
<1>7. ReaderInv(r)'
  BY <1>4, <1>6 DEF ReaderInv, ReaderLocks
<1> QED BY ZenonT(60), <1>1, <1>2, <1>3, <1>4, <1>5, <1>7, ReaderMoves

\* A version is read from RocksDB, or found missing.
LEMMA FetchKeeps ==
  ASSUME LogInv, NEW r \in Readers, Fetch(r)
  PROVE  LogInv'
<1> DEFINE page == GetPageFromRocksdb(rd[r].replayedLsn)
           x == [pc |-> "done", replayedLsn |-> rd[r].replayedLsn, list |-> rd[r].list,
                 page |-> page, target |-> rd[r].target, seen |-> rd[r].seen]
<1>1. rd[r].pc = "fetch" /\ UNCHANGED <<head, headLock, rocksdb, vac, wal>>
  BY DEF Fetch
<1>2. TypeInv /\ rd \in [Readers -> ReaderLocals]
  BY DEF LogInv, TypeInv
<1>3. rd' = [rd EXCEPT ![r] = x]
  <2>1. rd' = [rd EXCEPT ![r] = [rd[r] EXCEPT !.pc = "done", !.page = page]]
    BY DEF Fetch
  <2>2. [rd[r] EXCEPT !.pc = "done", !.page = page] = x
    BY ZenonT(60), <1>2, PcAndPageSet
  <2> HIDE DEF x, page
  <2> QED BY ZenonT(60), <2>1, <2>2
<1>4. page \in Pages
  <2>1. \A l \in DOMAIN rocksdb : rocksdb[l] \in Pages
    <3>1. \A l \in DOMAIN rocksdb : l \in Nat /\ rocksdb[l] = Upto(wal, l)
      BY <1>2, WalFacts DEF LogInv, StoreInv, VersionsExact
    <3> QED BY <1>2, <3>1, WalFacts DEF Pages
  <2> QED BY <2>1 DEF GetPageFromRocksdb, Pages
<1>5. x \in ReaderLocals
  <2>1. "done" \in ReaderStates
    BY DEF ReaderStates
  <2> HIDE DEF page
  <2> QED BY <1>2, <1>4, <2>1, ReaderFields, LocalsOf
<1>6. x.pc = "done" /\ x.list = << >>
  BY <1>1 DEF LogInv, ReaderInv
<1> HIDE DEF x
<1>7. LockInv' /\ headLock' \in Readers \cup {Vacuumer, NONE}
  BY ZenonT(60), <1>1, <1>3, <1>6, LockKept DEF ReaderLocks
<1>8. rd'[r] = x
  BY <1>2, <1>3
<1>9. ReaderInv(r)'
  BY <1>6, <1>8 DEF ReaderInv, ReaderLocks
<1> QED BY ZenonT(60), <1>1, <1>3, <1>5, <1>6, <1>7, <1>9, ReaderMoves

\* A request ends.
LEMMA ReturnKeeps ==
  ASSUME LogInv, NEW r \in Readers, Return(r)
  PROVE  LogInv'
<1>1. /\ rd[r].pc = "done" /\ UNCHANGED <<head, headLock, rocksdb, vac, wal>>
      /\ rd' = [rd EXCEPT ![r] = IdleReader]
  BY DEF Return
<1>2. IdleReader \in ReaderLocals
  <2>1. 0 \in 0 .. MaxLsn /\ << >> \in Seq(Lsns) /\ NONE \in Pages /\ "idle" \in ReaderStates
    BY ValuesAssumption DEF Pages, ReaderStates
  <2> QED BY ZenonT(60), <2>1, LocalsOf DEF IdleReader
<1>3. IdleReader.pc = "idle" /\ IdleReader.list = << >>
  BY DEF IdleReader
<1>4. LockInv' /\ headLock' \in Readers \cup {Vacuumer, NONE}
  BY ZenonT(60), <1>1, <1>3, LockKept DEF ReaderLocks
<1>5. rd'[r] = IdleReader
  BY <1>1 DEF LogInv, TypeInv
<1>6. ReaderInv(r)'
  BY <1>3, <1>5 DEF ReaderInv, ReaderLocks
<1> QED BY ZenonT(60), <1>1, <1>2, <1>3, <1>4, <1>6, ReaderMoves

\* What holds of HashMapGetBlockReplayList's answer on a head that lists all
\* records after replayedLsn: a list ends at the last record up to the target.
ListAnswered(answer, low, w, target) ==
  /\ answer.found /\ answer.replayedLsn = low
  /\ Last(answer.list) \in Range(w) /\ Last(answer.list) > low
  /\ Lists(answer.list, Range(w), low, Last(answer.list))
  /\ Last(answer.list) <= target
  /\ \A e \in Range(w) : e <= target => e <= Last(answer.list)

\* An answer is a version and a list of records.
LEMMA AnswerFacts ==
  ASSUME NEW w \in Seq(Lsns), NEW h, ListsRecords(h, w, h.replayedLsn), NEW target \in Nat
  PROVE  /\ BlockReplayList(h, target).list \in Seq(Lsns)
         /\ BlockReplayList(h, target).replayedLsn \in 0 .. MaxLsn
         /\ BlockReplayList(h, target).list # << >> =>
              ListAnswered(BlockReplayList(h, target), h.replayedLsn, w, target)
<1>1. PICK list, v, low : /\ list = BlockReplayList(h, target).list
                          /\ v = BlockReplayList(h, target).replayedLsn /\ low = h.replayedLsn
  OBVIOUS
<1>2. Range(w) \subseteq Lsns /\ \A e \in Range(w) : e \in Nat
  BY ZenonT(60), LsnList
<1>3. /\ low = 0 \/ low \in Range(w)
      /\ Listed(h.lsnEntry, h.nextEle) \subseteq Range(w)
  BY ZenonT(60), <1>1 DEF ListsRecords
<1>4. low \in Nat /\ \A e : e = 0 \/ e \in Range(w) => e \in 0 .. MaxLsn
  BY <1>2, <1>3, ValuesAssumption DEF Lsns
<1>5. CASE low > target
  <2>1. list = << >> /\ Newest(v, Listed(h.lsnEntry, h.nextEle), target)
    BY ZenonT(60), <1>1, <1>2, <1>5, AnswerRecords
  <2>2. v = 0 \/ v \in Range(w)
    BY ZenonT(60), <1>3, <2>1 DEF Newest
  <2>3. list \in Seq(Lsns)
    BY <2>1
  <2> QED BY ZenonT(60), <1>1, <1>4, <2>1, <2>2, <2>3
<1>6. CASE low <= target
  <2>1. BlockReplayList(h, target).found /\ v = low /\ Lists(list, Range(w), low, target)
    BY ZenonT(60), <1>1, <1>2, <1>6, AnswerRecords
  <2>2. list \in Seq(Lsns)
    BY ZenonT(60), <1>2, <2>1, RecordsAreLsns
  <2>3. ASSUME list # << >>
        PROVE  /\ Last(list) \in Range(w) /\ Last(list) > low /\ Last(list) <= target
               /\ Lists(list, Range(w), low, Last(list))
               /\ \A e \in Range(w) : e <= target => e <= Last(list)
    BY ZenonT(60), <1>2, <1>4, <2>1, <2>3, ListReaches
  <2> QED BY ZenonT(60), <1>1, <1>3, <1>4, <2>1, <2>2, <2>3 DEF ListAnswered
<1> QED BY <1>4, <1>5, <1>6

\* The step takes the lock, releases it, or leaves it to nobody.
LEMMA LockPassed ==
  ASSUME LogInv, NEW r \in Readers, NEW x,
         rd' = [rd EXCEPT ![r] = x], UNCHANGED vac,
         headLock \in {r, NONE}, headLock' \in {r, NONE},
         x.pc \in ReaderLocks <=> headLock' = r
  PROVE  /\ LockInv' /\ headLock' \in Readers \cup {Vacuumer, NONE}
         /\ headLock # Vacuumer /\ headLock' # Vacuumer
<1>1. rd'[r] = x /\ \A u \in Readers \ {r} : rd'[u] = rd[u]
  BY DEF LogInv, TypeInv
<1>2. /\ \A u \in Readers : rd[u].pc \in ReaderLocks <=> headLock = u
      /\ vac.pc \in VacuumerLocks <=> headLock = Vacuumer
  BY ZenonT(60) DEF LogInv, LockInv
<1>3. \A u \in Readers : rd'[u].pc \in ReaderLocks <=> headLock' = u
  <2> SUFFICES ASSUME NEW u \in Readers PROVE rd'[u].pc \in ReaderLocks <=> headLock' = u
    OBVIOUS
  <2>1. CASE u = r
    BY <1>1, <2>1
  <2>2. CASE u # r
    BY <1>1, <1>2, <2>2, ThreadsAssumption
  <2> QED BY <2>1, <2>2
<1>4. headLock # Vacuumer /\ headLock' # Vacuumer
  BY ThreadsAssumption
<1> QED BY <1>2, <1>3, <1>4 DEF LockInv

\* A reader takes the lock, and keeps it if there is a list: the list goes up
\* to the last record before its target, since the head lists all of them.
LEMMA HashMapGetBlockReplayListKeeps ==
  ASSUME LogInv, NEW r \in Readers, HashMapGetBlockReplayList(r)
  PROVE  LogInv'
<1> DEFINE answer == BlockReplayList(head, rd[r].target)
           pc == IF ~ answer.found THEN "done" ELSE IF answer.list = << >> THEN "fetch" ELSE "apply"
           page == IF answer.found THEN NONE ELSE << >>
           x == [pc |-> pc, replayedLsn |-> answer.replayedLsn, list |-> answer.list,
                 page |-> page, target |-> rd[r].target, seen |-> wal]
<1>1. /\ rd[r].pc = "lock" /\ headLock = NONE /\ UNCHANGED <<head, rocksdb, vac, wal>>
      /\ headLock' = IF answer.list # << >> THEN r ELSE NONE
  BY DEF HashMapGetBlockReplayList
<1>2. rd' = [rd EXCEPT ![r] = x]
  BY ZenonT(60) DEF HashMapGetBlockReplayList
<1>3. TypeInv /\ LockInv /\ HeadInv
  BY ZenonT(60) DEF LogInv
<1>4. head # NONE
  BY <1>1, <1>3, HeadThere
<1>5. ListsRecords(head, wal, head.replayedLsn)
  BY <1>1, <1>3, <1>4, HeadFacts, ThreadsAssumption DEF FreedUpTo
<1>6. wal \in Seq(Lsns) /\ rd[r].target \in Nat /\ rd[r].target \in 0 .. MaxLsn
  <2>1. wal \in Seq(Lsns)
    BY ZenonT(60), <1>3, WalFacts
  <2>2. rd[r].target \in 0 .. MaxLsn
    BY ZenonT(60), <1>3, ReaderFields
  <2> QED BY <2>1, <2>2, ValuesAssumption
<1>7. /\ answer.list \in Seq(Lsns) /\ answer.replayedLsn \in 0 .. MaxLsn
      /\ answer.list # << >> => ListAnswered(answer, head.replayedLsn, wal, rd[r].target)
  BY <1>5, <1>6, AnswerFacts
<1>8. answer.list # << >> => answer.found
  BY ZenonT(60), <1>7 DEF ListAnswered
<1> HIDE DEF answer
<1>9. x \in ReaderLocals
  <2>1. pc \in ReaderStates /\ page \in Pages
    BY DEF ReaderStates, Pages
  <2> HIDE DEF pc, page
  <2> QED BY <1>6, <1>7, <2>1, LocalsOf
<1>10. /\ pc \in {"done", "fetch", "apply"}
       /\ pc = "apply" <=> answer.list # << >>
  BY <1>8
<1>11. /\ x.pc = pc /\ x.replayedLsn = answer.replayedLsn /\ x.list = answer.list
       /\ x.target = rd[r].target /\ x.seen = wal
  OBVIOUS
<1> HIDE DEF x, pc, page
<1>12. rd'[r] = x
  BY <1>2, <1>3 DEF TypeInv
<1>13. headLock' \in {r, NONE} /\ (x.pc \in ReaderLocks <=> headLock' = r)
  BY <1>1, <1>10, <1>11, ThreadsAssumption DEF ReaderLocks
<1>14. /\ LockInv' /\ headLock' \in Readers \cup {Vacuumer, NONE}
       /\ headLock # Vacuumer /\ headLock' # Vacuumer
  BY ZenonT(60), <1>1, <1>2, <1>13, LockPassed
<1>15. ReaderInv(r)'
  <2>1. CASE pc = "apply"
    <3>1. answer.list # << >> /\ ListAnswered(answer, head.replayedLsn, wal, rd[r].target)
      BY <1>7, <1>10, <2>1
    <3>2. Carries(x, head.replayedLsn, wal)
      BY <1>11, <2>1, <3>1 DEF Carries, ListAnswered
    <3>3. Reaches(x, wal)
      BY <1>11, <3>1 DEF Reaches, ListAnswered
    <3> QED BY <1>1, <1>11, <1>12, <2>1, <3>2, <3>3 DEF ReaderInv, ReaderLocks
  <2>2. CASE pc # "apply"
    BY <1>10, <1>11, <1>12, <2>2 DEF ReaderInv, ReaderLocks
  <2> QED BY <2>1, <2>2
<1> QED BY ZenonT(60), <1>1, <1>2, <1>4, <1>9, <1>14, <1>15, ReaderMoves

\* The page becomes the version of the last record of the list.
LEMMA ApplyLsnListKeeps ==
  ASSUME LogInv, NEW r \in Readers, ApplyLsnList(r)
  PROVE  LogInv'
<1> DEFINE page == Apply(rd[r])
           x == [pc |-> "put", replayedLsn |-> rd[r].replayedLsn, list |-> rd[r].list,
                 page |-> page, target |-> rd[r].target, seen |-> rd[r].seen]
<1>1. rd[r].pc = "apply" /\ UNCHANGED <<head, headLock, rocksdb, vac, wal>>
  BY DEF ApplyLsnList
<1>2. TypeInv /\ LockInv /\ HeadInv /\ StoreInv /\ ReaderInv(r) /\ rd \in [Readers -> ReaderLocals]
  BY ZenonT(60) DEF LogInv, TypeInv
<1>3. rd' = [rd EXCEPT ![r] = x]
  <2>1. rd' = [rd EXCEPT ![r] = [rd[r] EXCEPT !.pc = "put", !.page = page]]
    BY DEF ApplyLsnList
  <2>2. [rd[r] EXCEPT !.pc = "put", !.page = page] = x
    BY ZenonT(60), <1>2, PcAndPageSet
  <2> HIDE DEF x, page
  <2> QED BY ZenonT(60), <2>1, <2>2
<1>4. head # NONE
  BY <1>1, <1>2, HeadThere
<1>5. Carries(rd[r], head.replayedLsn, wal) /\ Reaches(rd[r], wal)
  BY <1>1, <1>2 DEF ReaderInv, ReaderLocks
<1>6. vac.pc # "update"
  BY <1>1, <1>2, ThreadsAssumption DEF LockInv, ReaderLocks, VacuumerLocks
<1>7. page = Upto(wal, Last(rd[r].list)) /\ page \in Seq(Lsns)
  BY <1>2, <1>4, <1>5, <1>6, ApplyExact
<1> HIDE DEF page
<1>8. x \in ReaderLocals
  <2>1. "put" \in ReaderStates /\ page \in Pages
    BY <1>7 DEF ReaderStates, Pages
  <2> QED BY <1>2, <2>1, ReaderFields, LocalsOf
<1>9. /\ x.pc = "put" /\ x.replayedLsn = rd[r].replayedLsn /\ x.list = rd[r].list
      /\ x.page = page /\ x.target = rd[r].target /\ x.seen = rd[r].seen
  OBVIOUS
<1> HIDE DEF x
<1>10. LockInv' /\ headLock' \in Readers \cup {Vacuumer, NONE}
  BY ZenonT(60), <1>1, <1>3, <1>9, LockKept DEF ReaderLocks
<1>11. rd'[r] = x
  BY <1>2, <1>3
<1>12. ReaderInv(r)'
  <2>1. Carries(x, head.replayedLsn, wal)
    BY <1>5, <1>7, <1>9 DEF Carries
  <2>2. Reaches(x, wal)
    BY <1>5, <1>9 DEF Reaches
  <2> QED BY <1>1, <1>9, <1>11, <2>1, <2>2 DEF ReaderInv, ReaderLocks
<1> QED BY ZenonT(60), <1>1, <1>3, <1>4, <1>8, <1>9, <1>10, <1>12, ReaderMoves

-----------------------------------------------------------------------------
(***************************************************************************)
(* Steps in which a reader changes the store or the head node.             *)
(***************************************************************************)
\* The reader r goes on to pc with the locals x and keeps its other locals.
MovesTo(r, pc, x) ==
  /\ rd' = [rd EXCEPT ![r] = x] /\ rd'[r] = x /\ rd' \in [Readers -> ReaderLocals]
  /\ x.pc = pc /\ x.replayedLsn = rd[r].replayedLsn /\ x.list = rd[r].list
  /\ x.page = rd[r].page /\ x.target = rd[r].target /\ x.seen = rd[r].seen
  /\ \A u \in Readers \ {r} : rd'[u] = rd[u]

\* An assignment to pc is such a step.
LEMMA PcMoves ==
  ASSUME TypeInv, NEW r \in Readers, NEW pc \in ReaderStates, rd' = [rd EXCEPT ![r].pc = pc]
  PROVE  \E x : MovesTo(r, pc, x)
<1> DEFINE x == [pc |-> pc, replayedLsn |-> rd[r].replayedLsn, list |-> rd[r].list,
                 page |-> rd[r].page, target |-> rd[r].target, seen |-> rd[r].seen]
<1>1. rd \in [Readers -> ReaderLocals]
  BY DEF TypeInv
<1>2. [rd[r] EXCEPT !.pc = pc] = x
  BY ZenonT(60), <1>1, PcSet
<1>3. x \in ReaderLocals
  BY ZenonT(60), ReaderFields, LocalsOf
<1>4. /\ x.pc = pc /\ x.replayedLsn = rd[r].replayedLsn /\ x.list = rd[r].list
      /\ x.page = rd[r].page /\ x.target = rd[r].target /\ x.seen = rd[r].seen
  OBVIOUS
<1>5. rd' = [rd EXCEPT ![r] = [rd[r] EXCEPT !.pc = pc]]
  OBVIOUS
<1> HIDE DEF x
<1>6. rd' = [rd EXCEPT ![r] = x]
  BY ZenonT(60), <1>2, <1>5
<1>7. rd'[r] = x /\ rd' \in [Readers -> ReaderLocals] /\ \A u \in Readers \ {r} : rd'[u] = rd[u]
  BY <1>1, <1>3, <1>6
<1> QED BY ZenonT(60), <1>4, <1>6, <1>7 DEF MovesTo

\* Who holds the lock: where the reader r does, nobody else.
LEMMA ReaderHolds ==
  ASSUME LockInv, NEW r \in Readers, rd[r].pc \in ReaderLocks
  PROVE  /\ headLock = r /\ headLock # Vacuumer /\ headLock # NONE /\ vac.pc \notin VacuumerLocks
         /\ \A u \in Readers \ {r} : rd[u].pc \notin ReaderLocks
<1>1. headLock = r
  BY DEF LockInv
<1> QED BY <1>1, ThreadsAssumption DEF LockInv

\* PutPage2Rocksdb stores one version and keeps the others.
LEMMA PutFacts ==
  ASSUME NEW lsn, NEW page, PutPage2Rocksdb(lsn, page)
  PROVE  /\ DOMAIN rocksdb' = DOMAIN rocksdb \cup {lsn} /\ rocksdb'[lsn] = page
         /\ \A l \in DOMAIN rocksdb \ {lsn} : rocksdb'[l] = rocksdb[l]
  BY DEF PutPage2Rocksdb

\* DeletePageFromRocksdb removes one version and keeps the others.
LEMMA DeleteFacts ==
  ASSUME NEW lsn, DeletePageFromRocksdb(lsn)
  PROVE  /\ DOMAIN rocksdb' = DOMAIN rocksdb \ {lsn}
         /\ \A l \in DOMAIN rocksdb' : rocksdb'[l] = rocksdb[l]
  BY DEF DeletePageFromRocksdb, Restrict

\* The new version is stored; it is the reader that accounts for it.
LEMMA PutKeeps ==
  ASSUME LogInv, NEW r \in Readers, Put(r)
  PROVE  LogInv'
<1> DEFINE lsn == Last(rd[r].list)
<1>1. /\ rd[r].pc = "put" /\ UNCHANGED <<head, headLock, vac, wal>>
      /\ PutPage2Rocksdb(lsn, rd[r].page) /\ rd' = [rd EXCEPT ![r].pc = "update"]
  BY DEF Put
<1>2. /\ TypeInv /\ LockInv /\ HeadInv /\ StoreInv /\ VacuumerInv /\ NoVersionLeaks
      /\ \A u \in Readers : ReaderInv(u)
  BY ZenonT(60) DEF LogInv
<1>3. PICK x :
        /\ rd' = [rd EXCEPT ![r] = x] /\ rd'[r] = x /\ rd' \in [Readers -> ReaderLocals]
        /\ x.pc = "update" /\ x.replayedLsn = rd[r].replayedLsn /\ x.list = rd[r].list
        /\ x.page = rd[r].page /\ x.target = rd[r].target /\ x.seen = rd[r].seen
        /\ \A u \in Readers \ {r} : rd'[u] = rd[u]
  <2>1. "update" \in ReaderStates
    BY DEF ReaderStates
  <2>2. \E x : MovesTo(r, "update", x)
    BY ZenonT(60), <1>1, <1>2, <2>1, PcMoves
  <2> QED BY ZenonT(60), <2>2 DEF MovesTo
<1>4. head # NONE
  BY <1>1, <1>2, HeadThere
<1>5. /\ headLock = r /\ headLock # Vacuumer /\ headLock # NONE /\ vac.pc \notin VacuumerLocks
      /\ \A u \in Readers \ {r} : rd[u].pc \notin ReaderLocks
  BY <1>1, <1>2, ReaderHolds DEF ReaderLocks
<1>6. Carries(rd[r], head.replayedLsn, wal) /\ Reaches(rd[r], wal)
  BY <1>1, <1>2 DEF ReaderInv, ReaderLocks
<1>7. lsn \in Range(wal) /\ rd[r].page = Upto(wal, lsn)
  BY <1>1, <1>6 DEF Carries
<1>8. /\ DOMAIN rocksdb' = DOMAIN rocksdb \cup {lsn} /\ rocksdb'[lsn] = Upto(wal, lsn)
      /\ \A l \in DOMAIN rocksdb \ {lsn} : rocksdb'[l] = rocksdb[l]
  BY <1>1, <1>7, PutFacts
<1>9. x.list = rd[r].list /\ lsn = Last(x.list)
  BY <1>3
<1> HIDE DEF lsn
<1>10. TypeInv'
  BY <1>1, <1>2, <1>3 DEF TypeInv
<1>11. LockInv'
  BY ZenonT(60), <1>1, <1>3, LockKept DEF ReaderLocks
<1>12. HeadInv'
  <2>1. FreedUpTo' = FreedUpTo
    BY <1>1 DEF FreedUpTo
  <2> QED BY <1>1, <1>2, <1>4, <2>1 DEF HeadInv
<1>13. StoreInv'
  BY <1>1, <1>2, <1>7, <1>8 DEF StoreInv, VersionsExact
<1>14. ASSUME NEW u \in Readers PROVE ReaderInv(u)'
  <2>1. CASE u = r
    <3>1. Carries(x, head.replayedLsn, wal) /\ Reaches(x, wal)
      BY <1>1, <1>3, <1>6 DEF Carries, Reaches
    <3> QED BY <1>1, <1>3, <1>8, <1>9, <2>1, <3>1 DEF ReaderInv, ReaderLocks
  <2>2. CASE u # r
    <3>1. rd'[u] = rd[u] /\ ReaderInv(u)
      BY <1>2, <1>3, <2>2
    <3> QED BY ZenonT(60), <1>1, <1>8, <3>1 DEF ReaderInv
  <2> QED BY <2>1, <2>2
<1>15. VacuumerInv'
  BY <1>1, <1>2, <1>5 DEF VacuumerInv, VacuumerLocks
<1>16. NoVersionLeaks'
  <2> SUFFICES ASSUME NEW l \in DOMAIN rocksdb'
               PROVE  \/ l = head.replayedLsn
                      \/ \E u \in Readers :
                           \/ rd'[u].pc = "update" /\ l = Last(rd'[u].list)
                           \/ rd'[u].pc = "delete" /\ l = rd'[u].replayedLsn
                      \/ vac.pc \in {"delete", "update"} /\ l = Last(vac.list)
    BY <1>1 DEF NoVersionLeaks
  <2>1. CASE l = lsn
    BY <1>3, <1>9, <2>1
  <2>2. CASE l # lsn
    BY <1>1, <1>2, <1>3, <1>8, <2>2 DEF NoVersionLeaks
  <2> QED BY <2>1, <2>2
<1> QED BY <1>10, <1>11, <1>12, <1>13, <1>14, <1>15, <1>16 DEF LogInv

\* The version a replay started from is older than the one replayedLsn names
\* by now, and than every version that is about to be published.
LEMMA DeleteKeeps ==
  ASSUME LogInv, NEW r \in Readers, Delete(r)
  PROVE  LogInv'
<1> DEFINE lsn == rd[r].replayedLsn
<1>1. /\ rd[r].pc = "delete" /\ UNCHANGED <<head, headLock, vac, wal>>
      /\ DeletePageFromRocksdb(lsn) /\ rd' = [rd EXCEPT ![r].pc = "done"]
  BY DEF Delete
<1>2. /\ TypeInv /\ LockInv /\ HeadInv /\ StoreInv /\ VacuumerInv /\ NoVersionLeaks
      /\ \A u \in Readers : ReaderInv(u)
  BY ZenonT(60) DEF LogInv
<1>3. PICK x :
        /\ rd' = [rd EXCEPT ![r] = x] /\ rd'[r] = x /\ rd' \in [Readers -> ReaderLocals]
        /\ x.pc = "done" /\ x.replayedLsn = rd[r].replayedLsn /\ x.list = rd[r].list
        /\ x.page = rd[r].page /\ x.target = rd[r].target /\ x.seen = rd[r].seen
        /\ \A u \in Readers \ {r} : rd'[u] = rd[u]
  <2>1. "done" \in ReaderStates
    BY DEF ReaderStates
  <2>2. \E x : MovesTo(r, "done", x)
    BY ZenonT(60), <1>1, <1>2, <2>1, PcMoves
  <2> QED BY ZenonT(60), <2>2 DEF MovesTo
<1>4. head # NONE
  BY <1>1, <1>2, HeadThere
<1>5. PICK low \in Nat : low = head.replayedLsn
  BY <1>2, <1>4, HeadFacts
<1>6. /\ DOMAIN rocksdb' = DOMAIN rocksdb \ {lsn}
      /\ \A l \in DOMAIN rocksdb' : rocksdb'[l] = rocksdb[l]
  BY ZenonT(60), <1>1, DeleteFacts
<1>7. lsn \in Nat /\ lsn < low
  <2>1. lsn < low
    BY <1>1, <1>2, <1>5 DEF ReaderInv
  <2>2. lsn \in Nat
    BY ZenonT(60), <1>2, ReaderNats
  <2> QED BY <2>1, <2>2
<1> HIDE DEF lsn
<1>8. \A t : Carries(t, head.replayedLsn, wal) => Last(t.list) # lsn
  <2> SUFFICES ASSUME NEW t, Carries(t, head.replayedLsn, wal) PROVE Last(t.list) # lsn
    OBVIOUS
  <2>1. Last(t.list) \in Range(wal) /\ Last(t.list) > low
    BY <1>5 DEF Carries
  <2>2. Last(t.list) \in Nat
    BY <1>2, <2>1, WalFacts
  <2> QED BY <1>7, <2>1, <2>2
<1>9. TypeInv'
  BY <1>1, <1>2, <1>3 DEF TypeInv
<1>10. LockInv'
  BY ZenonT(60), <1>1, <1>3, LockKept DEF ReaderLocks
<1>11. HeadInv'
  <2>1. FreedUpTo' = FreedUpTo
    BY <1>1 DEF FreedUpTo
  <2> QED BY <1>1, <1>2, <1>4, <2>1 DEF HeadInv
<1>12. StoreInv'
  <2>1. head.replayedLsn # lsn
    BY <1>5, <1>7
  <2> QED BY <1>1, <1>2, <1>6, <2>1 DEF StoreInv, VersionsExact
<1>13. ASSUME NEW u \in Readers PROVE ReaderInv(u)'
  <2>1. CASE u = r
    <3>1. Answered(x)
      BY <1>1, <1>2, <1>3 DEF ReaderInv, Answered
    <3> QED BY <1>3, <2>1, <3>1 DEF ReaderInv, ReaderLocks
  <2>2. CASE u # r
    <3>1. rd'[u] = rd[u] /\ ReaderInv(u)
      BY <1>2, <1>3, <2>2
    <3>2. rd[u].pc = "update" => Last(rd[u].list) \in DOMAIN rocksdb'
      BY <1>6, <1>8, <3>1 DEF ReaderInv, ReaderLocks
    <3> QED BY ZenonT(60), <1>1, <3>1, <3>2 DEF ReaderInv
  <2> QED BY <2>1, <2>2
<1>14. VacuumerInv'
  BY <1>1, <1>2, <1>6, <1>8 DEF VacuumerInv, VacuumerLocks
<1>15. NoVersionLeaks'
  <2> SUFFICES ASSUME NEW l \in DOMAIN rocksdb'
               PROVE  \/ l = head.replayedLsn
                      \/ \E u \in Readers :
                           \/ rd'[u].pc = "update" /\ l = Last(rd'[u].list)
                           \/ rd'[u].pc = "delete" /\ l = rd'[u].replayedLsn
                      \/ vac.pc \in {"delete", "update"} /\ l = Last(vac.list)
    BY <1>1 DEF NoVersionLeaks
  <2>1. l \in DOMAIN rocksdb /\ l # lsn
    BY <1>6
  <2> QED BY <1>1, <1>2, <1>3, <2>1 DEF NoVersionLeaks, lsn
<1> QED BY <1>9, <1>10, <1>11, <1>12, <1>13, <1>14, <1>15 DEF LogInv

\* The step to a later version in the head node: what is listed stays.
LEMMA ReplayedLsnSet ==
  ASSUME NEW h, NEW w \in Seq(Lsns), NEW low \in Nat, ListsRecords(h, w, low),
         NEW lsn \in Range(w), low <= lsn
  PROVE  LET g == [h EXCEPT !.replayedLsn = lsn]
         IN  g.replayedLsn = lsn /\ ListsRecords(g, w, lsn) /\ g \in HeadNodes
<1> DEFINE g == [h EXCEPT !.replayedLsn = lsn]
<1>1. w \in Seq(Nat) /\ \A e \in Range(w) : e \in Nat
  BY LsnList
<1>2. /\ NodeInOrder(h) /\ h.maxLsn \in Range(w) /\ \A e \in Range(w) : e <= h.maxLsn
      /\ Listed(h.lsnEntry, h.nextEle) \subseteq Range(w)
      /\ \A e \in Range(w) : e > low => e \in Listed(h.lsnEntry, h.nextEle)
  BY ZenonT(60) DEF ListsRecords
<1>3. /\ h \in HeadNodes /\ Chain(h.lsnEntry, h.nextEle) /\ Sizes(h.lsnEntry, h.nextEle)
      /\ \A e \in Listed(h.lsnEntry, h.nextEle) : e <= h.maxLsn
  BY ZenonT(60), <1>2 DEF NodeInOrder
<1>4. lsn \in Nat
  BY <1>1
<1>5. /\ g \in HeadNodes /\ g.lsnEntry = h.lsnEntry /\ g.nextEle = h.nextEle
      /\ g.maxLsn = h.maxLsn /\ g.replayedLsn = lsn
  BY ZenonT(60), <1>3, <1>4 DEF HeadNodes
<1> HIDE DEF g
<1>6. NodeInOrder(g)
  BY <1>3, <1>5 DEF NodeInOrder
<1>7. \A e \in Range(w) : e > lsn => e \in Listed(g.lsnEntry, g.nextEle)
  <2>1. \A e \in Range(w) : e > lsn => e > low
    BY <1>1, <1>4
  <2> QED BY <1>2, <1>5, <2>1
<1>8. ListsRecords(g, w, lsn)
  BY <1>2, <1>5, <1>6, <1>7 DEF ListsRecords
<1> QED BY <1>5, <1>8 DEF g

\* The new version is published and the lock released; from now on the reader
\* accounts for the old version, which it deletes.
LEMMA HashMapUpdateReplayedLsnKeeps ==
  ASSUME LogInv, NEW r \in Readers, HashMapUpdateReplayedLsn(r)
  PROVE  LogInv'
<1> DEFINE lsn == Last(rd[r].list)
           pc == IF rd[r].replayedLsn > 0 THEN "delete" ELSE "done"
<1>1. /\ rd[r].pc = "update" /\ UNCHANGED <<rocksdb, vac, wal>> /\ headLock' = NONE
      /\ head' = [head EXCEPT !.replayedLsn = Max({head.replayedLsn, lsn})]
      /\ rd' = [rd EXCEPT ![r].pc = pc]
  BY DEF HashMapUpdateReplayedLsn
<1>2. /\ TypeInv /\ LockInv /\ HeadInv /\ StoreInv /\ VacuumerInv /\ NoVersionLeaks
      /\ \A u \in Readers : ReaderInv(u)
  BY ZenonT(60) DEF LogInv
<1>3. PICK x :
        /\ rd' = [rd EXCEPT ![r] = x] /\ rd'[r] = x /\ rd' \in [Readers -> ReaderLocals]
        /\ x.pc = pc /\ x.replayedLsn = rd[r].replayedLsn /\ x.list = rd[r].list
        /\ x.page = rd[r].page /\ x.target = rd[r].target /\ x.seen = rd[r].seen
        /\ \A u \in Readers \ {r} : rd'[u] = rd[u]
  <2>1. pc \in ReaderStates
    BY DEF ReaderStates
  <2> HIDE DEF pc
  <2>2. \E x : MovesTo(r, pc, x)
    BY ZenonT(60), <1>1, <1>2, <2>1, PcMoves
  <2> QED BY ZenonT(60), <2>2 DEF MovesTo
<1>4. head # NONE
  BY <1>1, <1>2, HeadThere
<1>5. PICK low \in Nat : low = head.replayedLsn
  BY <1>2, <1>4, HeadFacts
<1>6. /\ headLock = r /\ headLock # Vacuumer /\ vac.pc \notin VacuumerLocks
      /\ \A u \in Readers \ {r} : rd[u].pc \notin ReaderLocks
  BY <1>1, <1>2, ReaderHolds DEF ReaderLocks
<1>7. Carries(rd[r], low, wal) /\ Reaches(rd[r], wal) /\ lsn \in DOMAIN rocksdb
  BY <1>1, <1>2, <1>5 DEF ReaderInv, ReaderLocks
<1>8. /\ rd[r].replayedLsn = low /\ lsn \in Range(wal) /\ lsn > low
      /\ rd[r].page = Upto(wal, lsn)
  BY <1>1, <1>7 DEF Carries
<1>9. /\ wal \in Seq(Lsns) /\ wal \in Seq(Nat) /\ Ascending(wal)
      /\ \A e \in Range(wal) : e \in Nat /\ e > 0
  BY <1>2, WalFacts
<1>10. rd[r].target \in Nat
  BY ZenonT(60), <1>2, ReaderNats
<1> HIDE DEF lsn
<1>11. lsn \in Nat
  BY <1>8, <1>9
<1>12. head' = [head EXCEPT !.replayedLsn = lsn]
  <2>1. Max({head.replayedLsn, lsn}) = lsn
    BY <1>5, <1>8, <1>11, MaxOfTwo
  <2> QED BY <1>1, <2>1
<1>13. ListsRecords(head, wal, low)
  <2>1. ListsRecords(head, wal, FreedUpTo)
    BY ZenonT(60), <1>2, <1>4, HeadFacts
  <2> QED BY <1>5, <1>6, <2>1 DEF FreedUpTo
<1>14. head'.replayedLsn = lsn /\ ListsRecords(head', wal, lsn) /\ head' # NONE
  <2>1. /\ [head EXCEPT !.replayedLsn = lsn].replayedLsn = lsn
        /\ ListsRecords([head EXCEPT !.replayedLsn = lsn], wal, lsn)
        /\ [head EXCEPT !.replayedLsn = lsn] \in HeadNodes
    <3>1. low <= lsn
      BY <1>8, <1>11
    <3> QED BY ZenonT(60), <1>8, <1>9, <1>13, <3>1, ReplayedLsnSet
  <2> QED BY ZenonT(60), <1>12, <2>1, ValuesAssumption
<1>15. TypeInv'
  BY <1>1, <1>2, <1>3 DEF TypeInv
<1>16. pc \in {"delete", "done"}
  OBVIOUS
<1>17. LockInv' /\ headLock' # Vacuumer
  <2>1. headLock \in {r, NONE} /\ headLock' \in {r, NONE} /\ (x.pc \in ReaderLocks <=> headLock' = r)
    BY <1>1, <1>3, <1>6, <1>16, ThreadsAssumption DEF ReaderLocks
  <2>2. rd' = [rd EXCEPT ![r] = x] /\ UNCHANGED vac
    BY ZenonT(60), <1>1, <1>3
  <2> QED BY ZenonT(60), <2>1, <2>2, LockPassed
<1>18. HeadInv'
  <2>1. FreedUpTo' = lsn
    BY <1>14, <1>17 DEF FreedUpTo
  <2> QED BY ZenonT(60), <1>1, <1>14, <2>1 DEF HeadInv
<1>19. StoreInv'
  BY <1>1, <1>2, <1>7, <1>14 DEF StoreInv, VersionsExact
<1>20. ASSUME NEW u \in Readers PROVE ReaderInv(u)'
  <2>1. CASE u = r
    <3>1. Upto(wal, lsn) = Upto(wal, rd[r].target)
      <4>1. lsn <= rd[r].target /\ \A e \in Range(wal) : e <= rd[r].target => e <= lsn
        BY <1>7 DEF Reaches, lsn
      <4> QED BY <1>9, <1>10, <1>11, <4>1, UptoSame
    <3>2. Answered(x)
      BY <1>3, <1>7, <1>8, <3>1 DEF Answered, Reaches
    <3>3. x.pc = "delete" => 0 < x.replayedLsn /\ x.replayedLsn < head'.replayedLsn
      BY <1>3, <1>8, <1>14
    <3> HIDE DEF pc
    <3> QED BY <1>3, <1>16, <2>1, <3>2, <3>3 DEF ReaderInv, ReaderLocks
  <2>2. CASE u # r
    <3>1. rd'[u] = rd[u] /\ ReaderInv(u) /\ rd[u].pc \notin ReaderLocks
      BY <1>2, <1>3, <1>6, <2>2
    <3>2. rd[u].pc = "delete" => 0 < rd[u].replayedLsn /\ rd[u].replayedLsn < head'.replayedLsn
      <4>1. rd[u].replayedLsn \in Nat
        BY ZenonT(60), <1>2, ReaderNats
      <4> QED BY <1>5, <1>8, <1>11, <1>14, <3>1, <4>1 DEF ReaderInv
    <3> QED BY <3>1, <3>2 DEF ReaderInv, ReaderLocks
  <2> QED BY <2>1, <2>2
<1>21. VacuumerInv'
  BY <1>1, <1>2, <1>6 DEF VacuumerInv, VacuumerLocks
<1>22. NoVersionLeaks'
  <2> SUFFICES ASSUME NEW l \in DOMAIN rocksdb
               PROVE  \/ l = head'.replayedLsn
                      \/ \E u \in Readers :
                           \/ rd'[u].pc = "update" /\ l = Last(rd'[u].list)
                           \/ rd'[u].pc = "delete" /\ l = rd'[u].replayedLsn
                      \/ vac.pc \in {"delete", "update"} /\ l = Last(vac.list)
    BY ZenonT(60), <1>1 DEF NoVersionLeaks
  <2>1. CASE l = low
    <3>1. l > 0
      BY <1>2, <1>9 DEF StoreInv
    <3> QED BY <1>3, <1>8, <2>1, <3>1
  <2>2. CASE l = lsn
    BY <1>14, <2>2
  <2>3. CASE l # low /\ l # lsn
    <3>1. \/ \E u \in Readers :
               \/ rd[u].pc = "update" /\ l = Last(rd[u].list)
               \/ rd[u].pc = "delete" /\ l = rd[u].replayedLsn
          \/ vac.pc \in {"delete", "update"} /\ l = Last(vac.list)
      BY <1>2, <1>5, <2>3 DEF NoVersionLeaks
    <3> QED BY <1>1, <1>3, <2>3, <3>1 DEF lsn
  <2> QED BY <2>1, <2>2, <2>3
<1> QED BY <1>15, <1>17, <1>18, <1>19, <1>20, <1>21, <1>22 DEF LogInv

-----------------------------------------------------------------------------
(***************************************************************************)
(* The startup thread.                                                     *)
(***************************************************************************)
\* Nobody holds the lock.
LEMMA NobodyHolds ==
  ASSUME LockInv, headLock \notin Readers, headLock # Vacuumer
  PROVE  vac.pc \notin VacuumerLocks /\ \A r \in Readers : rd[r].pc \notin ReaderLocks
  BY DEF LockInv

\* A later record is added, and the head node lists it.
LEMMA RecordAdded ==
  ASSUME LogInv, NEW lsn \in Lsns, \A e \in Range(wal) : e < lsn, wal' = Append(wal, lsn),
         UNCHANGED <<headLock, rocksdb, rd, vac>>, headLock \notin Readers, headLock # Vacuumer,
         head' # NONE, ListsRecords(head', wal', head'.replayedLsn),
         head'.replayedLsn = IF head = NONE THEN 0 ELSE head.replayedLsn
  PROVE  LogInv'
<1>1. /\ TypeInv /\ LockInv /\ HeadInv /\ StoreInv /\ VacuumerInv /\ NoVersionLeaks
      /\ \A r \in Readers : ReaderInv(r)
  BY ZenonT(60) DEF LogInv
<1>2. vac.pc \notin VacuumerLocks /\ \A r \in Readers : rd[r].pc \notin ReaderLocks
  BY ZenonT(60), <1>1, NobodyHolds
<1>3. /\ wal \in Seq(Lsns) /\ wal \in Seq(Nat) /\ Ascending(wal)
      /\ \A e \in Range(wal) : e \in Nat /\ e > 0
  BY ZenonT(60), <1>1, WalFacts
<1>4. lsn \in Nat
  BY ValuesAssumption DEF Lsns
<1>5. Ascending(wal') /\ Range(wal') = Range(wal) \cup {lsn} /\ wal' \in Seq(Lsns)
  <2>1. Ascending(wal') /\ Range(wal') = Range(wal) \cup {lsn}
    BY ZenonT(60), <1>3, <1>4, AppendAscending
  <2>2. wal' \in Seq(Lsns)
    BY <1>3
  <2> QED BY <2>1, <2>2
<1>6. TypeInv'
  BY <1>1, <1>5 DEF TypeInv
<1>7. LockInv'
  BY <1>1 DEF LockInv
<1>8. HeadInv'
  <2>1. FreedUpTo' = head'.replayedLsn
    BY DEF FreedUpTo
  <2> QED BY ZenonT(60), <2>1 DEF HeadInv
<1>9. head = NONE => NothingParsed
  BY ZenonT(60), <1>1 DEF HeadInv
<1>10. StoreInv'
  <2>1. DOMAIN rocksdb' \subseteq Range(wal')
    BY <1>1, <1>5 DEF StoreInv
  <2>2. VersionsExact'
    <3> SUFFICES ASSUME NEW l \in DOMAIN rocksdb PROVE rocksdb[l] = Upto(wal', l)
      BY DEF VersionsExact
    <3>1. l \in Range(wal) /\ rocksdb[l] = Upto(wal, l)
      BY <1>1 DEF StoreInv, VersionsExact
    <3>2. l \in Nat /\ l < lsn
      BY <1>3, <3>1
    <3>3. Upto(Append(wal, lsn), l) = Upto(wal, l)
      BY ZenonT(60), <1>3, <1>4, <3>2, UptoGrows
    <3> QED BY <3>1, <3>3
  <2>3. head'.replayedLsn > 0 /\ vac'.pc # "update" => head'.replayedLsn \in DOMAIN rocksdb'
    BY <1>1 DEF StoreInv
  <2> QED BY ZenonT(60), <2>1, <2>2, <2>3 DEF StoreInv
<1>11. ASSUME NEW r \in Readers PROVE ReaderInv(r)'
  <2>1. ReaderInv(r) /\ rd'[r] = rd[r] /\ rd[r].pc \notin ReaderLocks
    BY <1>1, <1>2
  <2>2. rd[r].pc = "delete" => head # NONE
    BY <1>1, HeadThere
  <2>3. rd[r].pc = "delete" => 0 < rd[r].replayedLsn /\ rd[r].replayedLsn < head'.replayedLsn
    BY <2>1, <2>2 DEF ReaderInv
  <2> QED BY <2>1, <2>3 DEF ReaderInv, ReaderLocks
<1>12. VacuumerInv'
  BY <1>1, <1>2 DEF VacuumerInv, VacuumerLocks
<1>13. NoVersionLeaks'
  <2>1. CASE head = NONE
    BY <1>9, <2>1 DEF NoVersionLeaks, NothingParsed
  <2>2. CASE head # NONE
    <3>1. head'.replayedLsn = head.replayedLsn
      BY <2>2
    <3> QED BY ZenonT(60), <1>1, <3>1 DEF NoVersionLeaks
  <2> QED BY <2>1, <2>2
<1> QED BY <1>6, <1>7, <1>8, <1>10, <1>11, <1>12, <1>13 DEF LogInv

\* A record is parsed: into a new head node, or, when nobody holds the lock,
\* into the one there is.
LEMMA ParseKeeps ==
  ASSUME LogInv, NEW lsn \in Lsns, ParseXLogBlocksLsn(lsn)
  PROVE  LogInv'
<1>1. /\ \A i \in DOMAIN wal : wal[i] <= lsn
      /\ head = NONE \/ headLock = NONE
      /\ head' = IF head = NONE THEN NewHead(lsn) ELSE Inserted(head, lsn)
      /\ wal' = IF lsn \in Range(wal) THEN wal ELSE Append(wal, lsn)
      /\ UNCHANGED <<headLock, rocksdb, rd, vac>>
  BY DEF ParseXLogBlocksLsn
<1>2. TypeInv /\ LockInv /\ HeadInv
  BY ZenonT(60) DEF LogInv
<1>3. /\ wal \in Seq(Lsns) /\ wal \in Seq(Nat) /\ Ascending(wal)
      /\ \A e \in Range(wal) : e \in Nat /\ e > 0
  BY ZenonT(60), <1>2, WalFacts
<1>4. lsn \in Nat
  BY ValuesAssumption DEF Lsns
<1>5. \A e \in Range(wal) : e <= lsn
  BY <1>1 DEF Range
<1>6. lsn \notin Range(wal) => \A e \in Range(wal) : e < lsn
  BY <1>3, <1>4, <1>5
<1>7. CASE head = NONE
  <2>1. /\ wal = << >> /\ vac.pc = "idle" /\ \A r \in Readers : rd[r].pc \in {"idle", "done"}
    BY ZenonT(60), <1>2, <1>7 DEF HeadInv, NothingParsed
  <2>2. headLock \notin Readers /\ headLock # Vacuumer
    BY <1>2, <2>1 DEF LockInv, ReaderLocks, VacuumerLocks
  <2>3. Range(wal) = {}
    BY <2>1 DEF Range
  <2>4. wal' = Append(wal, lsn) /\ Range(wal') = {lsn}
    <3>1. wal' = Append(wal, lsn)
      BY <1>1, <2>3
    <3>2. Range(Append(wal, lsn)) = Range(wal) \cup {lsn}
      BY ZenonT(60), <1>3, <1>4, <2>3, AppendAscending
    <3> QED BY <2>3, <3>1, <3>2
  <2>5. head' = NewHead(lsn)
    BY <1>1, <1>7
  <2>9. ListsRecords(head', wal', 0) /\ head'.replayedLsn = 0
    BY ZenonT(60), <1>4, <2>4, <2>5, NewHeadLists
  <2>10. head' # NONE
    BY ZenonT(60), <2>9, ValuesAssumption DEF ListsRecords, NodeInOrder
  <2> QED BY <1>1, <1>7, <2>2, <2>3, <2>4, <2>9, <2>10, RecordAdded
<1>8. CASE head # NONE
  <2>1. headLock = NONE /\ headLock \notin Readers /\ headLock # Vacuumer
    BY <1>1, <1>8, ThreadsAssumption
  <2>2. ListsRecords(head, wal, head.replayedLsn)
    BY <1>2, <1>8, <2>1, HeadFacts DEF FreedUpTo
  <2>3. /\ NodeInOrder(head) /\ head.maxLsn \in Range(wal) /\ \A e \in Range(wal) : e <= head.maxLsn
        /\ head.replayedLsn = 0 \/ head.replayedLsn \in Range(wal)
        /\ Listed(head.lsnEntry, head.nextEle) \subseteq Range(wal)
        /\ \A e \in Range(wal) : e > head.replayedLsn => e \in Listed(head.lsnEntry, head.nextEle)
    BY ZenonT(60), <2>2 DEF ListsRecords
  <2>4. head' = Inserted(head, lsn)
    BY <1>1, <1>8
  <2>5. /\ NodeInOrder(head') /\ head'.replayedLsn = head.replayedLsn
        /\ lsn <= head.maxLsn => head' = head
        /\ lsn > head.maxLsn =>
             /\ head'.maxLsn = lsn
             /\ Listed(head'.lsnEntry, head'.nextEle) = Listed(head.lsnEntry, head.nextEle) \cup {lsn}
    <3>1. Inserts(Inserted(head, lsn), head, lsn)
      BY ZenonT(60), <1>4, <2>3, InsertedInserts
    <3>2. Inserts(head', head, lsn)
      BY ZenonT(60), <2>4, <3>1
    <3> QED BY ZenonT(60), <3>2 DEF Inserts
  <2>6. CASE lsn \in Range(wal)
    <3>1. head' = head /\ wal' = wal
      BY <1>1, <2>3, <2>5, <2>6
    <3> QED BY ZenonT(60), <1>1, <3>1 DEF LogInv, TypeInv, LockInv, HeadInv, NothingParsed, FreedUpTo, StoreInv,
                              VersionsExact, ReaderInv, VacuumerInv, NoVersionLeaks
  <2>7. CASE lsn \notin Range(wal)
    <3>1. \A e \in Range(wal) : e < lsn
      BY <1>6, <2>7
    <3>2. wal' = Append(wal, lsn)
      BY <1>1, <2>7
    <3>3. Range(wal') = Range(wal) \cup {lsn}
      BY ZenonT(60), <1>3, <1>4, <3>1, <3>2, AppendAscending
    <3>4. head.maxLsn < lsn
      BY <2>3, <3>1
    <3>5. lsn > head.maxLsn
      BY <1>3, <1>4, <2>3, <3>4
    <3>6. /\ head'.maxLsn = lsn
          /\ Listed(head'.lsnEntry, head'.nextEle) = Listed(head.lsnEntry, head.nextEle) \cup {lsn}
      BY ZenonT(60), <2>5, <3>5
    <3>7. \A e \in Range(wal') : e <= lsn
      BY <1>4, <1>5, <3>3
    <3>8. ListsRecords(head', wal', head'.replayedLsn)
      BY <2>3, <2>5, <3>3, <3>6, <3>7 DEF ListsRecords
    <3>9. head' # NONE
      BY ZenonT(60), <2>5, ValuesAssumption DEF NodeInOrder
    <3> QED BY <1>1, <1>8, <2>1, <2>5, <3>1, <3>2, <3>8, <3>9, RecordAdded
  <2> QED BY <2>6, <2>7
<1> QED BY <1>7, <1>8

-----------------------------------------------------------------------------
(***************************************************************************)
(* The background thread.                                                  *)
(***************************************************************************)
\* The locals of the background thread have the fields of VacuumerLocals.
LEMMA VacuumerFields ==
  ASSUME TypeInv
  PROVE  /\ vac = [pc |-> vac.pc, replayedLsn |-> vac.replayedLsn, list |-> vac.list,
                   page |-> vac.page]
         /\ vac.pc \in VacuumerStates /\ vac.replayedLsn \in 0 .. MaxLsn
         /\ vac.list \in Seq(Lsns) /\ vac.page \in Pages
<1>1. vac \in VacuumerLocals
  BY DEF TypeInv
<1> QED BY <1>1 DEF VacuumerLocals

\* Four values make such locals.
LEMMA VacuumerLocalsOf ==
  ASSUME NEW pc \in VacuumerStates, NEW lsn \in 0 .. MaxLsn, NEW list \in Seq(Lsns),
         NEW page \in Pages
  PROVE  [pc |-> pc, replayedLsn |-> lsn, list |-> list, page |-> page] \in VacuumerLocals
  BY DEF VacuumerLocals

\* What an assignment to pc leaves.
LEMMA VacuumerPcSet ==
  ASSUME TypeInv, NEW pc
  PROVE  [vac EXCEPT !.pc = pc] =
           [pc |-> pc, replayedLsn |-> vac.replayedLsn, list |-> vac.list, page |-> vac.page]
<1>1. PICK b, c, d : b = vac.replayedLsn /\ c = vac.list /\ d = vac.page
  OBVIOUS
<1>2. PICK a : vac = [pc |-> a, replayedLsn |-> b, list |-> c, page |-> d]
  BY <1>1, VacuumerFields
<1>3. [vac EXCEPT !.pc = pc] = [pc |-> pc, replayedLsn |-> b, list |-> c, page |-> d]
  BY <1>2
<1> QED BY ZenonT(60), <1>1, <1>3

\* The same for an assignment to pc and page.
LEMMA VacuumerPcAndPageSet ==
  ASSUME TypeInv, NEW pc, NEW page
  PROVE  [vac EXCEPT !.pc = pc, !.page = page] =
           [pc |-> pc, replayedLsn |-> vac.replayedLsn, list |-> vac.list, page |-> page]
<1>1. PICK b, c, d : b = vac.replayedLsn /\ c = vac.list /\ d = vac.page
  OBVIOUS
<1>2. [vac EXCEPT !.pc = pc, !.page = page] = [[vac EXCEPT !.pc = pc] EXCEPT !.page = page]
  OBVIOUS
<1>3. [vac EXCEPT !.pc = pc] = [pc |-> pc, replayedLsn |-> b, list |-> c, page |-> d]
  BY ZenonT(60), <1>1, VacuumerPcSet
<1>4. [[pc |-> pc, replayedLsn |-> b, list |-> c, page |-> d] EXCEPT !.page = page] =
        [pc |-> pc, replayedLsn |-> b, list |-> c, page |-> page]
  OBVIOUS
<1> QED BY ZenonT(60), <1>1, <1>2, <1>3, <1>4

\* The background thread goes on to pc and keeps its other locals.
LEMMA VacuumerMovesTo ==
  ASSUME TypeInv, NEW pc \in VacuumerStates, vac' = [vac EXCEPT !.pc = pc]
  PROVE  /\ vac' \in VacuumerLocals /\ vac'.pc = pc /\ vac'.replayedLsn = vac.replayedLsn
         /\ vac'.list = vac.list /\ vac'.page = vac.page
<1> DEFINE y == [pc |-> pc, replayedLsn |-> vac.replayedLsn, list |-> vac.list, page |-> vac.page]
<1>1. vac' = y
  BY ZenonT(60), VacuumerPcSet
<1>2. y \in VacuumerLocals
  BY ZenonT(60), VacuumerFields, VacuumerLocalsOf
<1>3. /\ y.pc = pc /\ y.replayedLsn = vac.replayedLsn /\ y.list = vac.list /\ y.page = vac.page
  OBVIOUS
<1> QED BY ZenonT(60), <1>1, <1>2, <1>3

\* Idle is a state of the background thread.
LEMMA IdleFacts ==
  Idle \in VacuumerLocals /\ Idle.pc = "idle" /\ Idle.list = << >>
<1>1. 0 \in 0 .. MaxLsn /\ << >> \in Seq(Lsns) /\ NONE \in Pages /\ "idle" \in VacuumerStates
  BY ValuesAssumption DEF Pages, VacuumerStates
<1>2. Idle \in VacuumerLocals
  BY ZenonT(60), <1>1, VacuumerLocalsOf DEF Idle
<1> QED BY <1>2 DEF Idle

\* The background thread changes nothing but its own locals.
LEMMA VacuumerMoves ==
  ASSUME LogInv, vac' \in VacuumerLocals, UNCHANGED <<head, headLock, rocksdb, rd, wal>>,
         vac.pc \notin {"delete", "update"}, vac'.pc \notin {"delete", "update"},
         vac'.pc \in VacuumerLocks <=> vac.pc \in VacuumerLocks,
         vac.pc \in VacuumerLocks => vac'.list = vac.list,
         head # NONE, VacuumerInv'
  PROVE  LogInv'
<1>1. /\ TypeInv /\ LockInv /\ HeadInv /\ StoreInv /\ NoVersionLeaks
      /\ \A r \in Readers : ReaderInv(r)
  BY ZenonT(60) DEF LogInv
<1>2. TypeInv'
  BY <1>1 DEF TypeInv
<1>3. LockInv'
  BY <1>1 DEF LockInv
<1>4. HeadInv'
  <2>1. headLock = Vacuumer => vac.pc \in VacuumerLocks
    BY <1>1 DEF LockInv
  <2>2. FreedUpTo' = FreedUpTo
    BY <2>1 DEF FreedUpTo
  <2> QED BY ZenonT(60), <1>1, <2>2 DEF HeadInv
<1>5. StoreInv'
  BY <1>1 DEF StoreInv, VersionsExact
<1>6. \A r \in Readers : ReaderInv(r)'
  BY ZenonT(60), <1>1 DEF ReaderInv
<1>7. NoVersionLeaks'
  BY <1>1 DEF NoVersionLeaks
<1> QED BY ZenonT(60), <1>2, <1>3, <1>4, <1>5, <1>6, <1>7 DEF LogInv

\* The background thread notes the head node.
LEMMA CollectHeadKeeps ==
  ASSUME LogInv, CollectHead
  PROVE  LogInv'
<1>1. /\ vac.pc = "idle" /\ head # NONE /\ vac' = [vac EXCEPT !.pc = "lock"]
      /\ UNCHANGED <<head, headLock, rocksdb, rd, wal>>
  BY DEF CollectHead
<1>2. TypeInv /\ VacuumerInv
  BY ZenonT(60) DEF LogInv
<1>3. vac' \in VacuumerLocals /\ vac'.pc = "lock" /\ vac'.list = vac.list
  <2>1. "lock" \in VacuumerStates
    BY DEF VacuumerStates
  <2> QED BY ZenonT(60), <1>1, <1>2, <2>1, VacuumerMovesTo
<1>4. VacuumerInv'
  BY <1>1, <1>2, <1>3 DEF VacuumerInv, VacuumerLocks
<1> QED BY <1>1, <1>3, <1>4, VacuumerMoves DEF VacuumerLocks

\* The background thread leaves the head node out.
LEMMA SkipHeadKeeps ==
  ASSUME LogInv, SkipHead
  PROVE  LogInv'
<1>1. vac.pc = "lock" /\ vac' = Idle /\ UNCHANGED <<head, headLock, rocksdb, rd, wal>>
  BY DEF SkipHead
<1>2. vac' \in VacuumerLocals /\ vac'.pc = "idle" /\ vac'.list = << >>
  BY <1>1, IdleFacts
<1>3. head # NONE
  BY <1>1, HeadThere DEF LogInv
<1>4. VacuumerInv'
  BY <1>2 DEF VacuumerInv, VacuumerLocks
<1> QED BY <1>1, <1>2, <1>3, <1>4, VacuumerMoves DEF VacuumerLocks

\* Who holds the lock: where the background thread does, no reader.
LEMMA VacuumerHolds ==
  ASSUME LockInv, vac.pc \in VacuumerLocks
  PROVE  headLock = Vacuumer /\ \A r \in Readers : rd[r].pc \notin ReaderLocks
<1>1. headLock = Vacuumer
  BY DEF LockInv
<1> QED BY <1>1, ThreadsAssumption DEF LockInv

\* The page becomes the version of the last record collected.
LEMMA BackgroundApplyKeeps ==
  ASSUME LogInv, BackgroundApply
  PROVE  LogInv'
<1> DEFINE page == Apply(vac)
<1>1. /\ vac.pc = "apply" /\ vac' = [vac EXCEPT !.pc = "put", !.page = page]
      /\ UNCHANGED <<head, headLock, rocksdb, rd, wal>>
  BY DEF BackgroundApply
<1>2. TypeInv /\ HeadInv /\ StoreInv /\ VacuumerInv
  BY ZenonT(60) DEF LogInv
<1>3. head # NONE
  BY <1>1, <1>2, HeadThere
<1>4. Carries(vac, head.replayedLsn, wal)
  BY <1>1, <1>2 DEF VacuumerInv, VacuumerLocks
<1>5. page = Upto(wal, Last(vac.list)) /\ page \in Seq(Lsns)
  BY ZenonT(60), <1>1, <1>2, <1>3, <1>4, ApplyExact
<1> HIDE DEF page
<1> DEFINE y == [pc |-> "put", replayedLsn |-> vac.replayedLsn, list |-> vac.list, page |-> page]
<1>6. vac' = y
  BY ZenonT(60), <1>1, <1>2, VacuumerPcAndPageSet
<1>7. y \in VacuumerLocals
  <2>1. "put" \in VacuumerStates /\ page \in Pages
    BY <1>5 DEF VacuumerStates, Pages
  <2> QED BY ZenonT(60), <1>2, <2>1, VacuumerFields, VacuumerLocalsOf
<1>8. y.pc = "put" /\ y.replayedLsn = vac.replayedLsn /\ y.list = vac.list /\ y.page = page
  OBVIOUS
<1> HIDE DEF y
<1>9. Carries(y, head.replayedLsn, wal)
  BY <1>4, <1>5, <1>8 DEF Carries
<1>10. VacuumerInv'
  BY <1>1, <1>6, <1>8, <1>9 DEF VacuumerInv, VacuumerLocks
<1> QED BY <1>1, <1>3, <1>6, <1>7, <1>8, <1>10, VacuumerMoves DEF VacuumerLocks

\* The background thread takes the lock, collects records and frees element
\* nodes: what the head node no longer lists is replayed or collected.
LEMMA BackgroundReplayHeadNodeKeeps ==
  ASSUME LogInv, BackgroundReplayHeadNode
  PROVE  LogInv'
<1> DEFINE list == Collected(head)
           low == head.replayedLsn
           upTo == IF list = << >> THEN low ELSE Last(list)
<1>1. /\ vac.pc = "lock" /\ headLock = NONE /\ UNCHANGED <<rocksdb, rd, wal>>
      /\ head' = IF head.nextEle = << >> THEN head ELSE [head EXCEPT !.nextEle = EleNodesKept(head)]
      /\ list = << >> => vac' = Idle /\ headLock' = headLock
      /\ list # << >> => /\ headLock' = Vacuumer
                         /\ vac' = [pc |-> "apply", replayedLsn |-> low, list |-> list,
                                    page |-> vac.page]
  BY ZenonT(60) DEF BackgroundReplayHeadNode
<1>2. /\ TypeInv /\ LockInv /\ HeadInv /\ StoreInv /\ VacuumerInv /\ NoVersionLeaks
      /\ \A r \in Readers : ReaderInv(r)
  BY ZenonT(60) DEF LogInv
<1>3. head # NONE
  BY <1>1, <1>2, HeadThere
<1>4. /\ ListsRecords(head, wal, low) /\ low \in Nat /\ low \in 0 .. MaxLsn
  <2>1. ListsRecords(head, wal, FreedUpTo) /\ low \in Nat /\ low \in 0 .. MaxLsn
    BY ZenonT(60), <1>2, <1>3, HeadFacts
  <2>2. FreedUpTo = low
    BY <1>1, ThreadsAssumption DEF FreedUpTo
  <2> QED BY ZenonT(60), <2>1, <2>2
<1>5. /\ wal \in Seq(Lsns) /\ \A e \in Range(wal) : e \in Nat /\ e > 0
  BY ZenonT(60), <1>2, WalFacts
<1>6. list # << >> =>
        /\ Last(list) \in Range(wal) /\ Last(list) > low
        /\ Lists(list, Range(wal), low, Last(list)) /\ list \in Seq(Lsns)
  <2>1. list # << >> => /\ Last(list) \in Range(wal) /\ Last(list) > low
                        /\ Lists(list, Range(wal), low, Last(list))
    BY ZenonT(60), <1>4, <1>5, CollectedRecords
  <2>2. Range(wal) \subseteq Lsns
    BY ZenonT(60), <1>5, LsnList
  <2> QED BY ZenonT(60), <2>1, <2>2, RecordsAreLsns
<1>7. upTo \in Nat /\ low <= upTo
  BY <1>4, <1>5, <1>6
<1>8. head' \in HeadNodes /\ head'.replayedLsn = low /\ ListsRecords(head', wal, upTo)
  <2>1. CASE head.nextEle = << >>
    <3>1. head' = head /\ head \in HeadNodes
      BY ZenonT(60), <1>1, <1>2, <1>3, <2>1, HeadFacts
    <3>2. \A e \in Range(wal) : e > upTo => e > low
      BY <1>4, <1>5, <1>7
    <3>3. ListsRecords(head, wal, upTo)
      BY ZenonT(60), <1>4, <3>2 DEF ListsRecords
    <3> QED BY ZenonT(60), <3>1, <3>3
  <2>2. CASE head.nextEle # << >>
    <3>1. head' = [head EXCEPT !.nextEle = EleNodesKept(head)]
      BY ZenonT(60), <1>1, <2>2
    <3> QED BY ZenonT(60), <1>4, <1>5, <1>7, <2>2, <3>1, KeptListsRecords
  <2> QED BY ZenonT(60), <2>1, <2>2
<1>9. head' # NONE
  BY ZenonT(60), <1>8, ValuesAssumption
<1>10. /\ list = << >> => vac'.pc = "idle" /\ vac'.list = << >> /\ vac' \in VacuumerLocals
       /\ list # << >> => /\ vac'.pc = "apply" /\ vac'.list = list /\ vac'.replayedLsn = low
                          /\ vac' \in VacuumerLocals
  <2>1. CASE list = << >>
    BY ZenonT(60), <1>1, <2>1, IdleFacts
  <2>2. CASE list # << >>
    <3>1. vac' = [pc |-> "apply", replayedLsn |-> low, list |-> list, page |-> vac.page]
      BY ZenonT(60), <1>1, <2>2
    <3>2. vac.page \in Pages /\ "apply" \in VacuumerStates /\ list \in Seq(Lsns)
      <4>1. "apply" \in VacuumerStates
        BY DEF VacuumerStates
      <4> QED BY ZenonT(60), <1>2, <1>6, <2>2, <4>1, VacuumerFields
    <3> HIDE DEF list, low
    <3>3. vac' \in VacuumerLocals
      BY ZenonT(60), <1>4, <3>1, <3>2, VacuumerLocalsOf
    <3>4. vac'.pc = "apply" /\ vac'.list = list /\ vac'.replayedLsn = low
      BY <3>1
    <3> QED BY ZenonT(60), <2>2, <3>3, <3>4
  <2> QED BY ZenonT(60), <2>1, <2>2
<1> HIDE DEF list
<1>11. vac.pc \notin VacuumerLocks /\ \A r \in Readers : rd[r].pc \notin ReaderLocks
  <2>1. headLock \notin Readers /\ headLock # Vacuumer
    BY <1>1, ThreadsAssumption
  <2> QED BY ZenonT(60), <1>2, <2>1, NobodyHolds
<1>12. TypeInv'
  <2>1. vac' \in VacuumerLocals
    BY ZenonT(60), <1>10
  <2>2. headLock' \in Readers \cup {Vacuumer, NONE}
    BY <1>1
  <2> QED BY <1>1, <1>2, <2>1, <2>2 DEF TypeInv
<1>13. LockInv'
  <2>1. vac'.pc \in VacuumerLocks <=> headLock' = Vacuumer
    BY <1>1, <1>10, ThreadsAssumption DEF VacuumerLocks
  <2>2. headLock' \notin Readers
    BY <1>1, ThreadsAssumption
  <2> QED BY <1>1, <1>11, <2>1, <2>2 DEF LockInv
<1>14. HeadInv'
  <2>1. FreedUpTo' = upTo
    BY <1>1, <1>8, <1>10, ThreadsAssumption DEF FreedUpTo
  <2> HIDE DEF upTo
  <2> QED BY ZenonT(60), <1>1, <1>8, <1>9, <2>1 DEF HeadInv
<1>15. StoreInv'
  <2>1. vac.pc # "update" /\ vac'.pc # "update"
    BY <1>1, <1>10
  <2> HIDE DEF low
  <2>2. low > 0 => low \in DOMAIN rocksdb
    BY <1>2, <1>3, <2>1 DEF StoreInv, low
  <2> QED BY <1>1, <1>2, <1>8, <2>2 DEF StoreInv, VersionsExact
<1>16. ASSUME NEW r \in Readers PROVE ReaderInv(r)'
  BY <1>1, <1>2, <1>8, <1>11 DEF ReaderInv, ReaderLocks
<1>17. VacuumerInv'
  <2>1. CASE list = << >>
    BY <1>10, <2>1 DEF VacuumerInv, VacuumerLocks
  <2>2. CASE list # << >>
    <3> HIDE DEF low
    <3>1. Carries(vac', low, wal)
      BY <1>6, <1>10, <2>2 DEF Carries
    <3> QED BY <1>1, <1>8, <1>10, <2>2, <3>1 DEF VacuumerInv, VacuumerLocks
  <2> QED BY <2>1, <2>2
<1>18. NoVersionLeaks'
  <2>1. vac.pc \notin {"delete", "update"}
    BY <1>1
  <2> QED BY ZenonT(60), <1>1, <1>2, <1>8, <2>1 DEF NoVersionLeaks
<1> QED BY ZenonT(60), <1>12, <1>13, <1>14, <1>15, <1>16, <1>17, <1>18 DEF LogInv

\* The new version is stored; the background thread accounts for it.
LEMMA BackgroundPutKeeps ==
  ASSUME LogInv, BackgroundPut
  PROVE  LogInv'
<1> DEFINE lsn == Last(vac.list)
           pc == IF vac.replayedLsn > 0 THEN "delete" ELSE "update"
<1>1. /\ vac.pc = "put" /\ UNCHANGED <<head, headLock, rd, wal>>
      /\ PutPage2Rocksdb(lsn, vac.page) /\ vac' = [vac EXCEPT !.pc = pc]
  BY DEF BackgroundPut
<1>2. /\ TypeInv /\ LockInv /\ HeadInv /\ StoreInv /\ VacuumerInv /\ NoVersionLeaks
      /\ \A r \in Readers : ReaderInv(r)
  BY ZenonT(60) DEF LogInv
<1>3. /\ vac' \in VacuumerLocals /\ vac'.pc = pc /\ vac'.replayedLsn = vac.replayedLsn
      /\ vac'.list = vac.list /\ vac'.page = vac.page
  <2>1. pc \in VacuumerStates
    BY DEF VacuumerStates
  <2> HIDE DEF pc
  <2> QED BY ZenonT(60), <1>1, <1>2, <2>1, VacuumerMovesTo
<1>4. head # NONE
  BY <1>1, <1>2, HeadThere
<1>5. vac.pc \in VacuumerLocks /\ headLock = Vacuumer
      /\ \A r \in Readers : rd[r].pc \notin ReaderLocks
  <2>1. vac.pc \in VacuumerLocks
    BY <1>1 DEF VacuumerLocks
  <2> QED BY ZenonT(60), <1>2, <2>1, VacuumerHolds
<1>6. Carries(vac, head.replayedLsn, wal)
  BY ZenonT(60), <1>2, <1>5 DEF VacuumerInv
<1>7. /\ lsn \in Range(wal) /\ vac.page = Upto(wal, lsn) /\ lsn > head.replayedLsn
      /\ vac.replayedLsn = head.replayedLsn
  BY <1>1, <1>6 DEF Carries
<1>8. /\ DOMAIN rocksdb' = DOMAIN rocksdb \cup {lsn} /\ rocksdb'[lsn] = Upto(wal, lsn)
      /\ \A l \in DOMAIN rocksdb \ {lsn} : rocksdb'[l] = rocksdb[l]
  <2> HIDE DEF lsn
  <2>1. PutPage2Rocksdb(lsn, Upto(wal, lsn))
    BY ZenonT(60), <1>1, <1>7
  <2> QED BY ZenonT(60), <2>1, PutFacts
<1>9. PICK low \in Nat : low = head.replayedLsn
  BY ZenonT(60), <1>2, <1>4, HeadFacts
<1>10. pc \in {"delete", "update"} /\ (pc = "delete" <=> low > 0)
  BY <1>7, <1>9
<1>11. lsn = Last(vac'.list)
  BY <1>3
<1> HIDE DEF lsn, pc
<1>12. TypeInv'
  BY <1>1, <1>2, <1>3 DEF TypeInv
<1>13. LockInv'
  <2>1. vac'.pc \in VacuumerLocks
    BY <1>3, <1>10 DEF VacuumerLocks
  <2> QED BY <1>1, <1>2, <1>5, <2>1 DEF LockInv
<1>14. HeadInv'
  <2>1. FreedUpTo' = FreedUpTo
    BY <1>1, <1>3 DEF FreedUpTo
  <2> QED BY ZenonT(60), <1>1, <1>2, <1>4, <2>1 DEF HeadInv
<1>15. StoreInv'
  <2>1. vac.pc # "update"
    BY <1>1
  <2> QED BY <1>1, <1>2, <1>7, <1>8, <2>1 DEF StoreInv, VersionsExact
<1>16. ASSUME NEW r \in Readers PROVE ReaderInv(r)'
  BY <1>1, <1>2, <1>5 DEF ReaderInv, ReaderLocks
<1>17. VacuumerInv'
  <2>1. Carries(vac', head.replayedLsn, wal)
    BY <1>1, <1>3, <1>6 DEF Carries
  <2>2. lsn \in DOMAIN rocksdb'
    BY <1>8
  <2>3. pc = "update" => head.replayedLsn \notin DOMAIN rocksdb'
    <3> SUFFICES ASSUME low = 0 PROVE low \notin DOMAIN rocksdb'
      BY <1>9, <1>10
    <3>1. \A e \in Range(wal) : e > 0
      BY ZenonT(60), <1>2, WalFacts
    <3>2. ~ (0 > 0)
      OBVIOUS
    <3> QED BY <1>2, <1>7, <1>8, <3>1, <3>2 DEF StoreInv
  <2>4. pc = "delete" => vac'.replayedLsn > 0
    BY <1>3, <1>7, <1>9, <1>10
  <2> QED BY <1>1, <1>3, <1>10, <1>11, <2>1, <2>2, <2>3, <2>4 DEF VacuumerInv, VacuumerLocks
<1>18. NoVersionLeaks'
  <2> SUFFICES ASSUME NEW l \in DOMAIN rocksdb'
               PROVE  \/ l = head.replayedLsn
                      \/ \E u \in Readers :
                           \/ rd[u].pc = "update" /\ l = Last(rd[u].list)
                           \/ rd[u].pc = "delete" /\ l = rd[u].replayedLsn
                      \/ vac'.pc \in {"delete", "update"} /\ l = Last(vac'.list)
    BY ZenonT(60), <1>1 DEF NoVersionLeaks
  <2>1. CASE l = lsn
    BY ZenonT(60), <1>3, <1>10, <1>11, <2>1
  <2>2. CASE l # lsn
    <3>1. l \in DOMAIN rocksdb /\ vac.pc \notin {"delete", "update"}
      BY <1>1, <1>8, <2>2
    <3> QED BY ZenonT(60), <1>2, <3>1 DEF NoVersionLeaks
  <2> QED BY ZenonT(60), <2>1, <2>2
<1> QED BY ZenonT(60), <1>12, <1>13, <1>14, <1>15, <1>16, <1>17, <1>18 DEF LogInv

\* The old version is deleted before the new one is published, under the lock.
LEMMA BackgroundDeleteKeeps ==
  ASSUME LogInv, BackgroundDelete
  PROVE  LogInv'
<1> DEFINE lsn == vac.replayedLsn
<1>1. /\ vac.pc = "delete" /\ UNCHANGED <<head, headLock, rd, wal>>
      /\ DeletePageFromRocksdb(lsn) /\ vac' = [vac EXCEPT !.pc = "update"]
  BY DEF BackgroundDelete
<1>2. /\ TypeInv /\ LockInv /\ HeadInv /\ StoreInv /\ VacuumerInv /\ NoVersionLeaks
      /\ \A r \in Readers : ReaderInv(r)
  BY ZenonT(60) DEF LogInv
<1>3. /\ vac' \in VacuumerLocals /\ vac'.pc = "update" /\ vac'.replayedLsn = vac.replayedLsn
      /\ vac'.list = vac.list /\ vac'.page = vac.page
  <2>1. "update" \in VacuumerStates
    BY DEF VacuumerStates
  <2> QED BY ZenonT(60), <1>1, <1>2, <2>1, VacuumerMovesTo
<1>4. head # NONE
  BY <1>1, <1>2, HeadThere
<1>5. vac.pc \in VacuumerLocks /\ headLock = Vacuumer
      /\ \A r \in Readers : rd[r].pc \notin ReaderLocks
  <2>1. vac.pc \in VacuumerLocks
    BY <1>1 DEF VacuumerLocks
  <2> QED BY ZenonT(60), <1>2, <2>1, VacuumerHolds
<1>6. Carries(vac, head.replayedLsn, wal) /\ Last(vac.list) \in DOMAIN rocksdb
  BY <1>1, <1>2, <1>5 DEF VacuumerInv
<1>7. PICK low \in Nat : low = head.replayedLsn
  BY ZenonT(60), <1>2, <1>4, HeadFacts
<1>8. lsn = low /\ Last(vac.list) > low /\ Last(vac.list) \in Range(wal)
  BY <1>6, <1>7 DEF Carries
<1>9. Last(vac.list) # lsn
  <2>1. Last(vac.list) \in Nat
    BY <1>2, <1>8, WalFacts
  <2> QED BY <1>8, <2>1
<1>10. /\ DOMAIN rocksdb' = DOMAIN rocksdb \ {lsn}
       /\ \A l \in DOMAIN rocksdb' : rocksdb'[l] = rocksdb[l]
  BY ZenonT(60), <1>1, DeleteFacts
<1> HIDE DEF lsn
<1>11. TypeInv'
  BY <1>1, <1>2, <1>3 DEF TypeInv
<1>12. LockInv'
  <2>1. vac'.pc \in VacuumerLocks
    BY <1>3 DEF VacuumerLocks
  <2> QED BY <1>1, <1>2, <1>5, <2>1 DEF LockInv
<1>13. HeadInv'
  <2>1. FreedUpTo' = FreedUpTo
    BY <1>1, <1>3 DEF FreedUpTo
  <2> QED BY ZenonT(60), <1>1, <1>2, <1>4, <2>1 DEF HeadInv
<1>14. StoreInv'
  BY <1>1, <1>2, <1>3, <1>10 DEF StoreInv, VersionsExact
<1>15. ASSUME NEW r \in Readers PROVE ReaderInv(r)'
  BY <1>1, <1>2, <1>5 DEF ReaderInv, ReaderLocks
<1>16. VacuumerInv'
  <2>1. Carries(vac', head.replayedLsn, wal)
    BY <1>1, <1>3, <1>6 DEF Carries
  <2>2. Last(vac'.list) \in DOMAIN rocksdb'
    BY <1>3, <1>6, <1>9, <1>10
  <2>3. head.replayedLsn \notin DOMAIN rocksdb'
    BY <1>7, <1>8, <1>10
  <2> QED BY <1>1, <1>3, <2>1, <2>2, <2>3 DEF VacuumerInv, VacuumerLocks
<1>17. NoVersionLeaks'
  <2> SUFFICES ASSUME NEW l \in DOMAIN rocksdb'
               PROVE  \/ l = head.replayedLsn
                      \/ \E u \in Readers :
                           \/ rd[u].pc = "update" /\ l = Last(rd[u].list)
                           \/ rd[u].pc = "delete" /\ l = rd[u].replayedLsn
                      \/ vac'.pc \in {"delete", "update"} /\ l = Last(vac'.list)
    BY ZenonT(60), <1>1 DEF NoVersionLeaks
  <2>1. l \in DOMAIN rocksdb
    BY <1>10
  <2> QED BY ZenonT(60), <1>2, <1>3, <2>1 DEF NoVersionLeaks
<1> QED BY ZenonT(60), <1>11, <1>12, <1>13, <1>14, <1>15, <1>16, <1>17 DEF LogInv

\* The new version is published: the records that the head node no longer
\* lists have been replayed.
LEMMA BackgroundUpdateKeeps ==
  ASSUME LogInv, BackgroundUpdate
  PROVE  LogInv'
<1> DEFINE lsn == Last(vac.list)
<1>1. /\ vac.pc = "update" /\ UNCHANGED <<rocksdb, rd, wal>> /\ headLock' = NONE /\ vac' = Idle
      /\ head' = [head EXCEPT !.replayedLsn = lsn]
  BY DEF BackgroundUpdate
<1>2. /\ TypeInv /\ LockInv /\ HeadInv /\ StoreInv /\ VacuumerInv /\ NoVersionLeaks
      /\ \A r \in Readers : ReaderInv(r)
  BY ZenonT(60) DEF LogInv
<1>3. head # NONE
  BY <1>1, <1>2, HeadThere
<1>4. vac.pc \in VacuumerLocks /\ headLock = Vacuumer
      /\ \A r \in Readers : rd[r].pc \notin ReaderLocks
  <2>1. vac.pc \in VacuumerLocks
    BY <1>1 DEF VacuumerLocks
  <2> QED BY ZenonT(60), <1>2, <2>1, VacuumerHolds
<1>5. /\ Carries(vac, head.replayedLsn, wal) /\ lsn \in DOMAIN rocksdb
      /\ head.replayedLsn \notin DOMAIN rocksdb
  BY <1>1, <1>2, <1>4 DEF VacuumerInv
<1>6. PICK low \in Nat : low = head.replayedLsn
  BY ZenonT(60), <1>2, <1>3, HeadFacts
<1>7. lsn \in Range(wal) /\ lsn > low
  BY <1>5, <1>6 DEF Carries
<1>8. wal \in Seq(Lsns) /\ lsn \in Nat
  BY <1>2, <1>7, WalFacts
<1>9. ListsRecords(head, wal, lsn)
  <2>1. ListsRecords(head, wal, FreedUpTo)
    BY ZenonT(60), <1>2, <1>3, HeadFacts
  <2>2. FreedUpTo = lsn
    BY <1>4 DEF FreedUpTo
  <2> QED BY ZenonT(60), <2>1, <2>2
<1> HIDE DEF lsn
<1>10. head'.replayedLsn = lsn /\ ListsRecords(head', wal, lsn) /\ head' # NONE
  <2>1. lsn <= lsn
    BY <1>8
  <2>2. /\ [head EXCEPT !.replayedLsn = lsn].replayedLsn = lsn
        /\ ListsRecords([head EXCEPT !.replayedLsn = lsn], wal, lsn)
        /\ [head EXCEPT !.replayedLsn = lsn] \in HeadNodes
    BY ZenonT(60), <1>7, <1>8, <1>9, <2>1, ReplayedLsnSet
  <2> QED BY ZenonT(60), <1>1, <2>2, ValuesAssumption
<1>11. vac' \in VacuumerLocals /\ vac'.pc = "idle" /\ vac'.list = << >>
  BY ZenonT(60), <1>1, IdleFacts
<1>12. TypeInv'
  BY <1>1, <1>2, <1>11 DEF TypeInv
<1>13. LockInv'
  BY <1>1, <1>4, <1>11, ThreadsAssumption DEF LockInv, VacuumerLocks
<1>14. HeadInv'
  <2>1. FreedUpTo' = lsn
    BY <1>1, <1>10, ThreadsAssumption DEF FreedUpTo
  <2> QED BY ZenonT(60), <1>1, <1>10, <2>1 DEF HeadInv
<1>15. StoreInv'
  BY <1>1, <1>2, <1>5, <1>10 DEF StoreInv, VersionsExact
<1>16. ASSUME NEW r \in Readers PROVE ReaderInv(r)'
  <2>1. ReaderInv(r) /\ rd'[r] = rd[r] /\ rd[r].pc \notin ReaderLocks
    BY <1>1, <1>2, <1>4
  <2>2. rd[r].pc = "delete" => 0 < rd[r].replayedLsn /\ rd[r].replayedLsn < head'.replayedLsn
    <3>1. rd[r].replayedLsn \in Nat
      BY ZenonT(60), <1>2, ReaderNats
    <3> QED BY <1>6, <1>7, <1>8, <1>10, <2>1, <3>1 DEF ReaderInv
  <2> QED BY <2>1, <2>2 DEF ReaderInv, ReaderLocks
<1>17. VacuumerInv'
  BY <1>11 DEF VacuumerInv, VacuumerLocks
<1>18. NoVersionLeaks'
  <2> SUFFICES ASSUME NEW l \in DOMAIN rocksdb
               PROVE  \/ l = head'.replayedLsn
                      \/ \E u \in Readers :
                           \/ rd[u].pc = "update" /\ l = Last(rd[u].list)
                           \/ rd[u].pc = "delete" /\ l = rd[u].replayedLsn
                      \/ vac'.pc \in {"delete", "update"} /\ l = Last(vac'.list)
    BY ZenonT(60), <1>1 DEF NoVersionLeaks
  <2>1. l # head.replayedLsn
    BY <1>5
  <2> QED BY ZenonT(60), <1>2, <1>10, <2>1 DEF NoVersionLeaks, lsn
<1> QED BY ZenonT(60), <1>12, <1>13, <1>14, <1>15, <1>16, <1>17, <1>18 DEF LogInv

-----------------------------------------------------------------------------
(***************************************************************************)
(* The invariant and what it says.                                         *)
(***************************************************************************)
\* The invariant holds before anything has been parsed.
LEMMA InitLogInv == Init => LogInv
<1> SUFFICES ASSUME Init PROVE LogInv
  OBVIOUS
<1>1. /\ head = NONE /\ headLock = NONE /\ rocksdb = << >> /\ vac = Idle /\ wal = << >>
      /\ rd = [r \in Readers |-> IdleReader]
  BY DEF Init
<1>2. DOMAIN rocksdb = {}
  BY <1>1
<1>3. IdleReader \in ReaderLocals /\ IdleReader.pc = "idle" /\ IdleReader.list = << >>
  <2>1. 0 \in 0 .. MaxLsn /\ << >> \in Seq(Lsns) /\ NONE \in Pages /\ "idle" \in ReaderStates
    BY ValuesAssumption DEF Pages, ReaderStates
  <2>2. IdleReader \in ReaderLocals
    BY ZenonT(60), <2>1, LocalsOf DEF IdleReader
  <2> QED BY <2>2 DEF IdleReader
<1>4. vac \in VacuumerLocals /\ vac.pc = "idle" /\ vac.list = << >>
  BY ZenonT(60), <1>1, IdleFacts
<1>5. \A r \in Readers : rd[r].pc = "idle" /\ rd[r].list = << >>
  BY <1>1, <1>3
<1>6. TypeInv
  <2>1. wal \in Seq(Lsns) /\ Ascending(wal)
    BY <1>1 DEF Ascending
  <2>2. rd \in [Readers -> ReaderLocals]
    BY <1>1, <1>3
  <2> QED BY <1>1, <1>4, <2>1, <2>2 DEF TypeInv
<1>7. LockInv
  BY <1>1, <1>4, <1>5, ThreadsAssumption DEF LockInv, ReaderLocks, VacuumerLocks
<1>8. HeadInv
  BY <1>1, <1>2, <1>4, <1>5 DEF HeadInv, NothingParsed
<1>9. StoreInv
  BY <1>1, <1>2 DEF StoreInv, VersionsExact
<1>10. \A r \in Readers : ReaderInv(r)
  BY <1>5 DEF ReaderInv, ReaderLocks
<1>11. VacuumerInv
  BY <1>4 DEF VacuumerInv, VacuumerLocks
<1>12. NoVersionLeaks
  BY <1>2 DEF NoVersionLeaks
<1> QED BY ZenonT(60), <1>6, <1>7, <1>8, <1>9, <1>10, <1>11, <1>12 DEF LogInv

\* Every step keeps the invariant.
LEMMA NextLogInv == LogInv /\ [Next]_vars => LogInv'
<1> SUFFICES ASSUME LogInv, [Next]_vars PROVE LogInv'
  OBVIOUS
<1>1. ASSUME NEW lsn \in Lsns, ParseXLogBlocksLsn(lsn) PROVE LogInv'
  BY ZenonT(60), <1>1, ParseKeeps
<1>2. ASSUME NEW r \in Readers, NEW target \in Lsns, ReadBufferCommon(r, target) PROVE LogInv'
  BY ZenonT(60), <1>2, ReadBufferCommonKeeps
<1>3. ASSUME NEW r \in Readers, HashMapGetBlockReplayList(r) PROVE LogInv'
  BY ZenonT(60), <1>3, HashMapGetBlockReplayListKeeps
<1>4. ASSUME NEW r \in Readers, ReaderProceeds(r) PROVE LogInv'
  <2>1. CASE Fetch(r)
    BY ZenonT(60), <2>1, FetchKeeps
  <2>2. CASE ApplyLsnList(r)
    BY ZenonT(60), <2>2, ApplyLsnListKeeps
  <2>3. CASE Put(r)
    BY ZenonT(60), <2>3, PutKeeps
  <2>4. CASE HashMapUpdateReplayedLsn(r)
    BY ZenonT(60), <2>4, HashMapUpdateReplayedLsnKeeps
  <2>5. CASE Delete(r)
    BY ZenonT(60), <2>5, DeleteKeeps
  <2>6. CASE Return(r)
    BY ZenonT(60), <2>6, ReturnKeeps
  <2> QED BY ZenonT(60), <1>4, <2>1, <2>2, <2>3, <2>4, <2>5, <2>6 DEF ReaderProceeds
<1>5. CASE CollectHead
  BY ZenonT(60), <1>5, CollectHeadKeeps
<1>6. CASE SkipHead
  BY ZenonT(60), <1>6, SkipHeadKeeps
<1>7. CASE BackgroundReplayHeadNode
  BY ZenonT(60), <1>7, BackgroundReplayHeadNodeKeeps
<1>8. CASE VacuumerProceeds
  <2>1. CASE BackgroundApply
    BY ZenonT(60), <2>1, BackgroundApplyKeeps
  <2>2. CASE BackgroundPut
    BY ZenonT(60), <2>2, BackgroundPutKeeps
  <2>3. CASE BackgroundDelete
    BY ZenonT(60), <2>3, BackgroundDeleteKeeps
  <2>4. CASE BackgroundUpdate
    BY ZenonT(60), <2>4, BackgroundUpdateKeeps
  <2> QED BY ZenonT(60), <1>8, <2>1, <2>2, <2>3, <2>4 DEF VacuumerProceeds
<1>9. CASE UNCHANGED vars
  <2>1. UNCHANGED <<head, headLock, rocksdb, rd, vac, wal>>
    BY ZenonT(60), <1>9 DEF vars
  <2> QED BY ZenonT(60), <2>1 DEF LogInv, TypeInv, LockInv, HeadInv, NothingParsed, FreedUpTo, StoreInv,
                      VersionsExact, ReaderInv, VacuumerInv, NoVersionLeaks
<1> QED BY ZenonT(60), <1>1, <1>2, <1>3, <1>4, <1>5, <1>6, <1>7, <1>8, <1>9 DEF Next

\* The inductive invariant of the page's versions holds throughout.
THEOREM LogInvariant == Spec => []LogInv
  BY PTL, InitLogInv, NextLogInv DEF Spec

\* A list of listed entries is a list of LSNs.
LEMMA ListedLsns ==
  ASSUME TypeInv, HeadInv, head # NONE
  PROVE  /\ head.lsnEntry \in Seq(Lsns)
         /\ \A i \in DOMAIN head.nextEle : head.nextEle[i] \in Seq(Lsns)
         /\ Len(head.lsnEntry) \in 1 .. HASH_HEAD_NUM
         /\ \A i \in DOMAIN head.nextEle : Len(head.nextEle[i]) \in 1 .. HASH_ELEM_NUM
<1>1. ListsRecords(head, wal, FreedUpTo) /\ NodeInOrder(head)
  BY ZenonT(60), HeadFacts
<1>2. Chain(head.lsnEntry, head.nextEle) /\ Sizes(head.lsnEntry, head.nextEle)
  BY ZenonT(60), <1>1 DEF NodeInOrder
<1>3. Listed(head.lsnEntry, head.nextEle) \subseteq Range(wal)
  BY ZenonT(60), <1>1 DEF ListsRecords
<1>4. Range(wal) \subseteq Lsns
  BY ZenonT(60), WalFacts
<1>5. PICK s, q : s = head.lsnEntry /\ q = head.nextEle
  OBVIOUS
<1>6. s \in Seq(Nat) /\ q \in Seq(Seq(Nat)) /\ Blocks(q, Len(q))
  BY ZenonT(60), <1>2, <1>5 DEF Chain
<1>7. PICK n \in Nat : n = Len(q) /\ DOMAIN q = 1 .. n
  BY <1>6
<1>8. Range(s) \subseteq Lsns /\ EntriesOf(q, n) \subseteq Lsns
  BY <1>3, <1>4, <1>5, <1>7 DEF Listed
<1>9. s \in Seq(Lsns)
  BY ZenonT(60), <1>6, <1>8, ListOver
<1>10. ASSUME NEW i \in 1 .. n PROVE q[i] \in Seq(Lsns)
  <2>1. q[i] \in Seq(Nat)
    BY <1>6, <1>7 DEF Blocks
  <2>2. \A e \in Range(q[i]) : e \in Nat
    BY <2>1, ListFacts
  <2>3. Range(q[i]) \subseteq EntriesOf(q, n)
    BY <2>2 DEF EntriesOf
  <2>4. Range(q[i]) \subseteq Lsns
    BY <1>8, <2>3
  <2> QED BY ZenonT(60), <2>1, <2>4, ListOver
<1>11. Len(s) \in 1 .. HASH_HEAD_NUM /\ \A i \in 1 .. n : Len(q[i]) \in 1 .. HASH_ELEM_NUM
  BY ZenonT(60), <1>2, <1>5, <1>7 DEF Sizes
<1> QED BY ZenonT(60), <1>5, <1>7, <1>9, <1>10, <1>11

\* Type correctness of the page's versions.
THEOREM LogIndexTypes == Spec => []LogIndexTypeOK
<1>1. LogInv => LogIndexTypeOK
  <2> SUFFICES ASSUME LogInv PROVE LogIndexTypeOK
    OBVIOUS
  <2>1. TypeInv /\ HeadInv /\ StoreInv
    BY ZenonT(60) DEF LogInv
  <2>2. head # NONE =>
          /\ head.lsnEntry \in Seq(Lsns) /\ Len(head.lsnEntry) \in 1 .. HASH_HEAD_NUM
          /\ \A i \in DOMAIN head.nextEle :
               /\ head.nextEle[i] \in Seq(Lsns)
               /\ Len(head.nextEle[i]) \in 1 .. HASH_ELEM_NUM
          /\ head.maxLsn \in Lsns
          /\ head.replayedLsn \in 0 .. MaxLsn
    BY ZenonT(60), <2>1, ListedLsns, HeadFacts
  <2>3. headLock \in Readers \cup {Vacuumer, NONE} /\ wal \in Seq(Lsns)
    BY ZenonT(60), <2>1 DEF TypeInv
  <2>4. Range(wal) \subseteq Lsns /\ \A e \in Range(wal) : e \in Nat
    BY ZenonT(60), <2>1, WalFacts
  <2>5. DOMAIN rocksdb \subseteq Range(wal) /\ VersionsExact
    BY ZenonT(60), <2>1 DEF StoreInv
  <2>6. DOMAIN rocksdb \subseteq Lsns
    BY ZenonT(60), <2>4, <2>5
  <2>7. ASSUME NEW lsn \in DOMAIN rocksdb PROVE rocksdb[lsn] \in Pages
    <3>1. rocksdb[lsn] = Upto(wal, lsn) /\ lsn \in Nat
      BY ZenonT(60), <2>4, <2>5 DEF VersionsExact
    <3>2. Upto(wal, lsn) \in Seq(Lsns)
      BY ZenonT(60), <2>1, <3>1, WalFacts
    <3> QED BY <3>1, <3>2 DEF Pages
  <2>8. ASSUME NEW r \in Readers
        PROVE  /\ rd[r].pc \in {"idle", "lock", "fetch", "apply", "put", "update", "delete", "done"}
               /\ rd[r].target \in 0 .. MaxLsn /\ rd[r].replayedLsn \in 0 .. MaxLsn
               /\ rd[r].list \in Seq(Lsns) /\ rd[r].page \in Pages
    BY ZenonT(60), <2>1, ReaderFields DEF ReaderStates
  <2>9. /\ vac.pc \in {"idle", "lock", "apply", "put", "delete", "update"}
        /\ vac.list \in Seq(Lsns) /\ vac.page \in Pages
    BY ZenonT(60), <2>1, VacuumerFields DEF VacuumerStates
  <2> QED BY ZenonT(60), <2>2, <2>3, <2>6, <2>7, <2>8, <2>9 DEF LogIndexTypeOK
<1> QED BY <1>1, LogInvariant, PTL

\* However the parser, the requests and the background thread interleave, a
\* stored version holds exactly the records up to its LSN, each once and in
\* order.
THEOREM VersionsAreExact == Spec => []VersionsExact
<1>1. LogInv => VersionsExact
  BY ZenonT(60) DEF LogInv, StoreInv
<1> QED BY <1>1, LogInvariant, PTL

\* Whoever takes headLock finds the version that replayedLsn names.
THEOREM ReplayedVersionIsStored == Spec => []ReplayedVersionStored
<1>1. LogInv => ReplayedVersionStored
  <2> SUFFICES ASSUME LogInv, head # NONE, headLock = NONE, head.replayedLsn > 0
               PROVE  head.replayedLsn \in DOMAIN rocksdb
    BY ZenonT(60) DEF ReplayedVersionStored
  <2>1. vac.pc # "update"
    BY ThreadsAssumption DEF LogInv, LockInv, VacuumerLocks
  <2> QED BY ZenonT(60), <2>1 DEF LogInv, StoreInv
<1> QED BY <1>1, LogInvariant, PTL

\* Freeing element nodes loses no record that is still to be replayed.
THEOREM UnreplayedIsKept == Spec => []UnreplayedKept
<1>1. LogInv => UnreplayedKept
  <2> SUFFICES ASSUME LogInv, head # NONE, headLock # Vacuumer
               PROVE  Beyond(Entries(head), head.replayedLsn) = Beyond(wal, head.replayedLsn)
    BY ZenonT(60) DEF UnreplayedKept
  <2>1. TypeInv /\ HeadInv
    BY ZenonT(60) DEF LogInv
  <2>2. PICK low \in Nat : low = head.replayedLsn
    BY ZenonT(60), <2>1, HeadFacts
  <2>3. ListsRecords(head, wal, FreedUpTo) /\ NodeInOrder(head)
    BY ZenonT(60), <2>1, HeadFacts
  <2>4. FreedUpTo = low
    BY <2>2 DEF FreedUpTo
  <2> DEFINE S == Listed(head.lsnEntry, head.nextEle)
             all == Entries(head)
  <2>5. S \subseteq Range(wal) /\ \A e \in Range(wal) : e > low => e \in S
    BY ZenonT(60), <2>3, <2>4 DEF ListsRecords
  <2>6. Chain(head.lsnEntry, head.nextEle)
    BY ZenonT(60), <2>3 DEF NodeInOrder
  <2>7. all \in Seq(Nat) /\ Ascending(all) /\ Range(all) = S
    BY ZenonT(60), <2>6, EntriesInOrder
  <2>8. wal \in Seq(Nat) /\ Ascending(wal)
    BY ZenonT(60), <2>1, WalFacts
  <2> HIDE DEF S, all
  <2>9. /\ Beyond(all, low) \in Seq(Nat) /\ Ascending(Beyond(all, low))
        /\ Range(Beyond(all, low)) = {e \in Range(all) : e > low}
    BY ZenonT(60), <2>7, UptoFacts
  <2>10. /\ Beyond(wal, low) \in Seq(Nat) /\ Ascending(Beyond(wal, low))
         /\ Range(Beyond(wal, low)) = {e \in Range(wal) : e > low}
    BY ZenonT(60), <2>8, UptoFacts
  <2>11. Range(Beyond(all, low)) = Range(Beyond(wal, low))
    BY <2>5, <2>7, <2>9, <2>10
  <2>12. Beyond(all, low) = Beyond(wal, low)
    BY ZenonT(60), <2>9, <2>10, <2>11, AscendingUnique
  <2> QED BY <2>2, <2>12 DEF all
<1> QED BY <1>1, LogInvariant, PTL

\* No stored version is left behind.
THEOREM NoVersionIsLeaked == Spec => []NoVersionLeaks
<1>1. LogInv => NoVersionLeaks
  BY ZenonT(60) DEF LogInv
<1> QED BY <1>1, LogInvariant, PTL

\* The page a request gets by replay holds exactly the records up to its
\* target that were parsed when it looked at the list.
THEOREM ReplayedAnswersAreExact == Spec => []ReplayedAnswerExact
<1>1. LogInv => ReplayedAnswerExact
  BY ZenonT(60) DEF LogInv, ReaderInv, Answered, ReplayedAnswerExact
<1> QED BY <1>1, LogInvariant, PTL
=============================================================================
