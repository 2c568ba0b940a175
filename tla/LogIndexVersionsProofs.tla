----------------------- MODULE LogIndexVersionsProofs -----------------------
(***************************************************************************)
(* What a request of the log index is given: the storage server implements *)
(* PageVersions (module LogIndexVersions), and every head node that can be *)
(* built answers with the right records (module HeadNodeSpec).             *)
(***************************************************************************)
EXTENDS LogIndexVersions, LogIndexProofs, HeadNodeSpec

\* A step that names no prover has 30 seconds of SMT.
USE SMTT(30)

\* What a request with the locals t is seen to have.
Shown(t) == IF t.pc \in {"delete", "done"} THEN t.page ELSE NONE

\* A thread has a target while it serves a request, and fetches no version
\* beyond it.
RequestOK(t) ==
  /\ t.pc = "idle" <=> t.target = 0
  /\ t.pc = "fetch" => t.replayedLsn <= t.target

RequestInv == \A r \in Readers : RequestOK(rd[r])

\* A step of PageVersions, or none.
VersionsStep ==
  Versions!Next \/ UNCHANGED <<wal, replayedVersion, readerTarget, readerPage>>

\* The records up to an LSN are the first ones.
LEMMA PrefixUpTo ==
  ASSUME NEW s \in Seq(Nat), Ascending(s), NEW lsn \in Nat
  PROVE  \E i \in 0 .. Len(s) :
           /\ Upto(s, lsn) = SubSeq(s, 1, i)
           /\ i > 0 => s[i] <= lsn
           /\ \A j \in i + 1 .. Len(s) : s[j] > lsn
<1>1. PICK c : c = LastUpTo(s, lsn)
  OBVIOUS
<1>2. IsLastUpTo(s, Len(s), lsn, c)
  BY ZenonT(60), <1>1, LastUpToFacts
<1>3. c \in 0 .. Len(s) /\ (\A i \in 1 .. c : s[i] <= lsn) /\ \A j \in c + 1 .. Len(s) : s[j] > lsn
  BY ZenonT(60), <1>2 DEF IsLastUpTo
<1>4. c > 0 => s[c] <= lsn
  <2>1. c > 0 => c \in 1 .. c
    BY <1>3
  <2> QED BY ZenonT(60), <1>3, <2>1
<1> QED BY ZenonT(60), <1>1, <1>3, <1>4 DEF Upto

\* The same for the LSN of a record.
LEMMA PrefixAt ==
  ASSUME NEW s \in Seq(Nat), Ascending(s), NEW lsn \in Nat, lsn \in Range(s)
  PROVE  \E i \in DOMAIN s :
           /\ s[i] = lsn /\ Upto(s, lsn) = SubSeq(s, 1, i)
           /\ \A j \in DOMAIN s : s[j] <= lsn => j <= i
<1>1. PICK n \in Nat : n = Len(s) /\ DOMAIN s = 1 .. n /\ s \in [1 .. n -> Nat]
  BY ZenonT(60), ListFacts
<1>2. PICK i \in 0 .. n : /\ Upto(s, lsn) = SubSeq(s, 1, i)
                          /\ i > 0 => s[i] <= lsn
                          /\ \A j \in i + 1 .. n : s[j] > lsn
  BY ZenonT(60), <1>1, PrefixUpTo
<1>3. PICK k \in 1 .. n : s[k] = lsn
  BY <1>1 DEF Range
<1>4. k <= i
  <2>1. k \in i + 1 .. n => s[k] > lsn
    BY ZenonT(60), <1>2
  <2> QED BY <1>2, <1>3, <2>1
<1>5. i \in 1 .. n /\ i > 0
  BY <1>2, <1>4
<1>6. s[i] = lsn
  <2>1. k < i => s[k] < s[i]
    BY ZenonT(60), <1>1, <1>5 DEF Ascending
  <2>2. s[i] \in Nat /\ s[i] <= lsn
    BY ZenonT(60), <1>1, <1>2, <1>5
  <2> QED BY <1>3, <1>4, <1>5, <2>1, <2>2
<1>7. ASSUME NEW j \in 1 .. n, s[j] <= lsn PROVE j <= i
  <2>1. j \in i + 1 .. n => s[j] > lsn
    BY ZenonT(60), <1>2
  <2>2. s[j] \in Nat
    BY ZenonT(60), <1>1
  <2> QED BY <1>5, <1>7, <2>1, <2>2
<1> QED BY ZenonT(60), <1>1, <1>2, <1>5, <1>6, <1>7

\* What is seen of the requests when one of them goes on.
LEMMA ViewsMove ==
  ASSUME TypeInv, NEW r \in Readers, NEW x, rd' = [rd EXCEPT ![r] = x]
  PROVE  /\ readerTarget' = [readerTarget EXCEPT ![r] = x.target]
         /\ readerPage' = [readerPage EXCEPT ![r] = Shown(x)]
         /\ readerTarget[r] = rd[r].target /\ readerPage[r] = Shown(rd[r])
<1>1. rd'[r] = x /\ \A u \in Readers \ {r} : rd'[u] = rd[u]
  BY DEF TypeInv
<1>2. /\ readerTarget = [u \in Readers |-> rd[u].target]
      /\ readerTarget' = [u \in Readers |-> rd'[u].target]
  BY DEF readerTarget
<1>3. /\ readerPage = [u \in Readers |-> Shown(rd[u])]
      /\ readerPage' = [u \in Readers |-> Shown(rd'[u])]
  BY ZenonT(60) DEF readerPage, Shown
<1>4. readerTarget' = [readerTarget EXCEPT ![r] = x.target]
  BY <1>1, <1>2
<1>5. readerPage' = [readerPage EXCEPT ![r] = Shown(x)]
  BY <1>1, <1>3
<1> QED BY ZenonT(60), <1>2, <1>3, <1>4, <1>5

\* The same when nothing new is seen of it.
LEMMA ViewsSame ==
  ASSUME TypeInv, NEW r \in Readers, NEW x, rd' = [rd EXCEPT ![r] = x],
         x.target = rd[r].target, Shown(x) = Shown(rd[r])
  PROVE  readerTarget' = readerTarget /\ readerPage' = readerPage
<1>1. /\ readerTarget' = [readerTarget EXCEPT ![r] = readerTarget[r]]
      /\ readerPage' = [readerPage EXCEPT ![r] = readerPage[r]]
  <2>1. /\ readerTarget' = [readerTarget EXCEPT ![r] = x.target]
        /\ readerPage' = [readerPage EXCEPT ![r] = Shown(x)]
        /\ readerTarget[r] = rd[r].target /\ readerPage[r] = Shown(rd[r])
    BY ZenonT(60), ViewsMove
  <2> QED BY ZenonT(60), <2>1
<1>2. /\ readerTarget = [u \in Readers |-> readerTarget[u]]
      /\ readerPage = [u \in Readers |-> readerPage[u]]
  BY DEF readerTarget, readerPage
<1> QED BY ZenonT(60), <1>1, <1>2

\* A request that goes on as it should leaves the others alone.
LEMMA RequestMoves ==
  ASSUME TypeInv, RequestInv, NEW r \in Readers, NEW x, rd' = [rd EXCEPT ![r] = x], RequestOK(x)
  PROVE  RequestInv'
<1>1. rd'[r] = x /\ \A u \in Readers \ {r} : rd'[u] = rd[u]
  BY DEF TypeInv
<1>2. \A u \in Readers : RequestOK(rd'[u])
  BY ZenonT(60), <1>1 DEF RequestInv
<1> QED BY ZenonT(60), <1>2 DEF RequestInv, RequestOK

\* Where nothing changes for the requests.
LEMMA RequestsSame ==
  ASSUME RequestInv, rd' = rd
  PROVE  RequestInv' /\ readerTarget' = readerTarget /\ readerPage' = readerPage
<1>1. RequestInv'
  BY ZenonT(60) DEF RequestInv, RequestOK
<1> QED BY ZenonT(60), <1>1 DEF readerTarget, readerPage
\* ParseXLogBlocksLsn adds a record, or finds it there.
LEMMA ParseRefines ==
  ASSUME LogInv, RequestInv, NEW lsn \in Lsns, ParseXLogBlocksLsn(lsn)
  PROVE  RequestInv' /\ VersionsStep
<1>1. /\ \A i \in DOMAIN wal : wal[i] <= lsn
      /\ head' = IF head = NONE THEN NewHead(lsn) ELSE Inserted(head, lsn)
      /\ wal' = IF lsn \in Range(wal) THEN wal ELSE Append(wal, lsn)
      /\ rd' = rd
  BY ZenonT(60) DEF ParseXLogBlocksLsn
<1>2. TypeInv /\ HeadInv
  BY ZenonT(60) DEF LogInv
<1>3. RequestInv' /\ readerTarget' = readerTarget /\ readerPage' = readerPage
  BY ZenonT(60), <1>1, RequestsSame
<1>4. lsn \in Nat
  BY ValuesAssumption DEF Lsns
<1>5. replayedVersion' = replayedVersion
  <2>1. CASE head = NONE
    <3>1. head' \in HeadNodes /\ head'.replayedLsn = 0
      BY <1>1, <1>4, <2>1 DEF NewHead, HeadNodes
    <3> QED BY ZenonT(60), <2>1, <3>1, ValuesAssumption DEF replayedVersion
  <2>2. CASE head # NONE
    <3>1. NodeInOrder(head)
      BY ZenonT(60), <1>2, <2>2, HeadFacts
    <3>2. Inserts(head', head, lsn)
      BY ZenonT(60), <1>1, <1>4, <2>2, <3>1, InsertedInserts
    <3>3. NodeInOrder(head') /\ head'.replayedLsn = head.replayedLsn
      BY ZenonT(60), <3>2 DEF Inserts
    <3>4. head' # NONE
      BY ZenonT(60), <3>3, ValuesAssumption DEF NodeInOrder
    <3> QED BY ZenonT(60), <2>2, <3>3, <3>4 DEF replayedVersion
  <2> QED BY ZenonT(60), <2>1, <2>2
<1>6. CASE lsn \in Range(wal)
  BY ZenonT(60), <1>1, <1>3, <1>5, <1>6 DEF VersionsStep
<1>7. CASE lsn \notin Range(wal)
  <2>1. wal' = Append(wal, lsn)
    BY ZenonT(60), <1>1, <1>7
  <2>2. wal \in Seq(Nat)
    BY ZenonT(60), <1>2, WalFacts
  <2>3. \A i \in DOMAIN wal : wal[i] \in Nat /\ wal[i] # lsn
    BY <1>7, <2>2 DEF Range
  <2>4. \A i \in DOMAIN wal : wal[i] < lsn
    BY <1>1, <1>4, <2>3
  <2>5. Versions!Parse(lsn)
    BY ZenonT(60), <1>3, <1>5, <2>1, <2>4 DEF Versions!Parse
  <2> QED BY ZenonT(60), <1>3, <2>5 DEF VersionsStep, Versions!Next
<1> QED BY ZenonT(60), <1>6, <1>7

\* A request begins.
LEMMA ReadBufferCommonRefines ==
  ASSUME LogInv, RequestInv, NEW r \in Readers, NEW target \in Lsns, ReadBufferCommon(r, target)
  PROVE  RequestInv' /\ VersionsStep
<1>1. PICK x : /\ x = [pc |-> IF head = NONE THEN "done" ELSE "lock", replayedLsn |-> 0,
                       list |-> << >>, page |-> IF head = NONE THEN << >> ELSE NONE,
                       target |-> target, seen |-> << >>]
               /\ rd' = [rd EXCEPT ![r] = x]
  BY ZenonT(60) DEF ReadBufferCommon
<1>2. /\ rd[r].pc = "idle" /\ head' = head /\ wal' = wal
  BY ZenonT(60) DEF ReadBufferCommon
<1>3. TypeInv /\ HeadInv
  BY ZenonT(60) DEF LogInv
<1>4. /\ x.target = target /\ x.pc \in {"done", "lock"}
      /\ head = NONE => Shown(x) = << >>
      /\ head # NONE => Shown(x) = NONE
  BY <1>1 DEF Shown
<1>5. target # 0 /\ RequestOK(x)
  <2>1. target # 0
    BY ValuesAssumption DEF Lsns
  <2> QED BY <1>4, <2>1 DEF RequestOK
<1>6. RequestInv'
  BY ZenonT(60), <1>1, <1>3, <1>5, RequestMoves
<1>7. rd[r].target = 0 /\ Shown(rd[r]) = NONE
  BY <1>2 DEF RequestInv, RequestOK, Shown
<1>8. /\ readerTarget' = [readerTarget EXCEPT ![r] = target]
      /\ readerPage' = [readerPage EXCEPT ![r] = Shown(x)]
      /\ readerTarget[r] = 0 /\ readerPage[r] = NONE
  <2>1. /\ readerTarget' = [readerTarget EXCEPT ![r] = x.target]
        /\ readerPage' = [readerPage EXCEPT ![r] = Shown(x)]
        /\ readerTarget[r] = rd[r].target /\ readerPage[r] = Shown(rd[r])
    BY ZenonT(60), <1>1, <1>3, ViewsMove
  <2> QED BY ZenonT(60), <1>4, <1>7, <2>1
<1>9. readerPage' = readerPage \/ (wal = << >> /\ readerPage' = [readerPage EXCEPT ![r] = << >>])
  <2>1. CASE head = NONE
    BY ZenonT(60), <1>3, <1>4, <1>8, <2>1 DEF HeadInv, NothingParsed
  <2>2. CASE head # NONE
    <3>1. readerPage' = [readerPage EXCEPT ![r] = readerPage[r]]
      BY ZenonT(60), <1>4, <1>8, <2>2
    <3>2. readerPage = [u \in Readers |-> readerPage[u]]
      BY ZenonT(60) DEF readerPage
    <3> QED BY ZenonT(60), <3>1, <3>2
  <2> QED BY ZenonT(60), <2>1, <2>2
<1>10. replayedVersion' = replayedVersion
  BY ZenonT(60), <1>2 DEF replayedVersion
<1>11. Versions!Ask(r, target)
  BY ZenonT(60), <1>2, <1>8, <1>9, <1>10 DEF Versions!Ask
<1> QED BY ZenonT(60), <1>6, <1>11 DEF VersionsStep, Versions!Next

\* A request is answered with the first i records, none of them beyond the
\* LSN it asks for.
LEMMA RecallRefines ==
  ASSUME TypeInv, RequestInv, NEW r \in Readers, NEW x, rd' = [rd EXCEPT ![r] = x],
         rd[r].pc \notin {"idle", "delete", "done"}, x.pc = "done", x.target = rd[r].target,
         head' = head, wal' = wal,
         NEW i \in 0 .. Len(wal), i > 0 => wal[i] <= rd[r].target, x.page = SubSeq(wal, 1, i)
  PROVE  VersionsStep
<1>1. Shown(x) = SubSeq(wal, 1, i) /\ Shown(rd[r]) = NONE /\ rd[r].target # 0
  BY ZenonT(60) DEF Shown, RequestInv, RequestOK
<1>2. /\ readerPage' = [readerPage EXCEPT ![r] = SubSeq(wal, 1, i)]
      /\ readerTarget[r] = rd[r].target /\ readerPage[r] = NONE
  <2>1. /\ readerPage' = [readerPage EXCEPT ![r] = Shown(x)]
        /\ readerTarget[r] = rd[r].target /\ readerPage[r] = Shown(rd[r])
    BY ZenonT(60), ViewsMove
  <2> QED BY ZenonT(60), <1>1, <2>1
<1>3. readerTarget' = readerTarget
  <2>1. readerTarget' = [readerTarget EXCEPT ![r] = readerTarget[r]]
    <3>1. readerTarget' = [readerTarget EXCEPT ![r] = x.target] /\ x.target = readerTarget[r]
      BY ZenonT(60), <1>2, ViewsMove
    <3> QED BY ZenonT(60), <3>1
  <2>2. readerTarget = [u \in Readers |-> readerTarget[u]]
    BY ZenonT(60) DEF readerTarget
  <2> QED BY ZenonT(60), <2>1, <2>2
<1>4. replayedVersion' = replayedVersion
  BY ZenonT(60) DEF replayedVersion
<1>5. Versions!Recall(r)
  BY ZenonT(60), <1>1, <1>2, <1>3, <1>4 DEF Versions!Recall
<1> QED BY ZenonT(60), <1>5 DEF VersionsStep, Versions!Next

\* Nothing is seen of a step that leaves the head node, the records and what
\* the request has got.
LEMMA Unseen ==
  ASSUME TypeInv, NEW r \in Readers, NEW x, rd' = [rd EXCEPT ![r] = x],
         x.target = rd[r].target, Shown(x) = Shown(rd[r]), head' = head, wal' = wal
  PROVE  VersionsStep
<1>1. readerTarget' = readerTarget /\ readerPage' = readerPage
  BY ZenonT(60), ViewsSame
<1> QED BY ZenonT(60), <1>1 DEF VersionsStep, replayedVersion
\* The list is made: the request goes on, or gets the base page.
LEMMA HashMapGetBlockReplayListRefines ==
  ASSUME LogInv, RequestInv, NEW r \in Readers, HashMapGetBlockReplayList(r)
  PROVE  RequestInv' /\ VersionsStep
<1>1. PICK answer : answer = BlockReplayList(head, rd[r].target)
  OBVIOUS
<1>2. PICK x : /\ x = [pc |-> IF ~ answer.found THEN "done"
                              ELSE IF answer.list = << >> THEN "fetch" ELSE "apply",
                       replayedLsn |-> answer.replayedLsn, list |-> answer.list,
                       page |-> IF answer.found THEN NONE ELSE << >>,
                       target |-> rd[r].target, seen |-> wal]
               /\ rd' = [rd EXCEPT ![r] = x]
  BY ZenonT(60), <1>1 DEF HashMapGetBlockReplayList
<1>3. rd[r].pc = "lock" /\ headLock = NONE /\ head' = head /\ wal' = wal
  BY ZenonT(60) DEF HashMapGetBlockReplayList
<1>4. TypeInv /\ HeadInv
  BY ZenonT(60) DEF LogInv
<1>5. /\ x.target = rd[r].target /\ x.replayedLsn = answer.replayedLsn /\ x.pc # "idle"
      /\ x.pc = "fetch" => answer.found
      /\ answer.found => Shown(x) = NONE
      /\ ~ answer.found => x.pc = "done" /\ x.page = << >>
  BY <1>2 DEF Shown
<1>6. rd[r].target # 0 /\ Shown(rd[r]) = NONE
  BY <1>3 DEF RequestInv, RequestOK, Shown
<1>7. answer.found => answer.replayedLsn <= rd[r].target
  <2>1. head # NONE
    BY <1>3, <1>4, HeadThere
  <2>2. ListsRecords(head, wal, head.replayedLsn)
    BY <1>3, <1>4, <2>1, HeadFacts, ThreadsAssumption DEF FreedUpTo
  <2>3. PICK low \in Nat : low = head.replayedLsn
    BY ZenonT(60), <1>4, <2>1, HeadFacts
  <2>4. PICK t \in Nat : t = rd[r].target
    BY ZenonT(60), <1>4, ReaderNats
  <2>5. \A e \in Range(wal) : e \in Nat
    BY ZenonT(60), <1>4, WalFacts
  <2>6. CASE low <= t
    BY ZenonT(60), <1>1, <2>2, <2>3, <2>4, <2>5, <2>6, AnswerRecords
  <2>7. CASE low > t
    <3>1. Newest(answer.replayedLsn, Listed(head.lsnEntry, head.nextEle), t)
      BY ZenonT(60), <1>1, <2>2, <2>3, <2>4, <2>5, <2>7, AnswerRecords
    <3>2. answer.replayedLsn <= t \/ answer.replayedLsn = 0
      BY ZenonT(60), <3>1 DEF Newest
    <3> QED BY <2>4, <3>2
  <2> QED BY <2>3, <2>4, <2>6, <2>7
<1>8. RequestOK(x)
  BY ZenonT(60), <1>5, <1>6, <1>7 DEF RequestOK
<1>9. RequestInv'
  BY ZenonT(60), <1>2, <1>4, <1>8, RequestMoves
<1>10. CASE answer.found
  <2>1. VersionsStep
    BY ZenonT(60), <1>2, <1>3, <1>4, <1>5, <1>6, <1>10, Unseen
  <2> QED BY ZenonT(60), <1>9, <2>1
<1>11. CASE ~ answer.found
  <2>1. PICK i \in 0 .. Len(wal) : i = 0 /\ SubSeq(wal, 1, i) = << >>
    <3>1. wal \in Seq(Nat)
      BY ZenonT(60), <1>4, WalFacts
    <3> QED BY <3>1
  <2>2. ~ (i > 0)
    BY <2>1
  <2>3. rd[r].pc \notin {"idle", "delete", "done"}
    BY <1>3
  <2>4. x.pc = "done" /\ x.page = SubSeq(wal, 1, i)
    BY ZenonT(60), <1>5, <1>11, <2>1
  <2>5. VersionsStep
    BY ZenonT(60), <1>2, <1>3, <1>4, <1>5, <2>2, <2>3, <2>4, RecallRefines
  <2> QED BY ZenonT(60), <1>9, <2>5
<1> QED BY ZenonT(60), <1>10, <1>11

\* A stored version is fetched, or none is found.
LEMMA FetchRefines ==
  ASSUME LogInv, RequestInv, NEW r \in Readers, Fetch(r)
  PROVE  RequestInv' /\ VersionsStep
<1>1. PICK page : page = GetPageFromRocksdb(rd[r].replayedLsn)
  OBVIOUS
<1>2. PICK x : /\ x = [pc |-> "done", replayedLsn |-> rd[r].replayedLsn, list |-> rd[r].list,
                       page |-> page, target |-> rd[r].target, seen |-> rd[r].seen]
               /\ rd' = [rd EXCEPT ![r] = x]
  <2>1. rd' = [rd EXCEPT ![r] = [rd[r] EXCEPT !.pc = "done", !.page = page]]
    BY ZenonT(60), <1>1 DEF Fetch
  <2>2. rd[r] \in ReaderLocals
    BY ZenonT(60) DEF LogInv, TypeInv
  <2>3. [rd[r] EXCEPT !.pc = "done", !.page = page] =
          [pc |-> "done", replayedLsn |-> rd[r].replayedLsn, list |-> rd[r].list,
           page |-> page, target |-> rd[r].target, seen |-> rd[r].seen]
    BY ZenonT(60), <2>2, PcAndPageSet
  <2> QED BY ZenonT(60), <2>1, <2>3
<1>3. rd[r].pc = "fetch" /\ head' = head /\ wal' = wal
  BY ZenonT(60) DEF Fetch
<1>4. TypeInv /\ StoreInv
  BY ZenonT(60) DEF LogInv
<1>5. x.pc = "done" /\ x.page = page /\ x.target = rd[r].target
  BY <1>2
<1>6. /\ rd[r].target # 0 /\ rd[r].replayedLsn <= rd[r].target /\ Shown(rd[r]) = NONE
  BY <1>3 DEF RequestInv, RequestOK, Shown
<1>7. RequestOK(x)
  BY <1>5, <1>6 DEF RequestOK
<1>8. RequestInv'
  BY ZenonT(60), <1>2, <1>4, <1>7, RequestMoves
<1>9. CASE rd[r].replayedLsn \notin DOMAIN rocksdb
  <2>1. Shown(x) = NONE
    BY ZenonT(60), <1>1, <1>5, <1>9 DEF Shown, GetPageFromRocksdb
  <2>2. VersionsStep
    BY ZenonT(60), <1>2, <1>3, <1>4, <1>5, <1>6, <2>1, Unseen
  <2> QED BY ZenonT(60), <1>8, <2>2
<1>10. CASE rd[r].replayedLsn \in DOMAIN rocksdb
  <2>1. PICK lsn \in Nat, t \in Nat : lsn = rd[r].replayedLsn /\ t = rd[r].target
    BY ZenonT(60), <1>4, ReaderNats
  <2>2. page = Upto(wal, lsn)
    BY ZenonT(60), <1>1, <1>4, <1>10, <2>1 DEF GetPageFromRocksdb, StoreInv, VersionsExact
  <2>3. wal \in Seq(Nat) /\ Ascending(wal)
    BY ZenonT(60), <1>4, WalFacts
  <2>4. PICK i \in 0 .. Len(wal) : Upto(wal, lsn) = SubSeq(wal, 1, i) /\ (i > 0 => wal[i] <= lsn)
    BY ZenonT(60), <2>3, PrefixUpTo
  <2>5. i > 0 => wal[i] <= rd[r].target
    <3>1. i > 0 => wal[i] \in Nat
      BY <2>3, <2>4
    <3> QED BY <1>6, <2>1, <2>4, <3>1
  <2>6. rd[r].pc \notin {"idle", "delete", "done"}
    BY <1>3
  <2>7. x.page = SubSeq(wal, 1, i)
    BY ZenonT(60), <1>5, <2>2, <2>4
  <2>8. VersionsStep
    BY ZenonT(60), <1>2, <1>3, <1>4, <1>5, <2>5, <2>6, <2>7, RecallRefines
  <2> QED BY ZenonT(60), <1>8, <2>8
<1> QED BY ZenonT(60), <1>9, <1>10

\* Replaying and storing are not seen.
LEMMA ReplayUnseen ==
  ASSUME LogInv, RequestInv, NEW r \in Readers, ApplyLsnList(r) \/ Put(r) \/ Delete(r)
  PROVE  RequestInv' /\ VersionsStep
<1>1. TypeInv /\ rd[r] \in ReaderLocals
  BY ZenonT(60) DEF LogInv, TypeInv
<1>2. head' = head /\ wal' = wal
  BY ZenonT(60) DEF ApplyLsnList, Put, Delete
<1>3. rd[r].pc \in {"apply", "put", "delete"}
  BY ZenonT(60) DEF ApplyLsnList, Put, Delete
<1>4. PICK x : /\ rd' = [rd EXCEPT ![r] = x] /\ x.target = rd[r].target
               /\ x.pc \in {"put", "update", "done"} /\ Shown(x) = Shown(rd[r])
  <2>1. CASE ApplyLsnList(r)
    <3>1. PICK page : rd' = [rd EXCEPT ![r] = [rd[r] EXCEPT !.pc = "put", !.page = page]]
      BY ZenonT(60), <2>1 DEF ApplyLsnList
    <3>2. PICK x : /\ x = [pc |-> "put", replayedLsn |-> rd[r].replayedLsn, list |-> rd[r].list,
                           page |-> page, target |-> rd[r].target, seen |-> rd[r].seen]
                   /\ rd' = [rd EXCEPT ![r] = x]
      <4>1. [rd[r] EXCEPT !.pc = "put", !.page = page] =
              [pc |-> "put", replayedLsn |-> rd[r].replayedLsn, list |-> rd[r].list,
               page |-> page, target |-> rd[r].target, seen |-> rd[r].seen]
        BY ZenonT(60), <1>1, PcAndPageSet
      <4> QED BY ZenonT(60), <3>1, <4>1
    <3>3. x.pc = "put" /\ x.target = rd[r].target
      BY <3>2
    <3>4. rd[r].pc = "apply"
      BY ZenonT(60), <2>1 DEF ApplyLsnList
    <3>5. Shown(x) = Shown(rd[r])
      BY <3>3, <3>4 DEF Shown
    <3> QED BY ZenonT(60), <3>2, <3>3, <3>5
  <2>2. CASE Put(r)
    <3>1. rd' = [rd EXCEPT ![r].pc = "update"] /\ rd[r].pc = "put"
      BY ZenonT(60), <2>2 DEF Put
    <3>2. "update" \in ReaderStates
      BY DEF ReaderStates
    <3>3. PICK x : MovesTo(r, "update", x)
      BY ZenonT(60), <1>1, <3>1, <3>2, PcMoves
    <3>4. rd' = [rd EXCEPT ![r] = x] /\ x.pc = "update" /\ x.target = rd[r].target
      BY ZenonT(60), <3>3 DEF MovesTo
    <3>5. Shown(x) = Shown(rd[r])
      BY <3>1, <3>4 DEF Shown
    <3> QED BY ZenonT(60), <3>4, <3>5
  <2>3. CASE Delete(r)
    <3>1. rd' = [rd EXCEPT ![r].pc = "done"] /\ rd[r].pc = "delete"
      BY ZenonT(60), <2>3 DEF Delete
    <3>2. "done" \in ReaderStates
      BY DEF ReaderStates
    <3>3. PICK x : MovesTo(r, "done", x)
      BY ZenonT(60), <1>1, <3>1, <3>2, PcMoves
    <3>4. rd' = [rd EXCEPT ![r] = x] /\ x.pc = "done" /\ x.target = rd[r].target /\ x.page = rd[r].page
      BY ZenonT(60), <3>3 DEF MovesTo
    <3>5. Shown(x) = Shown(rd[r])
      BY <3>1, <3>4 DEF Shown
    <3> QED BY ZenonT(60), <3>4, <3>5
  <2> QED BY ZenonT(60), <2>1, <2>2, <2>3
<1>5. RequestOK(x)
  BY <1>3, <1>4 DEF RequestInv, RequestOK
<1>6. RequestInv'
  BY ZenonT(60), <1>1, <1>4, <1>5, RequestMoves
<1>7. VersionsStep
  BY ZenonT(60), <1>1, <1>2, <1>4, Unseen
<1> QED BY ZenonT(60), <1>6, <1>7
\* The page is published: the request has it, and takes effect, here.
LEMMA HashMapUpdateReplayedLsnRefines ==
  ASSUME LogInv, RequestInv, NEW r \in Readers, HashMapUpdateReplayedLsn(r)
  PROVE  RequestInv' /\ VersionsStep
<1>1. PICK lsn, low, t : lsn = Last(rd[r].list) /\ low = head.replayedLsn /\ t = rd[r].target
  OBVIOUS
<1>2. PICK pc : /\ pc \in {"delete", "done"}
                /\ rd' = [rd EXCEPT ![r].pc = pc]
  BY ZenonT(60) DEF HashMapUpdateReplayedLsn
<1>3. /\ rd[r].pc = "update" /\ wal' = wal
      /\ head' = [head EXCEPT !.replayedLsn = Max({head.replayedLsn, Last(rd[r].list)})]
  BY ZenonT(60) DEF HashMapUpdateReplayedLsn
<1>4. TypeInv /\ HeadInv /\ ReaderInv(r)
  BY ZenonT(60) DEF LogInv
<1>5. PICK x : /\ rd' = [rd EXCEPT ![r] = x] /\ x.pc = pc
               /\ x.target = rd[r].target /\ x.page = rd[r].page
  <2>1. pc \in ReaderStates
    BY <1>2 DEF ReaderStates
  <2>2. \E x : MovesTo(r, pc, x)
    BY ZenonT(60), <1>2, <1>4, <2>1, PcMoves
  <2> QED BY ZenonT(60), <2>2 DEF MovesTo
<1>6. /\ Shown(x) = rd[r].page /\ Shown(rd[r]) = NONE /\ rd[r].target # 0 /\ RequestOK(x)
  BY <1>2, <1>3, <1>5 DEF RequestInv, RequestOK, Shown
<1>7. RequestInv'
  BY ZenonT(60), <1>4, <1>5, <1>6, RequestMoves
<1>8. /\ lsn \in Range(wal) /\ lsn > low /\ rd[r].page = Upto(wal, lsn) /\ lsn <= t
      /\ \A e \in Range(wal) : e <= t => e <= lsn
  <2>1. Carries(rd[r], head.replayedLsn, wal) /\ Reaches(rd[r], wal) /\ rd[r].pc # "apply"
    BY <1>3, <1>4 DEF ReaderInv, ReaderLocks
  <2> QED BY ZenonT(60), <1>1, <2>1 DEF Carries, Reaches
<1>9. /\ wal \in Seq(Nat) /\ Ascending(wal) /\ \A e \in Range(wal) : e \in Nat
  BY ZenonT(60), <1>4, WalFacts
<1>10. head # NONE
  BY <1>3, <1>4, HeadThere
<1>11. low \in Nat /\ head \in HeadNodes /\ lsn \in Nat
  BY ZenonT(60), <1>1, <1>4, <1>8, <1>9, <1>10, HeadFacts
<1>12. replayedVersion' = lsn /\ replayedVersion = low
  <2>1. Max({low, lsn}) = lsn
    <3>1. low <= lsn
      BY <1>8, <1>11
    <3> QED BY ZenonT(60), <1>11, <3>1, MaxOfTwo
  <2>2. head' = [head EXCEPT !.replayedLsn = lsn]
    BY ZenonT(60), <1>1, <1>3, <2>1
  <2>3. head' \in HeadNodes /\ head'.replayedLsn = lsn
    BY <1>11, <2>2 DEF HeadNodes
  <2>4. head' # NONE
    BY ZenonT(60), <2>3, ValuesAssumption
  <2> QED BY ZenonT(60), <1>1, <1>10, <2>3, <2>4 DEF replayedVersion
<1>13. PICK i \in DOMAIN wal : /\ wal[i] = lsn /\ Upto(wal, lsn) = SubSeq(wal, 1, i)
                               /\ \A j \in DOMAIN wal : wal[j] <= lsn => j <= i
  BY ZenonT(60), <1>8, <1>9, <1>11, PrefixAt
<1>14. \A j \in DOMAIN wal : wal[j] <= t => j <= i
  <2>1. \A j \in DOMAIN wal : wal[j] \in Range(wal)
    BY DEF Range
  <2> QED BY ZenonT(60), <1>8, <1>13, <2>1
<1>15. /\ readerPage' = [readerPage EXCEPT ![r] = SubSeq(wal, 1, i)]
       /\ readerTarget[r] = t /\ t # 0 /\ readerPage[r] = NONE
  <2>1. /\ readerPage' = [readerPage EXCEPT ![r] = Shown(x)]
        /\ readerTarget[r] = rd[r].target /\ readerPage[r] = Shown(rd[r])
    BY ZenonT(60), <1>4, <1>5, ViewsMove
  <2>2. Shown(x) = SubSeq(wal, 1, i)
    BY ZenonT(60), <1>6, <1>8, <1>13
  <2> QED BY ZenonT(60), <1>1, <1>6, <2>1, <2>2
<1>16. readerTarget' = readerTarget
  <2>1. readerTarget' = [readerTarget EXCEPT ![r] = readerTarget[r]]
    <3>1. readerTarget' = [readerTarget EXCEPT ![r] = x.target] /\ x.target = readerTarget[r]
      BY ZenonT(60), <1>4, <1>5, ViewsMove
    <3> QED BY ZenonT(60), <3>1
  <2>2. readerTarget = [u \in Readers |-> readerTarget[u]]
    BY ZenonT(60) DEF readerTarget
  <2> QED BY ZenonT(60), <2>1, <2>2
<1>17. low < lsn
  BY <1>8, <1>11
<1>18. Versions!Replay(r)
  <2>1. /\ replayedVersion < wal[i] /\ wal[i] <= readerTarget[r] /\ replayedVersion' = wal[i]
        /\ \A j \in DOMAIN wal : wal[j] <= readerTarget[r] => j <= i
    BY ZenonT(60), <1>8, <1>12, <1>13, <1>14, <1>15, <1>17
  <2> QED BY ZenonT(60), <1>3, <1>15, <1>16, <2>1 DEF Versions!Replay
<1> QED BY ZenonT(60), <1>7, <1>18 DEF VersionsStep, Versions!Next

\* A request ends.
LEMMA ReturnRefines ==
  ASSUME LogInv, RequestInv, NEW r \in Readers, Return(r)
  PROVE  RequestInv' /\ VersionsStep
<1>1. /\ rd[r].pc = "done" /\ rd' = [rd EXCEPT ![r] = IdleReader] /\ head' = head /\ wal' = wal
  BY ZenonT(60) DEF Return
<1>2. TypeInv
  BY ZenonT(60) DEF LogInv
<1>3. RequestOK(IdleReader) /\ IdleReader.target = 0 /\ Shown(IdleReader) = NONE
  BY DEF RequestOK, IdleReader, Shown
<1>4. RequestInv'
  BY ZenonT(60), <1>1, <1>2, <1>3, RequestMoves
<1>5. rd[r].target # 0
  BY <1>1 DEF RequestInv, RequestOK
<1>6. /\ readerTarget' = [readerTarget EXCEPT ![r] = 0] /\ readerTarget[r] # 0
      /\ readerPage' = [readerPage EXCEPT ![r] = NONE]
  <2>1. /\ readerTarget' = [readerTarget EXCEPT ![r] = IdleReader.target]
        /\ readerPage' = [readerPage EXCEPT ![r] = Shown(IdleReader)]
        /\ readerTarget[r] = rd[r].target
    BY ZenonT(60), <1>1, <1>2, ViewsMove
  <2> QED BY ZenonT(60), <1>3, <1>5, <2>1
<1>7. replayedVersion' = replayedVersion
  BY ZenonT(60), <1>1 DEF replayedVersion
<1>8. Versions!Return(r)
  BY ZenonT(60), <1>1, <1>6, <1>7 DEF Versions!Return
<1> QED BY ZenonT(60), <1>4, <1>8 DEF VersionsStep, Versions!Next
\* The background thread is seen only when it publishes what it has replayed.
LEMMA BackgroundUpdateRefines ==
  ASSUME LogInv, RequestInv, BackgroundUpdate
  PROVE  RequestInv' /\ VersionsStep
<1>1. PICK lsn, low : lsn = Last(vac.list) /\ low = head.replayedLsn
  OBVIOUS
<1>2. /\ vac.pc = "update" /\ head' = [head EXCEPT !.replayedLsn = lsn] /\ rd' = rd /\ wal' = wal
  BY ZenonT(60), <1>1 DEF BackgroundUpdate
<1>3. TypeInv /\ HeadInv /\ VacuumerInv
  BY ZenonT(60) DEF LogInv
<1>4. RequestInv' /\ readerTarget' = readerTarget /\ readerPage' = readerPage
  BY ZenonT(60), <1>2, RequestsSame
<1>5. lsn \in Range(wal) /\ lsn > low
  <2>1. Carries(vac, head.replayedLsn, wal)
    BY <1>2, <1>3 DEF VacuumerInv, VacuumerLocks
  <2> QED BY ZenonT(60), <1>1, <2>1 DEF Carries
<1>6. wal \in Seq(Nat) /\ Ascending(wal) /\ \A e \in Range(wal) : e \in Nat
  BY ZenonT(60), <1>3, WalFacts
<1>7. head # NONE
  BY <1>2, <1>3, HeadThere
<1>8. low \in Nat /\ head \in HeadNodes /\ lsn \in Nat
  BY ZenonT(60), <1>1, <1>3, <1>5, <1>6, <1>7, HeadFacts
<1>9. replayedVersion' = lsn /\ replayedVersion = low
  <2>1. head' \in HeadNodes /\ head'.replayedLsn = lsn
    BY ZenonT(60), <1>2, <1>8 DEF HeadNodes
  <2>2. head' # NONE
    BY ZenonT(60), <2>1, ValuesAssumption
  <2> QED BY ZenonT(60), <1>1, <1>7, <2>1, <2>2 DEF replayedVersion
<1>10. PICK i \in DOMAIN wal : wal[i] = lsn
  BY ZenonT(60), <1>5, <1>6, <1>8, PrefixAt
<1>11. low < lsn
  BY <1>5, <1>8
<1>12. Versions!Advance
  BY ZenonT(60), <1>2, <1>4, <1>9, <1>10, <1>11 DEF Versions!Advance
<1> QED BY ZenonT(60), <1>4, <1>12 DEF VersionsStep, Versions!Next

\* The rest of what it does is not seen.
LEMMA BackgroundUnseen ==
  ASSUME LogInv, LogInv', RequestInv, rd' = rd, wal' = wal,
         \/ head' = head
         \/ head # NONE /\ head' = [head EXCEPT !.nextEle = EleNodesKept(head)]
  PROVE  RequestInv' /\ VersionsStep
<1>1. RequestInv' /\ readerTarget' = readerTarget /\ readerPage' = readerPage
  BY ZenonT(60), RequestsSame
<1>2. replayedVersion' = replayedVersion
  <2>1. CASE head' = head
    BY ZenonT(60), <2>1 DEF replayedVersion
  <2>2. CASE head # NONE /\ head' = [head EXCEPT !.nextEle = EleNodesKept(head)]
    <3>1. TypeInv /\ HeadInv
      BY ZenonT(60) DEF LogInv
    <3>2. head \in HeadNodes
      BY ZenonT(60), <2>2, <3>1, HeadFacts
    <3>3. head'.replayedLsn = head.replayedLsn
      BY <2>2, <3>2 DEF HeadNodes
    <3>4. head' # NONE
      <4>1. head' = NONE => wal = << >>
        BY ZenonT(60) DEF LogInv, HeadInv, NothingParsed
      <4>2. head.maxLsn \in Range(wal)
        BY ZenonT(60), <2>2, <3>1, HeadFacts DEF ListsRecords
      <4>3. wal # << >>
        BY <4>2 DEF Range
      <4> QED BY ZenonT(60), <4>1, <4>3
    <3> QED BY ZenonT(60), <2>2, <3>3, <3>4 DEF replayedVersion
  <2> QED BY ZenonT(60), <2>1, <2>2
<1> QED BY ZenonT(60), <1>1, <1>2 DEF VersionsStep

\* Every step is a step of PageVersions, or is not seen.
LEMMA StepRefines ==
  ASSUME LogInv, RequestInv, [Next]_vars
  PROVE  RequestInv' /\ VersionsStep
<1>1. LogInv'
  BY ZenonT(60), NextLogInv
<1>2. ASSUME NEW lsn \in Lsns, ParseXLogBlocksLsn(lsn) PROVE RequestInv' /\ VersionsStep
  BY ZenonT(60), <1>2, ParseRefines
<1>3. ASSUME NEW r \in Readers, NEW target \in Lsns, ReadBufferCommon(r, target)
      PROVE  RequestInv' /\ VersionsStep
  BY ZenonT(60), <1>3, ReadBufferCommonRefines
<1>4. ASSUME NEW r \in Readers, HashMapGetBlockReplayList(r) PROVE RequestInv' /\ VersionsStep
  BY ZenonT(60), <1>4, HashMapGetBlockReplayListRefines
<1>5. ASSUME NEW r \in Readers, ReaderProceeds(r) PROVE RequestInv' /\ VersionsStep
  <2>1. CASE Fetch(r)
    BY ZenonT(60), <2>1, FetchRefines
  <2>2. CASE ApplyLsnList(r) \/ Put(r) \/ Delete(r)
    BY ZenonT(60), <2>2, ReplayUnseen
  <2>3. CASE HashMapUpdateReplayedLsn(r)
    BY ZenonT(60), <2>3, HashMapUpdateReplayedLsnRefines
  <2>4. CASE Return(r)
    BY ZenonT(60), <2>4, ReturnRefines
  <2> QED BY ZenonT(60), <1>5, <2>1, <2>2, <2>3, <2>4 DEF ReaderProceeds
<1>6. CASE CollectHead \/ SkipHead \/ BackgroundApply \/ BackgroundPut \/ BackgroundDelete
  <2>1. rd' = rd /\ wal' = wal /\ head' = head
    BY ZenonT(60), <1>6 DEF CollectHead, SkipHead, BackgroundApply, BackgroundPut, BackgroundDelete
  <2> QED BY ZenonT(60), <1>1, <2>1, BackgroundUnseen
<1>7. CASE BackgroundReplayHeadNode
  <2>1. /\ rd' = rd /\ wal' = wal /\ vac.pc = "lock"
        /\ head' = head \/ head' = [head EXCEPT !.nextEle = EleNodesKept(head)]
    BY ZenonT(60), <1>7 DEF BackgroundReplayHeadNode
  <2>2. head # NONE
    BY <2>1, HeadThere DEF LogInv
  <2> QED BY ZenonT(60), <1>1, <2>1, <2>2, BackgroundUnseen
<1>8. CASE BackgroundUpdate
  BY ZenonT(60), <1>8, BackgroundUpdateRefines
<1>9. CASE UNCHANGED vars
  <2>1. rd' = rd /\ wal' = wal /\ head' = head
    BY ZenonT(60), <1>9 DEF vars
  <2> QED BY ZenonT(60), <1>1, <2>1, BackgroundUnseen
<1> QED BY ZenonT(60), <1>2, <1>3, <1>4, <1>5, <1>6, <1>7, <1>8, <1>9 DEF Next, VacuumerProceeds

\* The parser, the requests and the background thread implement PageVersions:
\* a request that replays takes effect in one step, when
\* HashMapUpdateReplayedLsn publishes its page; every other page handed out is
\* an earlier version; the replayed version never goes back.
THEOREM LogIndexImplementsPageVersions == Spec => ImplementsPageVersions
<1>1. Init => RequestInv /\ Versions!Init
  <2> SUFFICES ASSUME Init PROVE RequestInv /\ Versions!Init
    OBVIOUS
  <2>1. rd = [r \in Readers |-> IdleReader] /\ head = NONE /\ wal = << >>
    BY ZenonT(60) DEF Init
  <2>2. \A r \in Readers : rd[r] = IdleReader
    BY ZenonT(60), <2>1
  <2>3. RequestOK(IdleReader) /\ IdleReader.target = 0 /\ IdleReader.pc = "idle"
    BY DEF RequestOK, IdleReader
  <2>4. RequestInv
    BY ZenonT(60), <2>2, <2>3 DEF RequestInv
  <2>5. readerTarget = [r \in Readers |-> 0] /\ readerPage = [r \in Readers |-> NONE]
    BY <2>2, <2>3 DEF readerTarget, readerPage
  <2>6. replayedVersion = 0
    BY ZenonT(60), <2>1 DEF replayedVersion
  <2> QED BY ZenonT(60), <2>1, <2>4, <2>5, <2>6 DEF Versions!Init
<1>2. LogInv /\ RequestInv /\ [Next]_vars
        => RequestInv' /\ [Versions!Next]_<<wal, replayedVersion, readerTarget, readerPage>>
  BY ZenonT(60), StepRefines DEF VersionsStep
<1> QED BY <1>1, <1>2, LogInvariant, PTL DEF Spec, ImplementsPageVersions, Versions!Spec

-----------------------------------------------------------------------------
(***************************************************************************)
(* The life of a head node: module HeadNodeSpec.                           *)
(***************************************************************************)
\* The inductive invariant: the node lists records of the page, all of those
\* that have not been replayed and, whatever has been freed, the last one.
NodeInv ==
  /\ inserted \in Seq(Nat) /\ Ascending(inserted) /\ inserted # << >> /\ Range(inserted) \subseteq NodeLsns
  /\ ListsRecords(node, inserted, node.replayedLsn)
  /\ node.maxLsn \in Listed(node.lsnEntry, node.nextEle)

-----------------------------------------------------------------------------
\* LSNs are positive numbers.
LEMMA LsnsPositive ==
  \A lsn \in NodeLsns : lsn \in Nat /\ lsn > 0
  BY LastLsnAssumption DEF NodeLsns

\* Section is the list of the entries between its bounds.
LEMMA SectionLists ==
  ASSUME NEW s \in Seq(Nat), Ascending(s), NEW low \in Nat, NEW high \in Nat
  PROVE  Lists(Section(s, low, high), Range(s), low, high)
<1>1. PICK u : u = Upto(s, high)
  OBVIOUS
<1>2. u \in Seq(Nat) /\ Ascending(u) /\ Range(u) = {e \in Range(s) : e <= high}
  BY ZenonT(60), <1>1, UptoFacts
<1>3. /\ Beyond(u, low) \in Seq(Nat) /\ Ascending(Beyond(u, low))
      /\ Range(Beyond(u, low)) = {e \in Range(u) : e > low}
  BY ZenonT(60), <1>2, UptoFacts
<1>4. Range(s) \subseteq Nat
  BY ZenonT(60), ListFacts
<1>5. Range(Beyond(u, low)) = Between(Range(s), low, high)
  BY <1>2, <1>3, <1>4 DEF Between
<1> QED BY ZenonT(60), <1>1, <1>3, <1>5 DEF Section, Lists

\* Two lists of the same records are equal.
LEMMA ListsUnique ==
  ASSUME NEW s, NEW t, NEW S, NEW low, NEW high, Lists(s, S, low, high), Lists(t, S, low, high)
  PROVE  s = t
  BY ZenonT(60), AscendingUnique DEF Lists

\* HashMapUpdateReplayedLsn keeps what a node lists.
LEMMA ReplayedLists ==
  ASSUME NEW h, NEW w, NEW v \in Nat, ListsRecords(h, w, v), v = 0 \/ v \in Range(w),
         h.maxLsn \in Listed(h.lsnEntry, h.nextEle),
         NEW g, g = [h EXCEPT !.replayedLsn = v]
  PROVE  /\ ListsRecords(g, w, g.replayedLsn) /\ g.maxLsn \in Listed(g.lsnEntry, g.nextEle)
<1>1. h \in HeadNodes
  BY ZenonT(60) DEF ListsRecords, NodeInOrder
<1>2. /\ g \in HeadNodes /\ g.replayedLsn = v /\ g.maxLsn = h.maxLsn
      /\ g.lsnEntry = h.lsnEntry /\ g.nextEle = h.nextEle
  BY ZenonT(60), <1>1 DEF HeadNodes
<1> QED BY ZenonT(60), <1>2 DEF ListsRecords, NodeInOrder

-----------------------------------------------------------------------------
\* The head node of a page that has none holds the first record.
LEMMA NodeInitInv == NodeInit => NodeInv
<1> SUFFICES ASSUME NodeInit PROVE NodeInv
  OBVIOUS
<1>1. PICK lsn \in NodeLsns : node = NewHead(lsn) /\ inserted = <<lsn>>
  BY ZenonT(60) DEF NodeInit
<1>2. lsn \in Nat
  BY ZenonT(60), LsnsPositive
<1>3. inserted \in Seq(Nat) /\ Ascending(inserted) /\ inserted # << >> /\ Range(inserted) = {lsn}
  BY ZenonT(60), <1>1, <1>2, OneEntry
<1>4. ListsRecords(node, inserted, 0) /\ node.replayedLsn = 0 /\ node.maxLsn = lsn
  BY ZenonT(60), <1>1, <1>2, <1>3, NewHeadLists
<1>5. Listed(node.lsnEntry, node.nextEle) = {lsn}
  BY ZenonT(60), <1>1, <1>2, NewHeadFacts
<1>6. Range(inserted) \subseteq NodeLsns /\ node.maxLsn \in Listed(node.lsnEntry, node.nextEle)
  BY <1>3, <1>4, <1>5
<1>7. ListsRecords(node, inserted, node.replayedLsn)
  BY ZenonT(60), <1>4
<1> QED BY ZenonT(60), <1>3, <1>6, <1>7 DEF NodeInv

\* HashMapInsertKey: the node lists the new record as well.
LEMMA NodeInsertKeeps ==
  ASSUME NodeInv, NEW lsn \in NodeLsns, NodeInsert(lsn)
  PROVE  NodeInv'
<1>1. /\ lsn > Last(inserted) /\ node' = Inserted(node, lsn) /\ inserted' = Append(inserted, lsn)
  BY ZenonT(60) DEF NodeInsert
<1>2. /\ inserted \in Seq(Nat) /\ Ascending(inserted) /\ inserted # << >> /\ Range(inserted) \subseteq NodeLsns
      /\ ListsRecords(node, inserted, node.replayedLsn)
  BY ZenonT(60) DEF NodeInv
<1>3. lsn \in Nat /\ \A e \in Range(inserted) : e \in Nat
  BY ZenonT(60), <1>2, LsnsPositive
<1>4. \A e \in Range(inserted) : e < lsn
  <2>1. Last(inserted) \in Range(inserted) /\ \A e \in Range(inserted) : e <= Last(inserted)
    BY ZenonT(60), <1>2, EndsOfList
  <2> QED BY <1>1, <1>3, <2>1
<1>5. /\ inserted' \in Seq(Nat) /\ Ascending(inserted') /\ inserted' # << >> /\ Range(inserted') = Range(inserted) \cup {lsn}
  BY ZenonT(60), <1>1, <1>2, <1>3, <1>4, AppendAscending
<1>6. /\ ListsRecords(node', inserted', node.replayedLsn)
      /\ node'.replayedLsn = node.replayedLsn /\ node'.maxLsn = lsn
      /\ Listed(node'.lsnEntry, node'.nextEle) = Listed(node.lsnEntry, node.nextEle) \cup {lsn}
  <2>1. LaterRecord(inserted', inserted, lsn)
    BY ZenonT(60), <1>3, <1>4, <1>5 DEF LaterRecord
  <2>2. /\ ListsRecords(node', inserted', node.replayedLsn) /\ Inserts(node', node, lsn) /\ lsn > node.maxLsn
    BY ZenonT(60), <1>1, <1>2, <2>1, InsertedLists
  <2> QED BY ZenonT(60), <2>2 DEF Inserts
<1>7. Range(inserted') \subseteq NodeLsns /\ node'.maxLsn \in Listed(node'.lsnEntry, node'.nextEle)
  BY <1>2, <1>5, <1>6
<1>8. ListsRecords(node', inserted', node'.replayedLsn)
  BY ZenonT(60), <1>6
<1> QED BY ZenonT(60), <1>5, <1>7, <1>8 DEF NodeInv

\* A replay: what is after the new version is listed.
LEMMA NodeReplayKeeps ==
  ASSUME NodeInv, NEW upto \in NodeLsns, NodeReplay(upto)
  PROVE  NodeInv'
<1>1. PICK list : list = BlockReplayList(node, upto).list
  OBVIOUS
<1>2. /\ list # << >> /\ node' = [node EXCEPT !.replayedLsn = Last(list)] /\ inserted' = inserted
  BY ZenonT(60), <1>1 DEF NodeReplay
<1>3. /\ Range(inserted) \subseteq NodeLsns /\ ListsRecords(node, inserted, node.replayedLsn)
      /\ node.maxLsn \in Listed(node.lsnEntry, node.nextEle)
  BY ZenonT(60) DEF NodeInv
<1>4. upto \in Nat /\ \A e \in Range(inserted) : e \in Nat
  BY ZenonT(60), <1>3, LsnsPositive
<1>5. PICK low \in Nat : low = node.replayedLsn
  <2>1. node \in HeadNodes
    BY ZenonT(60), <1>3 DEF ListsRecords, NodeInOrder
  <2> QED BY <2>1 DEF HeadNodes
<1>6. low <= upto /\ Lists(list, Range(inserted), low, upto)
  <2>1. low > upto => list = << >>
    BY ZenonT(60), <1>1, <1>3, <1>4, <1>5, AnswerRecords
  <2>2. low <= upto
    BY <1>2, <1>4, <2>1
  <2> QED BY ZenonT(60), <1>1, <1>3, <1>4, <1>5, <2>2, AnswerRecords
<1>7. Last(list) \in Range(inserted) /\ Last(list) > low
  BY ZenonT(60), <1>2, <1>4, <1>6, ListReaches
<1>8. PICK v \in Nat : v = Last(list) /\ v \in Range(inserted) /\ v > low
  BY ZenonT(60), <1>4, <1>7
<1>9. ListsRecords(node, inserted, v)
  <2>1. \A e \in Range(inserted) : e > v => e > low
    BY <1>4, <1>8
  <2> QED BY ZenonT(60), <1>3, <1>5, <2>1 DEF ListsRecords
<1>10. ListsRecords(node', inserted, node'.replayedLsn) /\ node'.maxLsn \in Listed(node'.lsnEntry, node'.nextEle)
  BY ZenonT(60), <1>2, <1>3, <1>8, <1>9, ReplayedLists
<1> QED BY ZenonT(60), <1>2, <1>10 DEF NodeInv

\* The element nodes that are left end with the last one.
LEMMA LastNodeKept ==
  ASSUME NEW h, ListsRecords(h, inserted, h.replayedLsn), h.nextEle # << >>, NEW upTo \in Nat,
         upTo = IF Collected(h) = << >> THEN h.replayedLsn ELSE Last(Collected(h)),
         NEW top, top \in Listed(h.lsnEntry, h.nextEle),
         \A e \in Listed(h.lsnEntry, h.nextEle) : e <= top
  PROVE  top \in Listed(h.lsnEntry, EleNodesKept(h))
<1>1. /\ Chain(h.lsnEntry, h.nextEle) /\ h \in HeadNodes
  BY ZenonT(60) DEF ListsRecords, NodeInOrder
<1>2. h.replayedLsn \in Nat
  BY <1>1 DEF HeadNodes
<1>3. PICK s, q, kept : s = h.lsnEntry /\ q = h.nextEle /\ kept = EleNodesKept(h)
  OBVIOUS
<1>4. PICK m \in 1 .. Len(q) : kept = SubSeq(q, m, Len(q))
  BY ZenonT(60), <1>1, <1>2, <1>3, FreedNodesCollected
<1>5. Chain(s, q) /\ Chain(s, kept)
  BY ZenonT(60), <1>1, <1>2, <1>3, FreedNodesCollected
<1>6. kept # << >> /\ Last(kept) = Last(q)
  <2>1. PICK n \in Nat : n = Len(q)
    <3>1. q \in Seq(Seq(Nat))
      BY ZenonT(60), <1>5 DEF Chain
    <3> QED BY ZenonT(60), <3>1, ListFacts
  <2>2. /\ Len(kept) = n - m + 1 /\ \A i \in 1 .. n - m + 1 : kept[i] = q[m - 1 + i]
    BY <1>4, <1>5, <2>1, ChainFrom
  <2>3. n - m + 1 \in 1 .. n - m + 1 /\ m - 1 + (n - m + 1) = n
    BY <1>4, <2>1
  <2>4. kept[n - m + 1] = q[n]
    BY ZenonT(60), <2>2, <2>3
  <2>5. kept # << >>
    <3>1. Len(kept) # 0
      BY <2>2, <2>3
    <3> QED BY <3>1
  <2> QED BY ZenonT(60), <2>1, <2>2, <2>4, <2>5 DEF Last
<1>7. Last(Last(q)) \in Listed(s, q) /\ \A e \in Listed(s, q) : e <= Last(Last(q))
  BY ZenonT(60), <1>3, <1>5, TopOfChain
<1>8. Last(Last(kept)) \in Listed(s, kept)
  BY ZenonT(60), <1>5, <1>6, TopOfChain
<1>9. Last(Last(q)) = top
  <2>1. Listed(s, q) \subseteq Nat
    BY ZenonT(60), <1>5, ListedNat
  <2>2. Last(Last(q)) <= top /\ top <= Last(Last(q)) /\ top \in Nat /\ Last(Last(q)) \in Nat
    BY ZenonT(60), <1>3, <1>7, <2>1
  <2> QED BY <2>2
<1> QED BY ZenonT(60), <1>3, <1>6, <1>8, <1>9

\* The background thread: what it has not collected is listed, and the last
\* element node stays.
LEMMA NodeVacuumKeeps ==
  ASSUME NodeInv, NodeVacuum
  PROVE  NodeInv'
<1>1. PICK list, low : list = Collected(node) /\ low = node.replayedLsn
  OBVIOUS
<1>2. PICK upTo : upTo = IF list = << >> THEN low ELSE Last(list)
  OBVIOUS
<1>3. PICK eles : eles = IF node.nextEle = << >> THEN node.nextEle ELSE EleNodesKept(node)
  OBVIOUS
<1>4. /\ Range(inserted) \subseteq NodeLsns /\ ListsRecords(node, inserted, low)
      /\ node.maxLsn \in Listed(node.lsnEntry, node.nextEle)
  BY ZenonT(60), <1>1 DEF NodeInv
<1>5. \A e \in Range(inserted) : e \in Nat
  BY ZenonT(60), <1>4, LsnsPositive
<1>6. /\ low = 0 \/ low \in Range(inserted)
      /\ \A e \in Listed(node.lsnEntry, node.nextEle) : e <= node.maxLsn
  BY ZenonT(60), <1>1, <1>4 DEF ListsRecords, NodeInOrder
<1>7. low \in Nat
  BY <1>5, <1>6
<1>8. list # << >> => Last(list) \in Range(inserted) /\ Last(list) > low
  BY ZenonT(60), <1>1, <1>4, <1>5, CollectedRecords
<1>9. upTo \in Nat /\ low <= upTo /\ (upTo = 0 \/ upTo \in Range(inserted))
  <2>1. CASE list = << >>
    BY <1>2, <1>6, <1>7, <2>1
  <2>2. CASE list # << >>
    <3>1. upTo \in Range(inserted) /\ upTo > low /\ upTo \in Nat
      BY ZenonT(60), <1>2, <1>5, <1>8, <2>2
    <3> QED BY <1>7, <3>1
  <2> QED BY ZenonT(60), <2>1, <2>2
<1>10. PICK mid : mid = [node EXCEPT !.nextEle = eles]
  BY ZenonT(60)
<1>11. node \in HeadNodes
  BY ZenonT(60), <1>4 DEF ListsRecords, NodeInOrder
<1>12. /\ ListsRecords(mid, inserted, upTo) /\ mid.maxLsn \in Listed(mid.lsnEntry, mid.nextEle)
  <2>1. CASE node.nextEle = << >>
    <3>1. eles = node.nextEle
      BY ZenonT(60), <1>3, <2>1
    <3>2. mid = node
      BY <1>10, <1>11, <3>1 DEF HeadNodes
    <3>3. \A e \in Range(inserted) : e > upTo => e > low
      BY <1>5, <1>7, <1>9
    <3>4. ListsRecords(node, inserted, upTo)
      BY ZenonT(60), <1>4, <3>3 DEF ListsRecords
    <3> QED BY ZenonT(60), <1>4, <3>2, <3>4
  <2>2. CASE node.nextEle # << >>
    <3>1. eles = EleNodesKept(node) /\ mid = [node EXCEPT !.nextEle = EleNodesKept(node)]
      BY ZenonT(60), <1>3, <1>10, <2>2
    <3>2. mid \in HeadNodes /\ ListsRecords(mid, inserted, upTo)
      BY ZenonT(60), <1>1, <1>2, <1>4, <1>5, <1>9, <2>2, <3>1, KeptListsRecords
    <3>3. node.maxLsn \in Listed(node.lsnEntry, EleNodesKept(node))
      BY ZenonT(60), <1>1, <1>2, <1>4, <1>6, <1>9, <2>2, LastNodeKept
    <3>4. mid.maxLsn = node.maxLsn /\ mid.lsnEntry = node.lsnEntry /\ mid.nextEle = EleNodesKept(node)
      BY <1>11, <3>1 DEF HeadNodes
    <3> QED BY ZenonT(60), <3>2, <3>3, <3>4
  <2> QED BY ZenonT(60), <2>1, <2>2
<1>13. node' = [mid EXCEPT !.replayedLsn = upTo] /\ inserted' = inserted
  <2>1. /\ node' = [node EXCEPT
                      !.nextEle = IF @ = << >> THEN @ ELSE EleNodesKept(node),
                      !.replayedLsn = IF Collected(node) = << >> THEN @ ELSE Last(Collected(node))]
        /\ inserted' = inserted
    BY ZenonT(60) DEF NodeVacuum
  <2>2. node' = [node EXCEPT !.nextEle = eles, !.replayedLsn = upTo]
    BY ZenonT(60), <1>1, <1>2, <1>3, <2>1
  <2>3. [node EXCEPT !.nextEle = eles, !.replayedLsn = upTo] = [mid EXCEPT !.replayedLsn = upTo]
    BY ZenonT(60), <1>10
  <2> QED BY ZenonT(60), <2>1, <2>2, <2>3
<1>14. ListsRecords(node', inserted, node'.replayedLsn) /\ node'.maxLsn \in Listed(node'.lsnEntry, node'.nextEle)
  BY ZenonT(60), <1>9, <1>12, <1>13, ReplayedLists
<1> QED BY ZenonT(60), <1>13, <1>14 DEF NodeInv

\* Every step keeps the invariant.
LEMMA NodeNextKeeps == NodeInv /\ [NodeNext]_<<node, inserted>> => NodeInv'
<1> SUFFICES ASSUME NodeInv, [NodeNext]_<<node, inserted>> PROVE NodeInv'
  OBVIOUS
<1>1. ASSUME NEW lsn \in NodeLsns, NodeInsert(lsn) PROVE NodeInv'
  BY ZenonT(60), <1>1, NodeInsertKeeps
<1>2. ASSUME NEW upto \in NodeLsns, NodeReplay(upto) PROVE NodeInv'
  BY ZenonT(60), <1>2, NodeReplayKeeps
<1>3. CASE NodeVacuum
  BY ZenonT(60), <1>3, NodeVacuumKeeps
<1>4. CASE UNCHANGED <<node, inserted>>
  BY <1>4 DEF NodeInv
<1> QED BY ZenonT(60), <1>1, <1>2, <1>3, <1>4 DEF NodeNext

\* Whatever is inserted, replayed and freed, the head node lists records of
\* the page only, in order and in nodes of the right sizes, and all of those
\* that have not been replayed.
THEOREM NodeInvariant == NodeSpec => []NodeInv
  BY NodeInitInv, NodeNextKeeps, PTL DEF NodeSpec
-----------------------------------------------------------------------------
(***************************************************************************)
(* What the invariant says of the algorithms.                              *)
(***************************************************************************)
\* What the proofs below take from the invariant.
LEMMA NodeFacts ==
  ASSUME NodeInv
  PROVE  /\ ListsRecords(node, inserted, node.replayedLsn) /\ NodeInOrder(node)
         /\ Chain(node.lsnEntry, node.nextEle) /\ Sizes(node.lsnEntry, node.nextEle)
         /\ node.replayedLsn \in Nat
         /\ inserted \in Seq(Nat) /\ Ascending(inserted) /\ \A e \in Range(inserted) : e \in Nat /\ e > 0
         /\ node.maxLsn \in Listed(node.lsnEntry, node.nextEle)
         /\ Listed(node.lsnEntry, node.nextEle) \subseteq Range(inserted)
<1>1. /\ ListsRecords(node, inserted, node.replayedLsn) /\ inserted \in Seq(Nat) /\ Ascending(inserted)
      /\ Range(inserted) \subseteq NodeLsns /\ node.maxLsn \in Listed(node.lsnEntry, node.nextEle)
  BY ZenonT(60) DEF NodeInv
<1>2. NodeInOrder(node) /\ Listed(node.lsnEntry, node.nextEle) \subseteq Range(inserted)
  BY ZenonT(60), <1>1 DEF ListsRecords
<1>3. /\ node \in HeadNodes /\ Chain(node.lsnEntry, node.nextEle) /\ Sizes(node.lsnEntry, node.nextEle)
  BY ZenonT(60), <1>2 DEF NodeInOrder
<1>4. node.replayedLsn \in Nat
  BY <1>3 DEF HeadNodes
<1>5. \A e \in Range(inserted) : e \in Nat /\ e > 0
  BY ZenonT(60), <1>1, LsnsPositive
<1> QED BY ZenonT(60), <1>1, <1>2, <1>3, <1>4, <1>5

\* The binary search is right on every array of the node.
LEMMA LowerBoundHolds == NodeInv => LowerBoundRight
<1> SUFFICES ASSUME NodeInv PROVE LowerBoundRight
  OBVIOUS
<1>1. Chain(node.lsnEntry, node.nextEle)
  BY ZenonT(60), NodeFacts
<1>2. node.lsnEntry \in Seq(Nat) /\ Ascending(node.lsnEntry) /\ node.nextEle \in Seq(Seq(Nat))
  BY ZenonT(60), <1>1 DEF Chain
<1>3. \A list \in Range(node.nextEle) : list \in Seq(Nat) /\ Ascending(list)
  <2> SUFFICES ASSUME NEW list \in Range(node.nextEle) PROVE list \in Seq(Nat) /\ Ascending(list)
    OBVIOUS
  <2>1. PICK i \in 1 .. Len(node.nextEle) : list = node.nextEle[i]
    <3>1. Range(node.nextEle) = {node.nextEle[i] : i \in 1 .. Len(node.nextEle)}
      BY ZenonT(60), <1>2, ListFacts
    <3> QED BY <3>1
  <2> QED BY ZenonT(60), <1>1, <2>1 DEF Chain, Blocks
<1>4. \A upto \in 0 .. LastLsn + 1 : upto \in Nat
  BY LastLsnAssumption
<1>5. \A list \in {node.lsnEntry} \cup Range(node.nextEle) : list \in Seq(Nat) /\ Ascending(list)
  BY <1>2, <1>3
<1> QED BY ZenonT(60), <1>4, <1>5, LowerBoundFound DEF LowerBoundRight

\* The list of a request, by the records the node lists.
LEMMA ReplayListHolds == NodeInv => ReplayListRight
<1> SUFFICES ASSUME NodeInv, NEW upto \in NodeLsns, upto >= node.replayedLsn
             PROVE  BlockReplayList(node, upto).list = Section(inserted, node.replayedLsn, upto)
  BY ZenonT(60) DEF ReplayListRight
<1>1. PICK low \in Nat : low = node.replayedLsn
  BY ZenonT(60), NodeFacts
<1>2. /\ ListsRecords(node, inserted, node.replayedLsn) /\ inserted \in Seq(Nat) /\ Ascending(inserted)
      /\ \A e \in Range(inserted) : e \in Nat
  BY ZenonT(60), NodeFacts
<1>3. upto \in Nat
  BY ZenonT(60), LsnsPositive
<1>4. low <= upto
  BY <1>1, <1>3
<1>5. Lists(BlockReplayList(node, upto).list, Range(inserted), low, upto)
  BY ZenonT(60), <1>1, <1>2, <1>3, <1>4, AnswerRecords
<1>6. Lists(Section(inserted, low, upto), Range(inserted), low, upto)
  BY ZenonT(60), <1>2, <1>3, SectionLists
<1> QED BY ZenonT(60), <1>1, <1>5, <1>6, ListsUnique

\* The version an older request starts from.
LEMMA OlderVersionHolds == NodeInv => OlderVersionRight
<1> SUFFICES ASSUME NodeInv, NEW upto \in NodeLsns, upto < node.replayedLsn,
                    NEW listed, listed = Section(Entries(node), 0, upto)
             PROVE  BlockReplayList(node, upto).replayedLsn =
                      IF listed = << >> THEN 0 ELSE Last(listed)
  BY ZenonT(60) DEF OlderVersionRight
<1>1. PICK S, v : S = Listed(node.lsnEntry, node.nextEle) /\ v = BlockReplayList(node, upto).replayedLsn
  OBVIOUS
<1>2. /\ ListsRecords(node, inserted, node.replayedLsn) /\ Chain(node.lsnEntry, node.nextEle)
      /\ S \subseteq Range(inserted) /\ \A e \in Range(inserted) : e \in Nat /\ e > 0
  BY ZenonT(60), <1>1, NodeFacts
<1>3. upto \in Nat /\ node.replayedLsn > upto
  <2>1. upto \in Nat /\ node.replayedLsn \in Nat
    BY ZenonT(60), LsnsPositive, NodeFacts
  <2> QED BY <2>1
<1>4. Newest(v, S, upto)
  BY ZenonT(60), <1>1, <1>2, <1>3, AnswerRecords
<1>5. Lists(listed, S, 0, upto)
  <2>1. Entries(node) \in Seq(Nat) /\ Ascending(Entries(node)) /\ Range(Entries(node)) = S
    BY ZenonT(60), <1>1, <1>2, EntriesInOrder
  <2>2. 0 \in Nat
    OBVIOUS
  <2> QED BY ZenonT(60), <1>3, <2>1, <2>2, SectionLists
<1>6. \A e \in S : e \in Nat /\ e > 0
  BY ZenonT(60), <1>2
<1>7. listed \in Seq(Nat) /\ Ascending(listed) /\ Range(listed) = {e \in S : 0 < e /\ e <= upto}
  BY ZenonT(60), <1>5 DEF Lists, Between
<1>8. CASE listed = << >>
  <2>1. Range(listed) = {}
    BY <1>8 DEF Range
  <2>2. \A e \in S : e > upto
    BY <1>3, <1>6, <1>7, <2>1
  <2>3. v = 0
    BY <1>3, <1>4, <1>6, <2>2 DEF Newest
  <2> QED BY ZenonT(60), <1>1, <1>8, <2>3
<1>9. CASE listed # << >>
  <2>1. PICK last : last = Last(listed) /\ last \in Range(listed) /\ \A e \in Range(listed) : e <= last
    BY ZenonT(60), <1>7, <1>9, EndsOfList
  <2>2. last \in S /\ last \in Nat /\ last <= upto
    BY <1>6, <1>7, <2>1
  <2>3. v \in S /\ v \in Nat /\ v <= upto /\ \A e \in S : e <= upto => e <= v
    <3>1. ~ (last > upto)
      BY <1>3, <2>2
    <3> QED BY ZenonT(60), <1>4, <1>6, <2>2, <3>1 DEF Newest
  <2>4. v \in Range(listed)
    BY <1>6, <1>7, <2>3
  <2>5. v = last
    BY <2>1, <2>2, <2>3, <2>4
  <2> QED BY ZenonT(60), <1>1, <1>9, <2>1, <2>5
<1> QED BY ZenonT(60), <1>8, <1>9

\* What is collected follows the version and is not empty before the end.
LEMMA CollectedHolds == NodeInv => CollectedRight
<1> SUFFICES ASSUME NodeInv PROVE CollectedRight
  OBVIOUS
<1>1. PICK list, low : list = Collected(node) /\ low = node.replayedLsn
  OBVIOUS
<1>2. /\ ListsRecords(node, inserted, low) /\ Chain(node.lsnEntry, node.nextEle) /\ low \in Nat
      /\ inserted \in Seq(Nat) /\ Ascending(inserted) /\ \A e \in Range(inserted) : e \in Nat
      /\ node.maxLsn \in Listed(node.lsnEntry, node.nextEle)
      /\ Listed(node.lsnEntry, node.nextEle) \subseteq Range(inserted)
  BY ZenonT(60), <1>1, NodeFacts
<1>3. ASSUME list # << >> PROVE list = Section(inserted, low, Last(list))
  <2>1. Last(list) \in Range(inserted) /\ Lists(list, Range(inserted), low, Last(list))
    BY ZenonT(60), <1>1, <1>2, <1>3, CollectedRecords
  <2>2. Lists(Section(inserted, low, Last(list)), Range(inserted), low, Last(list))
    BY ZenonT(60), <1>2, <2>1, SectionLists
  <2> QED BY ZenonT(60), <2>1, <2>2, ListsUnique
<1>4. ASSUME low < node.maxLsn PROVE list # << >>
  <2>1. list = << >> => \A e \in Listed(node.lsnEntry, node.nextEle) : e <= low
    BY ZenonT(60), <1>1, <1>2, CollectedExact
  <2>2. node.maxLsn \in Nat
    BY ZenonT(60), <1>2
  <2>3. ~ (node.maxLsn <= low)
    BY <1>2, <1>4, <2>2
  <2> QED BY ZenonT(60), <1>2, <2>1, <2>3
<1> QED BY ZenonT(60), <1>1, <1>3, <1>4 DEF CollectedRight

\* The sizes, and the end of the last element node.
LEMMA FilledHolds == NodeInv => NodesFilled
<1> SUFFICES ASSUME NodeInv PROVE NodesFilled
  OBVIOUS
<1>1. PICK s, q, max : s = node.lsnEntry /\ q = node.nextEle /\ max = node.maxLsn
  OBVIOUS
<1>2. Chain(s, q) /\ Sizes(s, q) /\ max \in Listed(s, q) /\ \A e \in Listed(s, q) : e <= max
  BY ZenonT(60), <1>1, NodeFacts DEF NodeInOrder
<1>3. DOMAIN q = 1 .. Len(q)
  BY ZenonT(60), <1>2, ListFacts DEF Chain
<1>4. /\ Len(s) \in 1 .. HASH_HEAD_NUM /\ \A i \in DOMAIN q : Len(q[i]) \in 1 .. HASH_ELEM_NUM
  BY ZenonT(60), <1>2, <1>3 DEF Sizes
<1>5. q # << >> => Last(Last(q)) = max
  <2>1. Listed(s, q) \subseteq Nat
    BY ZenonT(60), <1>2, ListedNat
  <2>2. q # << >> => Last(Last(q)) \in Listed(s, q) /\ \A e \in Listed(s, q) : e <= Last(Last(q))
    BY ZenonT(60), <1>2, TopOfChain
  <2>3. q # << >> => /\ Last(Last(q)) \in Nat /\ max \in Nat
                     /\ Last(Last(q)) <= max /\ max <= Last(Last(q))
    BY ZenonT(60), <1>2, <2>1, <2>2
  <2> QED BY <2>3
<1> QED BY ZenonT(60), <1>1, <1>4, <1>5 DEF NodesFilled

\* LsnListFindLowerBound finds the last entry not above an LSN, in every
\* array that insertions, replays and vacuuming build.
THEOREM LowerBoundAlways == NodeSpec => []LowerBoundRight
  BY NodeInvariant, LowerBoundHolds, PTL

\* HashMapGetBlockReplayList gives a request exactly the records after
\* replayedLsn and up to the LSN asked for, whatever element nodes have been freed.
THEOREM ReplayListAlways == NodeSpec => []ReplayListRight
  BY NodeInvariant, ReplayListHolds, PTL

\* HashMapGetBlockReplayList directs a request for an older version to the
\* largest listed LSN that is not above the LSN asked for.
THEOREM OlderVersionAlways == NodeSpec => []OlderVersionRight
  BY NodeInvariant, OlderVersionHolds, PTL

\* BackgroundReplayHeadNode collects something while the newest record has not
\* been replayed, and leaves no gap.
THEOREM CollectedAlways == NodeSpec => []CollectedRight
  BY NodeInvariant, CollectedHolds, PTL

\* No array of a head node or an element node is overfull or, in spite of
\* VacuumHashNode, empty, and the last element node ends with maxLsn.
THEOREM NodesFilledAlways == NodeSpec => []NodesFilled
  BY NodeInvariant, FilledHolds, PTL
=============================================================================
