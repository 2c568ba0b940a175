------------------------------ MODULE LogIndex ------------------------------
(***************************************************************************)
(* The versions of one page on the storage server.                         *)
(*                                                                         *)
(* The startup thread parses the WAL and adds the LSN of every record that *)
(* changes the page to the page's head node in pageVersionHashMap          *)
(* (logindex_hashmap.cpp).  A request for the page as of an LSN            *)
(* (ReadBufferCommon, rpcserver.cpp) replays the listed records it needs   *)
(* and stores the result in RocksDB; a background thread                   *)
(* (background_hashmap_vacuumer.cpp) replays ahead of the requests and     *)
(* frees element nodes.  All of them meet in the head's headLock.          *)
(*                                                                         *)
(* A page is the sequence of the records applied to the base page.  The    *)
(* bucket the head lives in, and its lock, are module HashBucket.          *)
(***************************************************************************)
EXTENDS HeadNode

CONSTANTS
  Readers,        \* threads serving ReadBufferCommon for this page
  MaxLsn,         \* bound: the last LSN of the WAL
  Vacuumer,       \* the background thread at work on the page's bucket
  NONE            \* no lock holder, no head node, no page

Lsns == 1 .. MaxLsn

ASSUME ThreadsAssumption ==
  /\ Vacuumer \notin Readers
  /\ NONE \notin Readers \cup {Vacuumer}

ASSUME ValuesAssumption ==
  /\ MaxLsn \in Nat
  /\ NONE \notin HeadNodes
  /\ NONE \notin Seq(Lsns)

VARIABLES
  head,      \* the page's HashNodeHead; nextEle is the chain of element nodes
  headLock,  \* the thread that holds headLock exclusively
  rocksdb,   \* the stored versions of the page, by LSN
  rd,        \* each reader's locals
  vac,       \* the background thread's locals
  wal        \* the records parsed so far that change this page (history)

vars == <<head, headLock, rocksdb, rd, vac, wal>>

\* What a thread that replays carries: the version it starts from, the
\* records to apply and the page it gets.
Idle == [pc |-> "idle", replayedLsn |-> 0, list |-> <<>>, page |-> NONE]

\* A reader also has its target, and remembers the records parsed when it
\* looked at the list (a history field, for the properties).
IdleReader ==
  [pc |-> "idle", replayedLsn |-> 0, list |-> <<>>, page |-> NONE,
   target |-> 0, seen |-> <<>>]

Init ==
  /\ head = NONE
  /\ headLock = NONE
  /\ rocksdb = <<>>
  /\ rd = [r \in Readers |-> IdleReader]
  /\ vac = Idle
  /\ wal = <<>>

-----------------------------------------------------------------------------
(* The startup thread *)

\* ParseXLogBlocksLsn for a record at lsn that refers to the page.  Records
\* come in WAL order; one that refers to the page twice is inserted twice.
\* The insertion takes headLock shared, which excludes the holders below.
ParseXLogBlocksLsn(lsn) ==
  /\ \A i \in DOMAIN wal : wal[i] <= lsn
  /\ head = NONE \/ headLock = NONE
  /\ head' = IF head = NONE THEN NewHead(lsn) ELSE Inserted(head, lsn)
  /\ wal' = IF lsn \in Range(wal) THEN wal ELSE Append(wal, lsn)
  /\ UNCHANGED <<headLock, rocksdb, rd, vac>>

-----------------------------------------------------------------------------
(* RocksDB *)

GetPageFromRocksdb(lsn) == IF lsn \in DOMAIN rocksdb THEN rocksdb[lsn] ELSE NONE

PutPage2Rocksdb(lsn, page) ==
  rocksdb' = [l \in DOMAIN rocksdb \cup {lsn} |-> IF l = lsn THEN page ELSE rocksdb[l]]

DeletePageFromRocksdb(lsn) == rocksdb' = Restrict(rocksdb, DOMAIN rocksdb \ {lsn})

\* ApplyLsnList on the stored version, or on the base page when nothing has
\* been replayed (ApplyLsnListAndGetUpdatedPage).
Apply(t) ==
  LET base == IF t.replayedLsn > 0 THEN GetPageFromRocksdb(t.replayedLsn)
                                   ELSE <<>>
  IN  IF base = NONE THEN NONE ELSE base \o t.list

-----------------------------------------------------------------------------
(* ReadBufferCommon.  When WaitParse returns, the target need not be parsed. *)

\* The lookup in the bucket.  A page without a head is read from its file.
ReadBufferCommon(r, target) ==
  /\ rd[r].pc = "idle"
  /\ rd' = [rd EXCEPT ![r] =
              [pc |-> IF head = NONE THEN "done" ELSE "lock",
               replayedLsn |-> 0, list |-> <<>>,
               page |-> IF head = NONE THEN <<>> ELSE NONE,
               target |-> target, seen |-> <<>>]]
  /\ UNCHANGED <<head, headLock, rocksdb, vac, wal>>

\* HashMapGetBlockReplayList once it gets headLock.  It keeps the lock if
\* there is something to replay; "not found" sends the caller to the file.
HashMapGetBlockReplayList(r) ==
  LET answer == BlockReplayList(head, rd[r].target)
  IN  /\ rd[r].pc = "lock"
      /\ headLock = NONE
      /\ headLock' = IF answer.list # <<>> THEN r ELSE NONE
      /\ rd' = [rd EXCEPT ![r] =
                  [pc |-> IF ~ answer.found THEN "done"
                          ELSE IF answer.list = <<>> THEN "fetch" ELSE "apply",
                   replayedLsn |-> answer.replayedLsn, list |-> answer.list,
                   page |-> IF answer.found THEN NONE ELSE <<>>,
                   target |-> @.target, seen |-> wal]]
      /\ UNCHANGED <<head, rocksdb, vac, wal>>

\* A fault: replayedLsn is read from the head node again, without the lock.
FaultyFetchReread(r) ==
  /\ rd[r].pc = "fetch"
  /\ rd' = [rd EXCEPT ![r] =
              [@ EXCEPT !.pc = "done", !.page = GetPageFromRocksdb(head.replayedLsn)]]
  /\ UNCHANGED <<head, headLock, rocksdb, vac, wal>>

\* An empty list: the version is read from RocksDB, without the lock.
Fetch(r) ==
  /\ rd[r].pc = "fetch"
  /\ rd' = [rd EXCEPT ![r] =
              [@ EXCEPT !.pc = "done", !.page = GetPageFromRocksdb(rd[r].replayedLsn)]]
  /\ UNCHANGED <<head, headLock, rocksdb, vac, wal>>

\* A fault: a reply with a base page behind it never counts as complete, and
\* is asked for again.
FaultyApplyRepeats(r) ==
  /\ rd[r].pc = "apply"
  /\ rd' = IF rd[r].replayedLsn = 0
             THEN [rd EXCEPT ![r].pc = "put", ![r].page = Apply(rd[r])]
             ELSE [rd EXCEPT ![r].page = IF @ = NONE THEN Apply(rd[r]) ELSE NONE]
  /\ UNCHANGED <<head, headLock, rocksdb, vac, wal>>

ApplyLsnList(r) ==
  /\ rd[r].pc = "apply"
  /\ rd' = [rd EXCEPT ![r] = [@ EXCEPT !.pc = "put", !.page = Apply(rd[r])]]
  /\ UNCHANGED <<head, headLock, rocksdb, vac, wal>>

Put(r) ==
  /\ rd[r].pc = "put"
  /\ PutPage2Rocksdb(Last(rd[r].list), rd[r].page)
  /\ rd' = [rd EXCEPT ![r].pc = "update"]
  /\ UNCHANGED <<head, headLock, vac, wal>>

\* A fault: the version the replay started from is forgotten.
FaultyUpdateKeepsOld(r) ==
  /\ rd[r].pc = "update"
  /\ head' = [head EXCEPT !.replayedLsn = Last(rd[r].list)]
  /\ headLock' = NONE
  /\ rd' = [rd EXCEPT ![r].pc = "done"]
  /\ UNCHANGED <<rocksdb, vac, wal>>

\* HashMapUpdateReplayedLsn with holdHeadLock: it releases the lock.
HashMapUpdateReplayedLsn(r) ==
  /\ rd[r].pc = "update"
  /\ head' = [head EXCEPT !.replayedLsn = Max({@, Last(rd[r].list)})]
  /\ headLock' = NONE
  /\ rd' = [rd EXCEPT ![r].pc = IF rd[r].replayedLsn > 0 THEN "delete" ELSE "done"]
  /\ UNCHANGED <<rocksdb, vac, wal>>

\* A fault: replayedLsn is read again, after the lock has been released.
FaultyDeleteReread(r) ==
  /\ rd[r].pc = "delete"
  /\ DeletePageFromRocksdb(head.replayedLsn)
  /\ rd' = [rd EXCEPT ![r].pc = "done"]
  /\ UNCHANGED <<head, headLock, vac, wal>>

\* The version the replay started from is deleted without the lock.
Delete(r) ==
  /\ rd[r].pc = "delete"
  /\ DeletePageFromRocksdb(rd[r].replayedLsn)
  /\ rd' = [rd EXCEPT ![r].pc = "done"]
  /\ UNCHANGED <<head, headLock, vac, wal>>

Return(r) ==
  /\ rd[r].pc = "done"
  /\ rd' = [rd EXCEPT ![r] = IdleReader]
  /\ UNCHANGED <<head, headLock, rocksdb, vac, wal>>

-----------------------------------------------------------------------------
(* The background thread.  The replayLock of the bucket keeps the other four *)
(* away from the heads of this bucket.                                       *)

\* BackgroundHashMapCleanRocksdb notes the head under the bucket's lock.
CollectHead ==
  /\ vac.pc = "idle"
  /\ head # NONE
  /\ head.replayedLsn < head.maxLsn
  /\ vac' = [vac EXCEPT !.pc = "lock"]
  /\ UNCHANGED <<head, headLock, rocksdb, rd, wal>>

\* pthread_rwlock_trywrlock fails, or ITER_HEAD_INTERVAL has not elapsed.
SkipHead ==
  /\ vac.pc = "lock"
  /\ vac' = Idle
  /\ UNCHANGED <<head, headLock, rocksdb, rd, wal>>

BackgroundReplayHeadNode ==
  /\ vac.pc = "lock"
  /\ headLock = NONE
  /\ head' = IF head.nextEle = <<>> THEN head
             ELSE [head EXCEPT !.nextEle = EleNodesKept(head)]
  /\ IF Collected(head) = <<>>
       THEN vac' = Idle /\ UNCHANGED headLock
       ELSE /\ vac' = [pc |-> "apply", replayedLsn |-> head.replayedLsn,
                       list |-> Collected(head), page |-> vac.page]
            /\ headLock' = Vacuumer
  /\ UNCHANGED <<rocksdb, rd, wal>>

BackgroundApply ==
  /\ vac.pc = "apply"
  /\ vac' = [vac EXCEPT !.pc = "put", !.page = Apply(vac)]
  /\ UNCHANGED <<head, headLock, rocksdb, rd, wal>>

BackgroundPut ==
  /\ vac.pc = "put"
  /\ PutPage2Rocksdb(Last(vac.list), vac.page)
  /\ vac' = [vac EXCEPT !.pc = IF vac.replayedLsn > 0 THEN "delete" ELSE "update"]
  /\ UNCHANGED <<head, headLock, rd, wal>>

\* Here the old version goes first, but the lock is still held.
BackgroundDelete ==
  /\ vac.pc = "delete"
  /\ DeletePageFromRocksdb(vac.replayedLsn)
  /\ vac' = [vac EXCEPT !.pc = "update"]
  /\ UNCHANGED <<head, headLock, rd, wal>>

BackgroundUpdate ==
  /\ vac.pc = "update"
  /\ head' = [head EXCEPT !.replayedLsn = Last(vac.list)]
  /\ headLock' = NONE
  /\ vac' = Idle
  /\ UNCHANGED <<rocksdb, rd, wal>>

-----------------------------------------------------------------------------
\* The steps a thread takes once it has got the lock, or needs none.
ReaderProceeds(r) ==
  \/ Fetch(r)
  \/ ApplyLsnList(r)
  \/ Put(r)
  \/ HashMapUpdateReplayedLsn(r)
  \/ Delete(r)
  \/ Return(r)

VacuumerProceeds ==
  \/ BackgroundApply
  \/ BackgroundPut
  \/ BackgroundDelete
  \/ BackgroundUpdate

Next ==
  \/ \E lsn \in Lsns : ParseXLogBlocksLsn(lsn)
  \/ \E r \in Readers, target \in Lsns : ReadBufferCommon(r, target)
  \/ \E r \in Readers : HashMapGetBlockReplayList(r)
  \/ \E r \in Readers : ReaderProceeds(r)
  \/ CollectHead
  \/ SkipHead
  \/ BackgroundReplayHeadNode
  \/ VacuumerProceeds

Spec == Init /\ [][Next]_vars

\* A running thread is eventually scheduled.  Nothing is assumed of who gets
\* a contended headLock, nor of the parser.
FairSpec ==
  /\ Spec
  /\ \A r \in Readers : WF_vars(ReaderProceeds(r))
  /\ WF_vars(VacuumerProceeds)

-----------------------------------------------------------------------------
(* Properties *)

Pages == {NONE} \cup Seq(Lsns)

\* Type correctness.  Every element node is non-empty, and no node is
\* overfull.
LogIndexTypeOK ==
  /\ head = NONE \/
       /\ head.lsnEntry \in Seq(Lsns) /\ Len(head.lsnEntry) \in 1 .. HASH_HEAD_NUM
       /\ \A i \in DOMAIN head.nextEle :
            /\ head.nextEle[i] \in Seq(Lsns)
            /\ Len(head.nextEle[i]) \in 1 .. HASH_ELEM_NUM
       /\ head.maxLsn \in Lsns
       /\ head.replayedLsn \in 0 .. MaxLsn
  /\ headLock \in Readers \cup {Vacuumer, NONE}
  /\ DOMAIN rocksdb \subseteq Lsns
  /\ \A lsn \in DOMAIN rocksdb : rocksdb[lsn] \in Pages
  /\ \A r \in Readers :
       /\ rd[r].pc \in {"idle", "lock", "fetch", "apply", "put", "update",
                        "delete", "done"}
       /\ rd[r].target \in 0 .. MaxLsn
       /\ rd[r].replayedLsn \in 0 .. MaxLsn
       /\ rd[r].list \in Seq(Lsns)
       /\ rd[r].page \in Pages
  /\ vac.pc \in {"idle", "lock", "apply", "put", "delete", "update"}
  /\ vac.list \in Seq(Lsns)
  /\ vac.page \in Pages
  /\ wal \in Seq(Lsns)

\* A version stored in RocksDB is the base page with exactly the WAL records
\* up to its LSN applied, each once and in order: replays by several threads,
\* each from the version the other left, neither skip nor repeat a record.
VersionsExact ==
  \A lsn \in DOMAIN rocksdb : rocksdb[lsn] = Upto(wal, lsn)

\* Whoever takes headLock finds the version replayedLsn names in RocksDB: the
\* deletion that a reader performs after it has released the lock
\* (rpcserver.cpp:401) never hits the version the next replay starts from.
ReplayedVersionStored ==
  (head # NONE /\ headLock = NONE /\ head.replayedLsn > 0)
    => head.replayedLsn \in DOMAIN rocksdb

\* Freeing element nodes loses no record that is still to be replayed: but
\* for the background thread, which frees the nodes it has just collected
\* before it publishes their replay, everyone finds all of them listed.
UnreplayedKept ==
  head # NONE /\ headLock # Vacuumer
    => Beyond(Entries(head), head.replayedLsn) = Beyond(wal, head.replayedLsn)

\* No version is left behind: a stored version is the one replayedLsn names,
\* one that a thread has put and is about to publish, or one that a thread
\* has still to delete.
NoVersionLeaks ==
  \A lsn \in DOMAIN rocksdb :
    \/ lsn = head.replayedLsn
    \/ \E r \in Readers :
         \/ rd[r].pc = "update" /\ lsn = Last(rd[r].list)
         \/ rd[r].pc = "delete" /\ lsn = rd[r].replayedLsn
    \/ vac.pc \in {"delete", "update"} /\ lsn = Last(vac.list)

\* The page a request gets by replay holds exactly the records up to its
\* target that were parsed when it looked at the list.
ReplayedAnswerExact ==
  \A r \in Readers :
    rd[r].pc = "done" /\ rd[r].list # <<>>
      => rd[r].page = Upto(rd[r].seen, rd[r].target)

\* headLock is always released again: no path of ReadBufferCommon or of
\* BackgroundReplayHeadNode forgets it.
LockReleased == headLock # NONE ~> headLock = NONE

-----------------------------------------------------------------------------
(* What a comment in the code says *)

\* rpcserver.cpp:342, on an empty list: "Then replayLSN is what we needed
\* from RocksDB" - so that version has to be there.
NeededVersionStored ==
  \A r \in Readers :
    rd[r].pc = "fetch" /\ rd[r].replayedLsn > 0
      => rd[r].replayedLsn \in DOMAIN rocksdb
=============================================================================
