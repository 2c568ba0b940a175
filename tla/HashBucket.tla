----------------------------- MODULE HashBucket -----------------------------
(***************************************************************************)
(* One bucket of pageVersionHashMap: the list of its head nodes and the    *)
(* locks the threads of the storage server take on the way to a head       *)
(* (logindex_hashmap.cpp), and the background threads that scan the list   *)
(* (BackgroundHashMapCleanRocksdb, background_hashmap_vacuumer.cpp).       *)
(*                                                                         *)
(* What happens to a head under its headLock is module LogIndex; here a    *)
(* head either has records to replay or not.                               *)
(***************************************************************************)
EXTENDS Integers, Sequences, FiniteSets, Functions

CONSTANTS
  Keys,             \* the pages whose heads fall into this bucket
  Readers,          \* threads serving ReadBufferCommon
  Vacuumers,        \* the background threads
  Parser,           \* the startup thread
  ITER_BATCH_SIZE,  \* heads a background thread collects at a time
  NULL

Threads == Readers \cup Vacuumers \cup {Parser}

ASSUME BucketAssumption ==
  /\ ITER_BATCH_SIZE \in Nat \ {0}
  /\ NULL \notin Keys \cup Threads
  /\ IsFiniteSet(Keys)
  /\ Readers \cap Vacuumers = {}
  /\ Parser \notin Readers \cup Vacuumers

VARIABLES
  nodeList,    \* the bucket's first head
  nextHead,    \* of every head; NULL for a page without a head, too
  prevHead,
  heads,       \* the pages that have a head (history)
  bucketLock,  \* the holder of bucketLock for writing, and those for reading
  headLock,    \* the holder of each headLock; the parser's hold is shared
  replayLock,  \* the background thread that scans the bucket
  pending,     \* heads with replayedLsn < maxLsn
  pc, target,  \* each thread's next step, and the page it is about
  scan         \* the locals of each background thread

listVars == <<nodeList, nextHead, prevHead, heads>>
lockVars == <<bucketLock, headLock, replayLock>>
vars == <<listVars, lockVars, pending, pc, target, scan>>

\* A background thread's iter, currentFinishHeadNum, finishIterThisBucket and
\* headNodes; what it has visited, and the heads there were when it began,
\* are history.
NoScan == [iter |-> NULL, finishHeadNum |-> 0, finish |-> FALSE, headNodes |-> {},
           visited |-> {}, due |-> {}]

Init ==
  /\ nodeList = NULL
  /\ nextHead = [k \in Keys |-> NULL]
  /\ prevHead = [k \in Keys |-> NULL]
  /\ heads = {}
  /\ bucketLock = [writer |-> NULL, readers |-> {}]
  /\ headLock = [k \in Keys |-> NULL]
  /\ replayLock = NULL
  /\ pending = {}
  /\ pc = [t \in Threads |-> "idle"]
  /\ target = [t \in Threads |-> NULL]
  /\ scan = [v \in Vacuumers |-> NoScan]

Goto(t, from, to) == pc[t] = from /\ pc' = [pc EXCEPT ![t] = to]

\* The thread is about page k from here on; NULL once it is done with it.
About(t, k) == target' = [target EXCEPT ![t] = k]

-----------------------------------------------------------------------------
(* Locks *)

WriteLockBucket(t) ==
  /\ bucketLock = [writer |-> NULL, readers |-> {}]
  /\ bucketLock' = [bucketLock EXCEPT !.writer = t]

ReadLockBucket(t) ==
  /\ bucketLock.writer = NULL
  /\ bucketLock' = [bucketLock EXCEPT !.readers = @ \cup {t}]

UnlockBucket(t) ==
  bucketLock' = [writer |-> IF bucketLock.writer = t THEN NULL ELSE bucketLock.writer,
                 readers |-> bucketLock.readers \ {t}]

LockHead(t, k) ==
  /\ headLock[k] = NULL
  /\ headLock' = [headLock EXCEPT ![k] = t]

UnlockHead(k) == headLock' = [headLock EXCEPT ![k] = NULL]

-----------------------------------------------------------------------------
(* The list *)

\* The heads from k on: node[n] is the n-th head after k, NULL behind the last.
From(k) ==
  LET node[n \in 0 .. Cardinality(Keys)] ==
        IF n = 0 THEN k
        ELSE IF node[n - 1] = NULL THEN NULL ELSE nextHead[node[n - 1]]
      length == Cardinality({n \in 0 .. Cardinality(Keys) : node[n] # NULL})
  IN  [i \in 1 .. length |-> node[i - 1]]

\* The search loop of every operation.
Found(k) == k \in Range(From(nodeList))

\* A new head goes to the front.
CreateHead(k) ==
  /\ prevHead' = [j \in Keys |-> IF j = nodeList THEN k ELSE prevHead[j]]
  /\ nextHead' = [nextHead EXCEPT ![k] = nodeList]
  /\ nodeList' = k
  /\ heads' = heads \cup {k}

\* A fault: the head is put in front of the list without being taken out.
FaultyMoveToFront(k) ==
  /\ IF prevHead[k] = NULL THEN UNCHANGED <<nodeList, nextHead, prevHead>>
     ELSE /\ nextHead' = [nextHead EXCEPT ![k] = nodeList]
          /\ prevHead' = [prevHead EXCEPT ![k] = NULL]
          /\ nodeList' = k
  /\ UNCHANGED heads

\* A fault: the head that follows keeps its prevHead.
FaultyMoveLeavesPrev(k) ==
  /\ IF prevHead[k] = NULL THEN UNCHANGED <<nodeList, nextHead, prevHead>>
     ELSE /\ nextHead' = [nextHead EXCEPT ![prevHead[k]] = nextHead[k], ![k] = nodeList]
          /\ prevHead' = [prevHead EXCEPT ![k] = NULL]
          /\ nodeList' = k
  /\ UNCHANGED heads

\* A head that was found moves to the front.  The former first head's
\* prevHead is not set.
MoveToFront(k) ==
  /\ IF prevHead[k] = NULL THEN UNCHANGED <<nodeList, nextHead, prevHead>>
     ELSE /\ nextHead' = [nextHead EXCEPT ![prevHead[k]] = nextHead[k], ![k] = nodeList]
          /\ prevHead' = [j \in Keys |-> IF j = k THEN NULL
                                         ELSE IF j = nextHead[k] THEN prevHead[k]
                                         ELSE prevHead[j]]
          /\ nodeList' = k
  /\ UNCHANGED heads

-----------------------------------------------------------------------------
(* HashMapInsertKey, by the startup thread *)

\* Both calls start with bucketLock for writing.
Begin(t, k) ==
  /\ Goto(t, "idle", "search")
  /\ WriteLockBucket(t)
  /\ About(t, k)
  /\ UNCHANGED <<listVars, headLock, replayLock, pending, scan>>

InsertSearch ==
  LET k == target[Parser]
  IN  /\ IF Found(k)
           THEN /\ Goto(Parser, "search", "head")
                /\ MoveToFront(k)
                /\ UNCHANGED <<pending, target>>
           ELSE /\ Goto(Parser, "search", "idle")
                /\ CreateHead(k)
                /\ pending' = pending \cup {k}
                /\ About(Parser, NULL)
      /\ UnlockBucket(Parser)
      /\ UNCHANGED <<headLock, replayLock, scan>>

InsertLockHead ==
  /\ Goto(Parser, "head", "insert")
  /\ LockHead(Parser, target[Parser])
  /\ UNCHANGED <<listVars, bucketLock, replayLock, pending, target, scan>>

InsertLsn ==
  /\ Goto(Parser, "insert", "idle")
  /\ pending' = pending \cup {target[Parser]}
  /\ UnlockHead(target[Parser])
  /\ About(Parser, NULL)
  /\ UNCHANGED <<listVars, bucketLock, replayLock, scan>>

-----------------------------------------------------------------------------
(* ReadBufferCommon *)

\* HashMapGetBlockReplayList up to the release of bucketLock.
ReadSearch(r) ==
  LET k == target[r]
  IN  /\ IF Found(k)
           THEN Goto(r, "search", "head") /\ MoveToFront(k) /\ UNCHANGED target
           ELSE Goto(r, "search", "idle") /\ About(r, NULL) /\ UNCHANGED listVars
      /\ UnlockBucket(r)
      /\ UNCHANGED <<headLock, replayLock, pending, scan>>

\* A fault: the lock is not waited for.
FaultyReadLockHead(r) ==
  /\ target[r] \in pending
  /\ Goto(r, "head", "replay")
  /\ headLock' = [headLock EXCEPT ![target[r]] = r]
  /\ UNCHANGED <<listVars, bucketLock, replayLock, pending, target, scan>>

\* The lock is kept for a replay.  It is released at once when all records
\* have been replayed, when the target is not above replayedLsn, and when it
\* is below the first record.
ReadLockHead(r) ==
  LET k == target[r]
  IN  /\ \/ /\ k \in pending
            /\ Goto(r, "head", "replay")
            /\ LockHead(r, k)
            /\ UNCHANGED target
         \/ /\ Goto(r, "head", "idle")
            /\ headLock[k] = NULL /\ UNCHANGED headLock
            /\ About(r, NULL)
      /\ UNCHANGED <<listVars, bucketLock, replayLock, pending, scan>>

\* HashMapUpdateReplayedLsn searches the bucket again, while it holds the
\* head's lock.
UpdateLockBucket(r) ==
  /\ Goto(r, "replay", "update")
  /\ ReadLockBucket(r)
  /\ UNCHANGED <<listVars, headLock, replayLock, pending, target, scan>>

\* A fault: the lock is only released when replayedLsn reaches maxLsn.
FaultyUpdateKeepsLock(r) ==
  /\ Goto(r, "update", "idle")
  /\ UnlockBucket(r)
  /\ \/ UnlockHead(target[r]) /\ pending' = pending \ {target[r]}
     \/ UNCHANGED <<headLock, pending>>
  /\ About(r, NULL)
  /\ UNCHANGED <<listVars, replayLock, scan>>

\* Should the head not be found, its lock is not released.
UpdateReplayedLsn(r) ==
  LET k == target[r]
  IN  /\ Goto(r, "update", "idle")
      /\ UnlockBucket(r)
      /\ IF Found(k)
           THEN /\ UnlockHead(k)
                /\ \/ pending' = pending \ {k}
                   \/ UNCHANGED pending  \* the target was below maxLsn
           ELSE UNCHANGED <<headLock, pending>>
      /\ About(r, NULL)
      /\ UNCHANGED <<listVars, replayLock, scan>>

-----------------------------------------------------------------------------
(* BackgroundHashMapCleanRocksdb *)

\* iter is set before any lock is taken.
ReadNodeList(v) ==
  /\ Goto(v, "idle", "trylock")
  /\ scan' = [scan EXCEPT ![v].iter = nodeList, ![v].due = heads]
  /\ UNCHANGED <<listVars, lockVars, pending, target>>

\* replayLock is taken, or ITER_BUCKET_INTERVAL has not elapsed.
SkipBucket(v) ==
  /\ Goto(v, "trylock", "idle")
  /\ scan' = [scan EXCEPT ![v] = NoScan]
  /\ UNCHANGED <<listVars, lockVars, pending, target>>

TryReplayLock(v) ==
  /\ Goto(v, "trylock", "scan")
  /\ replayLock = NULL
  /\ replayLock' = v
  /\ UNCHANGED <<listVars, bucketLock, headLock, pending, target, scan>>

ScanLockBucket(v) ==
  /\ Goto(v, "scan", "collect")
  /\ ReadLockBucket(v)
  /\ UNCHANGED <<listVars, headLock, replayLock, pending, target, scan>>

\* The heads of one turn.  Both the finished heads and those of this turn are
\* counted from iter, which is where the last turn stopped.
Batch(v) ==
  LET all == From(scan[v].iter)
      skip == scan[v].finishHeadNum
      rest == SubSeq(all, skip + 1, Len(all))
      batch == SubSeq(rest, 1, IF Len(rest) < ITER_BATCH_SIZE THEN Len(rest)
                                                              ELSE ITER_BATCH_SIZE)
  IN  [seen |-> Range(batch),
       iter |-> IF Len(rest) > ITER_BATCH_SIZE THEN rest[ITER_BATCH_SIZE + 1] ELSE NULL,
       finish |-> Len(rest) < ITER_BATCH_SIZE]

CollectBatch(v) ==
  LET b == Batch(v)
  IN  /\ Goto(v, "collect", "visit")
      /\ scan' = [scan EXCEPT ![v].iter = b.iter,
                              ![v].finish = b.finish,
                              ![v].headNodes = b.seen \cap pending,
                              ![v].visited = @ \cup b.seen]
      /\ UnlockBucket(v)
      /\ UNCHANGED <<listVars, headLock, replayLock, pending, target>>

\* trywrlock fails, or ITER_HEAD_INTERVAL has not elapsed.
SkipHead(v, k) ==
  /\ pc[v] = "visit"
  /\ k \in scan[v].headNodes
  /\ scan' = [scan EXCEPT ![v].headNodes = @ \ {k}]
  /\ UNCHANGED <<listVars, lockVars, pending, pc, target>>

VisitHead(v, k) ==
  /\ k \in scan[v].headNodes
  /\ Goto(v, "visit", "replay")
  /\ LockHead(v, k)
  /\ About(v, k)
  /\ scan' = [scan EXCEPT ![v].headNodes = @ \ {k}]
  /\ UNCHANGED <<listVars, bucketLock, replayLock, pending>>

\* BackgroundReplayHeadNode replays a part of the records or all of them.
ReplayHead(v) ==
  /\ Goto(v, "replay", "visit")
  /\ \/ pending' = pending \ {target[v]}
     \/ UNCHANGED pending
  /\ UnlockHead(target[v])
  /\ About(v, NULL)
  /\ UNCHANGED <<listVars, bucketLock, replayLock, scan>>

\* The end of a turn, and of the scan.
EndTurn(v) ==
  /\ scan[v].headNodes = {}
  /\ IF scan[v].finish
       THEN /\ Goto(v, "visit", "finished")
            /\ UNCHANGED scan
       ELSE /\ Goto(v, "visit", "scan")
            /\ scan' = [scan EXCEPT ![v].finishHeadNum = @ + ITER_BATCH_SIZE]
  /\ UNCHANGED <<listVars, lockVars, pending, target>>

\* A fault: replayLock is not released.
FaultyEndScan(v) ==
  /\ Goto(v, "finished", "idle")
  /\ scan' = [scan EXCEPT ![v] = NoScan]
  /\ UNCHANGED <<listVars, lockVars, pending, target>>

EndScan(v) ==
  /\ Goto(v, "finished", "idle")
  /\ replayLock' = NULL
  /\ scan' = [scan EXCEPT ![v] = NoScan]
  /\ UNCHANGED <<listVars, bucketLock, headLock, pending, target>>

-----------------------------------------------------------------------------
ParserProceeds == InsertSearch \/ InsertLockHead \/ InsertLsn

ReaderProceeds(r) ==
  ReadSearch(r) \/ ReadLockHead(r) \/ UpdateLockBucket(r) \/ UpdateReplayedLsn(r)

VisitHeads(v) ==
  \/ \E k \in Keys : SkipHead(v, k) \/ VisitHead(v, k)
  \/ ReplayHead(v)
  \/ EndTurn(v)
  \/ EndScan(v)

Next ==
  \/ \E k \in Keys : Begin(Parser, k)
  \/ ParserProceeds
  \/ \E r \in Readers, k \in Keys : Begin(r, k)
  \/ \E r \in Readers : ReaderProceeds(r)
  \/ \E v \in Vacuumers :
       \/ ReadNodeList(v) \/ SkipBucket(v) \/ TryReplayLock(v)
       \/ ScanLockBucket(v) \/ CollectBatch(v)
       \/ VisitHeads(v)

Spec == Init /\ [][Next]_vars

\* Threads that can go on do.  A pthread_rwlock is not kept from its readers
\* by writers that come later, so whoever asks for bucketLock shared gets it
\* if it is free again and again.
FairSpec ==
  /\ Spec
  /\ WF_vars(ParserProceeds)
  /\ \A r \in Readers :
       /\ WF_vars(ReaderProceeds(r))
       /\ SF_vars(UpdateLockBucket(r))
  /\ \A v \in Vacuumers :
       /\ SF_vars(ScanLockBucket(v))
       /\ WF_vars(CollectBatch(v))
       /\ WF_vars(VisitHeads(v))

-----------------------------------------------------------------------------
(* Properties *)

\* Every head that was ever created stays in the list, once, whatever moves
\* to the front: a search never misses a page that has a head (it would
\* create a second one, with none of the records of the first).
EveryHeadListed ==
  /\ Range(From(nodeList)) = heads
  /\ IsInjective(From(nodeList))

\* A prevHead that is set names the head in front: unlinking by it never
\* cuts off other heads.
PrevHeadSound ==
  \A k \in heads : prevHead[k] # NULL => nextHead[prevHead[k]] = k

\* Whoever holds a headLock for replaying finds the head again when it comes
\* to publish the replay, so it does release the lock.
LockedHeadListed ==
  \A r \in Readers : pc[r] \in {"replay", "update"} =>
    headLock[target[r]] = r /\ Found(target[r])

\* A scan comes to its end although heads move while it goes on: replayLock
\* is released (background_hashmap_vacuumer.cpp:140).
ScanEnds == \A v \in Vacuumers : replayLock = v ~> replayLock # v

\* Every hold of a headLock comes to its end, although a reader has to take
\* bucketLock before it can release it (logindex_hashmap.cpp:256).
HeadLocksReleased == \A k \in Keys : headLock[k] # NULL ~> headLock[k] = NULL

-----------------------------------------------------------------------------
(* What a comment in the code says *)

\* background_hashmap_vacuumer.cpp:66: "Iterate all the head nodes in this
\* bucket" - and 133: "If we finish iterate all the heads in this bucket,
\* iterate next bucket."
ScanVisitsAll ==
  \A v \in Vacuumers : pc[v] = "finished" => scan[v].due \subseteq scan[v].visited
=============================================================================
