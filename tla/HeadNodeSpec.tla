---------------------------- MODULE HeadNodeSpec ----------------------------
(***************************************************************************)
(* The life of one head node: insertions, replays and vacuuming, each in   *)
(* one step.  The algorithms of HeadNode are compared with their reference *)
(* definitions on every head node that this builds.                        *)
(***************************************************************************)
EXTENDS HeadNode

CONSTANT LastLsn  \* bound: the last LSN inserted

ASSUME LastLsnAssumption == LastLsn \in Nat

NodeLsns == 1 .. LastLsn

VARIABLES
  node,     \* the head node
  inserted  \* every LSN inserted so far, the WAL of the page

NodeInit == \E lsn \in NodeLsns : node = NewHead(lsn) /\ inserted = <<lsn>>

NodeInsert(lsn) ==
  /\ lsn > Last(inserted)
  /\ node' = Inserted(node, lsn)
  /\ inserted' = Append(inserted, lsn)

\* A request replays up to an LSN.
NodeReplay(upto) ==
  LET list == BlockReplayList(node, upto).list
  IN  /\ list # <<>>
      /\ node' = [node EXCEPT !.replayedLsn = Last(list)]
      /\ UNCHANGED inserted

\* The background thread replays what it collects and frees element nodes,
\* also when it collects nothing.
NodeVacuum ==
  LET list == Collected(node)
  IN  /\ node' = [node EXCEPT
                    !.nextEle = IF @ = <<>> THEN @ ELSE EleNodesKept(node),
                    !.replayedLsn = IF list = <<>> THEN @ ELSE Last(list)]
      /\ UNCHANGED inserted

NodeNext ==
  \/ \E lsn \in NodeLsns : NodeInsert(lsn)
  \/ \E upto \in NodeLsns : NodeReplay(upto)
  \/ NodeVacuum

NodeSpec == NodeInit /\ [][NodeNext]_<<node, inserted>>

\* The entries of an ascending list that are above low and not above high.
Section(list, low, high) == Beyond(Upto(list, high), low)

\* LsnListFindLowerBound finds the last entry not above an LSN, in every
\* array and for every LSN.
LowerBoundRight ==
  \A upto \in 0 .. LastLsn + 1, list \in {node.lsnEntry} \cup Range(node.nextEle) :
    LsnListFindLowerBound(upto, list) = LastUpTo(list, upto)

\* A request that has something to replay gets exactly the records after
\* replayedLsn and up to the LSN asked for, in order, though element nodes
\* have been freed.
ReplayListRight ==
  \A upto \in NodeLsns :
    upto >= node.replayedLsn
      => BlockReplayList(node, upto).list = Section(inserted, node.replayedLsn, upto)

\* A request for an older version is directed to the largest listed LSN not
\* above the LSN asked for, and to none if all are above.
OlderVersionRight ==
  \A upto \in NodeLsns :
    upto < node.replayedLsn
      => LET listed == Section(Entries(node), 0, upto)
         IN  BlockReplayList(node, upto).replayedLsn =
               IF listed = <<>> THEN 0 ELSE Last(listed)

\* What the background thread collects next is never empty while there is
\* something to replay, and it continues the WAL without a gap.
CollectedRight ==
  LET list == Collected(node)
  IN  /\ list # <<>> => list = Section(inserted, node.replayedLsn, Last(list))
      /\ node.replayedLsn < node.maxLsn => list # <<>>

\* No node is overfull, and no element node is empty: the code reads
\* lsnEntry[entryNum - 1] of every node it visits.
NodesFilled ==
  /\ Len(node.lsnEntry) \in 1 .. HASH_HEAD_NUM
  /\ \A i \in DOMAIN node.nextEle : Len(node.nextEle[i]) \in 1 .. HASH_ELEM_NUM
  /\ node.nextEle # <<>> => Last(Last(node.nextEle)) = node.maxLsn
=============================================================================
