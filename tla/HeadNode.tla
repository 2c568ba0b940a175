------------------------------ MODULE HeadNode ------------------------------
(***************************************************************************)
(* The head node of one page in the log index (HashNodeHead, in            *)
(* src/include/access/logindex_hashmap.h) and the pure part of what        *)
(* logindex_hashmap.cpp and background_hashmap_vacuumer.cpp do with it.    *)
(* The LSNs of the page are in ascending order, first in the array of the  *)
(* head and then in the arrays of a chain of element nodes.  Arrays are    *)
(* 0-based in the code and 1-based here: an index of the code is one less, *)
(* and its -1 is 0.                                                        *)
(***************************************************************************)
EXTENDS Integers, Sequences, FiniteSetsExt

CONSTANTS
  HASH_HEAD_NUM,  \* entries a head node holds
  HASH_ELEM_NUM,  \* entries an element node holds
  MAX_REPLAY_VERSION_SIZE   \* entries one background replay collects

\* BackgroundReplayHeadNode's array lsnList holds a whole head node and one
\* entry more, without which its first loop could leave it full.
ASSUME SizesAssumption ==
  /\ HASH_HEAD_NUM \in Nat \ {0}
  /\ HASH_ELEM_NUM \in Nat \ {0}
  /\ MAX_REPLAY_VERSION_SIZE \in Nat
  /\ MAX_REPLAY_VERSION_SIZE > HASH_HEAD_NUM

Last(list) == list[Len(list)]

\* The lists of a list of lists, one after the other.
Concatenated(lists) ==
  LET first[n \in 0 .. Len(lists)] ==
        IF n = 0 THEN <<>> ELSE first[n - 1] \o lists[n]
  IN  first[Len(lists)]

\* The position of the last entry that is not above lsn in a list of
\* ascending LSNs, 0 if all are above; the list up to it and what follows it.
LastUpTo(list, lsn) == Max({0} \cup {i \in DOMAIN list : list[i] <= lsn})

Upto(list, lsn) == SubSeq(list, 1, LastUpTo(list, lsn))

Beyond(list, lsn) == SubSeq(list, LastUpTo(list, lsn) + 1, Len(list))

\* A fault: the middle is rounded down and the lower side moves past it.
FaultyLowerBound(targetLsn, entryList) ==
  LET n == Len(entryList)
      search[smallSide \in 1 .. n, largeSide \in 1 .. n] ==
        LET mid == (largeSide + smallSide) \div 2
        IN  IF largeSide = smallSide THEN largeSide
            ELSE IF targetLsn <= entryList[mid]
                   THEN search[smallSide, mid]
                   ELSE search[mid + 1, largeSide]
      found == search[1, n]
  IN  IF n = 0 \/ entryList[found] > targetLsn THEN 0 ELSE found

\* LsnListFindLowerBound: the binary search for the last entry that is not
\* above targetLsn; 0 if there is none.
LsnListFindLowerBound(targetLsn, entryList) ==
  LET n == Len(entryList)
      search[side \in {p \in (1 .. n) \X (1 .. n) : p[1] <= p[2]}] ==
        LET smallSide == side[1]
            largeSide == side[2]
            mid == (largeSide + smallSide + 1) \div 2
        IN  IF largeSide = smallSide THEN largeSide
            ELSE IF entryList[mid] = targetLsn THEN mid
            ELSE IF targetLsn < entryList[mid]
                   THEN search[<<smallSide, mid - 1>>]
                   ELSE search[<<mid, largeSide>>]
      found == search[<<1, n>>]
  IN  IF n = 0 \/ entryList[found] > targetLsn THEN 0 ELSE found

\* A fault: entries equal to the target are not copied.
FaultyCopyBelow(entryList, start, targetLsn) ==
  LET reached == {i \in start .. Len(entryList) : entryList[i] >= targetLsn}
      stop == IF reached = {} THEN Len(entryList) ELSE Min(reached) - 1
  IN  SubSeq(entryList, start, stop)

\* The entries from position start up to the first one above targetLsn: the
\* copy loops of HashMapGetBlockReplayList.
CopyUpTo(entryList, start, targetLsn) ==
  LET above == {i \in start .. Len(entryList) : entryList[i] > targetLsn}
      stop == IF above = {} THEN Len(entryList) ELSE Min(above) - 1
  IN  SubSeq(entryList, start, stop)

\* A fault: only the element node that reaches the target is searched.
FaultyFindVersion(lsnEntry, eles, targetLsn) ==
  LET inHead == LsnListFindLowerBound(targetLsn, lsnEntry)
      reaching == {i \in DOMAIN eles : Last(eles[i]) >= targetLsn}
      inEle == LsnListFindLowerBound(targetLsn, eles[Min(reaching)])
  IN  IF Last(lsnEntry) >= targetLsn
        THEN IF inHead = 0 THEN 0 ELSE lsnEntry[inHead]
      ELSE IF reaching # {} /\ inEle > 0 THEN eles[Min(reaching)][inEle]
      ELSE Last(lsnEntry)

\* The largest LSN not above targetLsn that is still listed, as the branch
\* for a replayedLsn beyond the target looks it up: in the head if its last
\* entry reaches the target, 0 when the head has none (the call then answers
\* "not found"), and otherwise in the element nodes, whose freed ones are
\* missing.
FindVersion(lsnEntry, eles, targetLsn) ==
  LET inHead == LsnListFindLowerBound(targetLsn, lsnEntry)
      reaching == {i \in DOMAIN eles : Last(eles[i]) >= targetLsn}
      ele == Min(reaching)
      inEle == LsnListFindLowerBound(targetLsn, eles[ele])
      before == IF reaching = {} THEN Len(eles) ELSE ele - 1
  IN  IF Last(lsnEntry) >= targetLsn
        THEN IF inHead = 0 THEN 0 ELSE lsnEntry[inHead]
      ELSE IF reaching # {} /\ inEle > 0 THEN eles[ele][inEle]
      ELSE IF before > 0 THEN Last(eles[before])
      ELSE Last(lsnEntry)

\* A fault: the position of replayedLsn is looked for in the head only, and
\* every element node is copied from its start.
FaultyReplayListFromStart(lsnEntry, eles, replayedLsn, targetLsn) ==
  LET start == LsnListFindLowerBound(replayedLsn, lsnEntry) + 1
      part(ele) == IF Last(ele) < replayedLsn THEN <<>> ELSE CopyUpTo(ele, 1, targetLsn)
  IN  CopyUpTo(lsnEntry, start, targetLsn)
        \o Concatenated([i \in DOMAIN eles |-> part(eles[i])])

\* The list HashMapGetBlockReplayList builds: what comes after replayedLsn,
\* up to targetLsn.  The walk over the element nodes ends at the first one
\* that starts above the target and skips those that end before replayedLsn.
\* The position of replayedLsn is searched for once, in the head or in the
\* first element node that is copied from.
ReplayList(lsnEntry, eles, replayedLsn, targetLsn) ==
  LET inHead == replayedLsn <= Last(lsnEntry)
      start(list) == LsnListFindLowerBound(replayedLsn, list) + 1
      copied == {i \in DOMAIN eles : /\ \A j \in 1 .. i : eles[j][1] <= targetLsn
                                     /\ Last(eles[i]) >= replayedLsn}
      first(i) == ~ inHead /\ \A j \in copied : i <= j
      part(i) ==
        IF i \notin copied THEN <<>>
        ELSE CopyUpTo(eles[i], IF first(i) THEN start(eles[i]) ELSE 1, targetLsn)
      headPart == IF inHead THEN CopyUpTo(lsnEntry, start(lsnEntry), targetLsn)
                            ELSE <<>>
  IN  headPart \o Concatenated([i \in DOMAIN eles |-> part(i)])

-----------------------------------------------------------------------------
(* The head node: lsnEntry is its array, nextEle the chain of element nodes. *)

HeadNodes ==
  [lsnEntry : Seq(Nat), nextEle : Seq(Seq(Nat)), maxLsn : Nat, replayedLsn : Nat]

Entries(h) == h.lsnEntry \o Concatenated(h.nextEle)

\* HashMapInsertKey's head for a page that has none.
NewHead(lsn) ==
  [lsnEntry |-> <<lsn>>, nextEle |-> <<>>, maxLsn |-> lsn, replayedLsn |-> 0]

\* A fault: the head's array is taken to have one slot more.
FaultyInsertedOverfull(h, lsn) ==
  IF h.maxLsn >= lsn THEN h
  ELSE IF Len(h.lsnEntry) <= HASH_HEAD_NUM
    THEN [h EXCEPT !.lsnEntry = Append(@, lsn), !.maxLsn = lsn]
  ELSE [h EXCEPT !.nextEle = Append(@, <<lsn>>), !.maxLsn = lsn]

\* HashMapInsertKey on an existing head: into the head's array, the last
\* element node or a new element node.  A known LSN only sets its pageNum,
\* which is 0 on every call.
Inserted(h, lsn) ==
  LET eles == h.nextEle
      tail == Len(eles)
  IN  IF h.maxLsn >= lsn THEN h
      ELSE IF Len(h.lsnEntry) < HASH_HEAD_NUM
        THEN [h EXCEPT !.lsnEntry = Append(@, lsn), !.maxLsn = lsn]
      ELSE IF tail > 0 /\ Len(eles[tail]) < HASH_ELEM_NUM
        THEN [h EXCEPT !.nextEle[tail] = Append(@, lsn), !.maxLsn = lsn]
      ELSE [h EXCEPT !.nextEle = Append(@, <<lsn>>), !.maxLsn = lsn]

\* HashMapGetBlockReplayList's answer for the head h: the version to start
\* from and the records to replay, 0 and none when it says "not found".
BlockReplayList(h, target) ==
  IF h.replayedLsn = target \/ (h.replayedLsn < target /\ h.replayedLsn = h.maxLsn)
    THEN [found |-> TRUE, replayedLsn |-> h.replayedLsn, list |-> <<>>]
  ELSE IF h.replayedLsn > target
    THEN LET lsn == FindVersion(h.lsnEntry, h.nextEle, target)
         IN  [found |-> lsn > 0, replayedLsn |-> lsn, list |-> <<>>]
  ELSE [found |-> TRUE, replayedLsn |-> h.replayedLsn,
        list |-> ReplayList(h.lsnEntry, h.nextEle, h.replayedLsn, target)]

\* A fault: the array is left empty when the head holds nothing new.
FaultyCollectedHeadOnly(h) == Beyond(h.lsnEntry, h.replayedLsn)

\* BackgroundReplayHeadNode's lsnList: the first entries above replayedLsn,
\* the head's before the element nodes'.
Collected(h) ==
  LET all == Beyond(Entries(h), h.replayedLsn)
  IN  SubSeq(all, 1, Min({Len(all), MAX_REPLAY_VERSION_SIZE}))

\* A fault: an element node is freed although only a part of it has been
\* collected.
FaultyEleNodesKept(h) == <<Last(h.nextEle)>>

\* The element nodes it leaves (VacuumHashNode frees the others): the last
\* one, and those that hold an entry beyond what has been collected.
EleNodesKept(h) ==
  LET upTo == IF Collected(h) = <<>> THEN h.replayedLsn ELSE Last(Collected(h))
      kept == {i \in DOMAIN h.nextEle :
                 i = Len(h.nextEle) \/ Last(h.nextEle[i]) > upTo}
  IN  SubSeq(h.nextEle, Min(kept), Len(h.nextEle))
=============================================================================
