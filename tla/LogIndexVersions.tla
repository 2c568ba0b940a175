-------------------------- MODULE LogIndexVersions --------------------------
(***************************************************************************)
(* How LogIndex implements PageVersions.                                   *)
(***************************************************************************)
EXTENDS LogIndex

\* The version of the page that has been published.
replayedVersion == IF head = NONE THEN 0 ELSE head.replayedLsn

\* What each request asks for, and the page it has once it is published.
readerTarget == [r \in Readers |-> rd[r].target]

readerPage ==
  [r \in Readers |-> IF rd[r].pc \in {"delete", "done"} THEN rd[r].page ELSE NONE]

Versions == INSTANCE PageVersions
              WITH replayed <- replayedVersion, asked <- readerTarget, answer <- readerPage

\* The parser, the readers and the background thread implement PageVersions:
\* a request that replays gets the page as of its target in one step, when
\* HashMapUpdateReplayedLsn publishes it; whatever else a request is given is
\* an earlier version, or none.
ImplementsPageVersions == Versions!Spec
=============================================================================
