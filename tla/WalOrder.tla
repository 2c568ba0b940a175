------------------------------ MODULE WalOrder ------------------------------
(***************************************************************************)
(* What the storage server promises of the WAL it receives.  Whatever is   *)
(* announced is in the file, records get into the log index one by one, in *)
(* WAL order and only when the file has all of them, and the position of   *)
(* the parser goes on by one record that is already in the index.          *)
(***************************************************************************)
EXTENDS Naturals

CONSTANTS
  MaxLsn,     \* the end of the WAL
  RecordEnds  \* where its records end

VARIABLES
  inFile,   \* the LSNs up to which the file holds the WAL
  flushed,  \* how far it is announced to the startup thread
  index,    \* the records in the log index
  parsed    \* how far the WAL is parsed

Init ==
  /\ \E lsn \in 0 .. MaxLsn : inFile = 0 .. lsn
  /\ flushed = 0
  /\ index = {}
  /\ parsed = 0

Write ==
  /\ \E lsn \in (0 .. MaxLsn) \ inFile : inFile' = 0 .. lsn
  /\ UNCHANGED <<flushed, index, parsed>>

Announce ==
  /\ \E lsn \in inFile : lsn > flushed /\ flushed' = lsn
  /\ UNCHANGED <<inFile, index, parsed>>

Index ==
  /\ \E e \in (RecordEnds \cap inFile) \ index :
       /\ \A f \in RecordEnds : f < e => f \in index
       /\ index' = index \cup {e}
  /\ UNCHANGED <<inFile, flushed, parsed>>

Advance ==
  /\ \E e \in index :
       /\ e > parsed
       /\ \A f \in RecordEnds : f > parsed => f >= e
       /\ parsed' = e
  /\ UNCHANGED <<inFile, flushed, index>>

Next == Write \/ Announce \/ Index \/ Advance

Spec == Init /\ [][Next]_<<inFile, flushed, index, parsed>>
=============================================================================
