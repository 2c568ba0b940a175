---------------------------- MODULE PageVersions ----------------------------
(***************************************************************************)
(* What the storage server promises of one page.  The page is the sequence *)
(* of the WAL records applied to it, and every page a request gets is one  *)
(* of its versions, no later than the request asks for.  A request for     *)
(* which something has to be replayed gets the latest such version, and    *)
(* takes effect at once.  The replayed version only moves forward, from    *)
(* record to record.                                                       *)
(***************************************************************************)
EXTENDS Naturals, Sequences

CONSTANTS
  Readers,  \* the threads serving requests
  Lsns,     \* the LSNs of the WAL
  NONE      \* no page

VARIABLES
  wal,       \* the records of the page
  replayed,  \* the LSN of the newest version made, 0 for the base page
  asked,     \* the LSN each request asks for, 0 if there is no request
  answer     \* the page each request gets, NONE before that

Init ==
  /\ wal = <<>>
  /\ replayed = 0
  /\ asked = [r \in Readers |-> 0]
  /\ answer = [r \in Readers |-> NONE]

Parse(lsn) ==
  /\ \A i \in DOMAIN wal : wal[i] < lsn
  /\ wal' = Append(wal, lsn)
  /\ UNCHANGED <<replayed, asked, answer>>

\* A page without records is answered at once.
Ask(r, lsn) ==
  /\ asked[r] = 0
  /\ asked' = [asked EXCEPT ![r] = lsn]
  /\ \/ answer' = answer
     \/ wal = <<>> /\ answer' = [answer EXCEPT ![r] = <<>>]
  /\ UNCHANGED <<wal, replayed>>

\* The records up to the one asked for are replayed.
Replay(r) ==
  /\ asked[r] # 0 /\ answer[r] = NONE
  /\ \E i \in DOMAIN wal :
       /\ replayed < wal[i] /\ wal[i] <= asked[r]
       /\ \A j \in DOMAIN wal : wal[j] <= asked[r] => j <= i
       /\ replayed' = wal[i]
       /\ answer' = [answer EXCEPT ![r] = SubSeq(wal, 1, i)]
  /\ UNCHANGED <<wal, asked>>

\* A version made earlier is found, or the base page.
Recall(r) ==
  /\ asked[r] # 0 /\ answer[r] = NONE
  /\ \E i \in 0 .. Len(wal) :
       /\ i > 0 => wal[i] <= asked[r]
       /\ answer' = [answer EXCEPT ![r] = SubSeq(wal, 1, i)]
  /\ UNCHANGED <<wal, replayed, asked>>

\* The request ends, answered or not.
Return(r) ==
  /\ asked[r] # 0
  /\ asked' = [asked EXCEPT ![r] = 0]
  /\ answer' = [answer EXCEPT ![r] = NONE]
  /\ UNCHANGED <<wal, replayed>>

\* Records are replayed for no request.
Advance ==
  /\ \E i \in DOMAIN wal : replayed < wal[i] /\ replayed' = wal[i]
  /\ UNCHANGED <<wal, asked, answer>>

Next ==
  \/ \E lsn \in Lsns : Parse(lsn)
  \/ \E r \in Readers, lsn \in Lsns : Ask(r, lsn)
  \/ \E r \in Readers : Replay(r) \/ Recall(r) \/ Return(r)
  \/ Advance

Spec == Init /\ [][Next]_<<wal, replayed, asked, answer>>
=============================================================================
