------------------------------ MODULE PagePool ------------------------------
(***************************************************************************)
(* What the memory pool promises its clients.  The pool has some pages,    *)
(* each with the contents last flushed for that page.  A flush takes       *)
(* effect once, between its request and its end, on its own page.  The     *)
(* pool may drop pages to make room for a flush, but no page that a flush  *)
(* is working on.                                                          *)
(***************************************************************************)
CONSTANTS Keys, Data, Clients, None

VARIABLES
  pool,     \* the contents of each page, None if it is not in the pool
  flushing  \* the flush each client is waiting for

Init ==
  /\ pool = [k \in Keys |-> None]
  /\ flushing = [c \in Clients |-> None]

Busy == {flushing[c].page_id : c \in {c \in Clients : flushing[c] # None}}

Request(c, k, d) ==
  /\ flushing[c] = None
  /\ flushing' = [flushing EXCEPT ![c] = [page_id |-> k, page_data |-> d, done |-> FALSE]]
  /\ \E dropped \in SUBSET (Keys \ (Busy \cup {k})) :
       pool' = [j \in Keys |-> IF j \in dropped THEN None ELSE pool[j]]

Apply(c) ==
  /\ flushing[c] # None /\ ~flushing[c].done
  /\ pool' = [pool EXCEPT ![flushing[c].page_id] = flushing[c].page_data]
  /\ flushing' = [flushing EXCEPT ![c].done = TRUE]

End(c) ==
  /\ flushing[c] # None /\ flushing[c].done
  /\ flushing' = [flushing EXCEPT ![c] = None]
  /\ pool' = pool

Next ==
  \E c \in Clients :
    Apply(c) \/ End(c) \/ \E k \in Keys, d \in Data : Request(c, k, d)

Spec == Init /\ [][Next]_<<pool, flushing>>
=============================================================================
