--------------------------- MODULE ReplayService ----------------------------
(***************************************************************************)
(* What the replay processes promise their callers: a process serves one   *)
(* call at a time, and between the beginning and the end of its service it *)
(* executes the commands of that call and no others, each of them once and *)
(* in order.  A process may stop in the middle of a call.                  *)
(***************************************************************************)
EXTENDS Integers, Sequences

CONSTANTS
  Threads,    \* callers
  Processes,  \* replay processes
  Calls,      \* the sequences of commands a call can consist of
  NONE        \* nobody is served

VARIABLES
  todo,    \* commands each thread's call has still to see executed
  serving  \* the thread each process works for

svars == <<todo, serving>>

ServiceInit ==
  /\ todo = [t \in Threads |-> <<>>]
  /\ serving = [p \in Processes |-> NONE]

Idle(t) == todo[t] = <<>> /\ \A p \in Processes : serving[p] # t

Submit(t, call) ==
  /\ Idle(t)
  /\ todo' = [todo EXCEPT ![t] = call]
  /\ UNCHANGED serving

Begin(p, t) ==
  /\ serving[p] = NONE
  /\ todo[t] # <<>>
  /\ \A q \in Processes : serving[q] # t
  /\ serving' = [serving EXCEPT ![p] = t]
  /\ UNCHANGED todo

ExecuteNext(p) ==
  /\ serving[p] # NONE
  /\ todo[serving[p]] # <<>>
  /\ todo' = [todo EXCEPT ![serving[p]] = Tail(@)]
  /\ UNCHANGED serving

Return(p) ==
  /\ serving[p] # NONE
  /\ todo[serving[p]] = <<>>
  /\ serving' = [serving EXCEPT ![p] = NONE]
  /\ UNCHANGED todo

ServiceNext ==
  \/ \E t \in Threads, call \in Calls : Submit(t, call)
  \/ \E p \in Processes, t \in Threads : Begin(p, t)
  \/ \E p \in Processes : ExecuteNext(p) \/ Return(p)

ServiceSpec == ServiceInit /\ [][ServiceNext]_svars
=============================================================================
