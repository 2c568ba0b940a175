----------------------------- MODULE ReplayPool -----------------------------
(***************************************************************************)
(* The replay processes of the storage server.                             *)
(*                                                                         *)
(* StartWalRedoProcess (storage_server.c) forks REPLAY_PROCESS_NUM         *)
(* processes, each at the end of two pipes: serverPipe carries requests,   *)
(* computePipe answers.  A thread of the server that needs a page replayed *)
(* or a relation looked at takes the mutex of one process, writes its      *)
(* request, reads the answer and releases the mutex.  The process          *)
(* (wal_redo.c) executes what it reads, one command at a time.             *)
(*                                                                         *)
(* Nothing in a message says whom it is for.  Requests and answers are cut *)
(* into units that write and read may move in any portions; a request is   *)
(* its header and its payload, a page BLCKSZ units.  A unit carries the    *)
(* thread and the call it was sent for, so that the properties can tell    *)
(* answers apart; the code never looks at them.                            *)
(***************************************************************************)
EXTENDS Integers, Sequences, FiniteSets

CONSTANTS
  Threads,             \* threads of the storage server
  REPLAY_PROCESS_NUM,  \* replay processes
  Home,                \* gettid() % REPLAY_PROCESS_NUM of each thread
  CallsOf,             \* the calls a thread makes
  MaxCalls,            \* bound: calls of each thread
  MaxCrashes,          \* bound: processes that die of an error
  BLCKSZ,              \* units of a page
  NONE                 \* no owner

Processes == 0 .. REPLAY_PROCESS_NUM - 1

MSG_LEN == 2  \* header and payload of a request

\* The calls by the commands they send.
SyncGetRelSize == <<"M">>
WalRedoCreateRel == <<"C">>
WalRedoExtendRel == <<"F">>
GetBasePage == <<"G">>
ApplyOneLsn == <<"D">>
ApplyOneLsnWithoutBasePage == <<"E">>
ApplyLsnList == <<"O">>
ApplyLsnListAndGetUpdatedPage == <<"o">>
GetPageByLsn == <<"U", "G">>

Calls ==
  {SyncGetRelSize, WalRedoCreateRel, WalRedoExtendRel, GetBasePage, ApplyOneLsn,
   ApplyOneLsnWithoutBasePage, ApplyLsnList, ApplyLsnListAndGetUpdatedPage,
   GetPageByLsn}

Commands == {"M", "C", "F", "G", "D", "E", "O", "o", "U"}

\* What a command is answered with: ApplyXlogUntil writes nothing, GetRelSize,
\* CreateRel and ExtendRel an int, the others a page.
AnswerLen(command) ==
  CASE command = "U" -> 0
    [] command \in {"M", "C", "F"} -> 1
    [] command \in {"G", "D", "E", "O", "o"} -> BLCKSZ

ASSUME PoolAssumption ==
  /\ REPLAY_PROCESS_NUM \in Nat \ {0}
  /\ Home \in [Threads -> Processes]
  /\ CallsOf \in [Threads -> SUBSET Calls]
  /\ BLCKSZ \in Nat \ {0}
  /\ MaxCalls \in [Threads -> Nat]
  /\ MaxCrashes \in Nat
  /\ NONE \notin Threads

VARIABLES
  server,       \* the storage server is up
  th,           \* each thread's locals
  mutex,        \* replayProcessMutex: the owner, per process
  serverPipe,   \* request units on their way to each process
  computePipe,  \* answer units on their way back
  proc,         \* each process's locals
  ran           \* commands of its call executed so far, per thread (history)

vars == <<server, th, mutex, serverPipe, computePipe, proc, ran>>

\* A thread's locals before it has a process; no counts its calls.
Locals(pc, no, call) ==
  [pc |-> pc, no |-> no, call |-> call, replayPid |-> 0, i |-> 0,
   sendLen |-> 0, recv |-> <<>>]

\* A process waiting for a command: input is stdin_buf, command the one at
\* work, output the part of the answer still to be written.
Waiting == [pc |-> "read", input |-> <<>>, command |-> NONE, output |-> <<>>]

Init ==
  /\ server = TRUE
  /\ th = [t \in Threads |-> Locals("idle", 0, <<>>)]
  /\ mutex = [p \in Processes |-> NONE]
  /\ serverPipe = [p \in Processes |-> <<>>]
  /\ computePipe = [p \in Processes |-> <<>>]
  /\ proc = [p \in Processes |-> Waiting]
  /\ ran = [t \in Threads |-> 0]

-----------------------------------------------------------------------------
(* The calling thread *)

\* The n-th unit a thread sends: a unit of its message (n - 1) \div MSG_LEN + 1.
Unit(t, n) ==
  [command |-> th[t].call[(n - 1) \div MSG_LEN + 1],
   by |-> t, no |-> th[t].no, pos |-> n]

Call(t, call) ==
  /\ server
  /\ call \in CallsOf[t]
  /\ th[t].pc = "idle"
  /\ th[t].no < MaxCalls[t]
  /\ th' = [th EXCEPT ![t] = Locals("try", th[t].no + 1, call)]
  /\ ran' = [ran EXCEPT ![t] = 0]
  /\ UNCHANGED <<server, mutex, serverPipe, computePipe, proc>>

Candidate(t) == (Home[t] + th[t].i) % REPLAY_PROCESS_NUM

\* A fault: the result of pthread_mutex_trylock is not looked at.
FaultyTryLock(t) ==
  LET p == Candidate(t)
  IN  /\ server
      /\ th[t].pc = "try"
      /\ mutex' = [mutex EXCEPT ![p] = t]
      /\ th' = [th EXCEPT ![t].pc = "write", ![t].replayPid = p]
      /\ UNCHANGED <<server, serverPipe, computePipe, proc, ran>>

\* One pthread_mutex_trylock, beginning with the thread's own process.  If
\* all are taken, the thread queues at its own.
TryLock(t) ==
  LET p == Candidate(t)
  IN  /\ server
      /\ th[t].pc = "try"
      /\ IF mutex[p] = NONE
           THEN /\ mutex' = [mutex EXCEPT ![p] = t]
                /\ th' = [th EXCEPT ![t].pc = "write", ![t].replayPid = p]
           ELSE /\ th' = [th EXCEPT
                            ![t].i = @ + 1,
                            ![t].pc = IF th[t].i + 1 < REPLAY_PROCESS_NUM
                                        THEN "try" ELSE "lock",
                            ![t].replayPid = Home[t]]
                /\ UNCHANGED mutex
      /\ UNCHANGED <<server, serverPipe, computePipe, proc, ran>>

Lock(t) ==
  /\ server
  /\ th[t].pc = "lock"
  /\ mutex[th[t].replayPid] = NONE
  /\ mutex' = [mutex EXCEPT ![th[t].replayPid] = t]
  /\ th' = [th EXCEPT ![t].pc = "write"]
  /\ UNCHANGED <<server, serverPipe, computePipe, proc, ran>>

\* One write; the loop ends with the last unit of the last message.  write
\* gets one message at a time.
Write(t, n) ==
  LET sent == th[t].sendLen
  IN  /\ server
      /\ th[t].pc = "write"
      /\ n \in 1 .. MSG_LEN - (sent % MSG_LEN)
      /\ serverPipe' = [serverPipe EXCEPT ![th[t].replayPid] =
                          @ \o [k \in 1 .. n |-> Unit(t, sent + k)]]
      /\ th' = [th EXCEPT ![t].sendLen = sent + n,
                          ![t].pc = IF sent + n < MSG_LEN * Len(th[t].call)
                                      THEN "write" ELSE "read"]
      /\ UNCHANGED <<server, mutex, computePipe, proc, ran>>

\* A fault: the last byte of a page is not waited for.
FaultyExpected(t) ==
  LET n == AnswerLen(th[t].call[Len(th[t].call)]) IN IF n = BLCKSZ THEN n - 1 ELSE n

\* The length of the answer the caller waits for.
Expected(t) == AnswerLen(th[t].call[Len(th[t].call)])

\* One read of n units; with nothing in the pipe it is repeated (EAGAIN), and
\* so it is for ever if the process is gone.
Read(t, n) ==
  LET p == th[t].replayPid
  IN  /\ server
      /\ th[t].pc = "read"
      /\ n \in 1 .. Expected(t) - Len(th[t].recv)
      /\ n <= Len(computePipe[p])
      /\ th' = [th EXCEPT ![t].recv = @ \o SubSeq(computePipe[p], 1, n),
                          ![t].pc = IF Len(th[t].recv) + n < Expected(t)
                                      THEN "read" ELSE "unlock"]
      /\ computePipe' = [computePipe EXCEPT ![p] =
                           SubSeq(@, n + 1, Len(@))]
      /\ UNCHANGED <<server, mutex, serverPipe, proc, ran>>

\* pthread_mutex_unlock, and the call returns.
Unlock(t) ==
  /\ server
  /\ th[t].pc = "unlock"
  /\ mutex' = [mutex EXCEPT ![th[t].replayPid] = NONE]
  /\ th' = [th EXCEPT ![t] = Locals("idle", th[t].no, <<>>)]
  /\ UNCHANGED <<server, serverPipe, computePipe, proc, ran>>

-----------------------------------------------------------------------------
(* The replay process *)

\* buffered_read takes what is in the pipe when stdin_buf cannot complete the
\* command.
BufferedRead(p) ==
  /\ proc[p].pc = "read"
  /\ Len(proc[p].input) < MSG_LEN
  /\ serverPipe[p] # <<>>
  /\ proc' = [proc EXCEPT ![p].input = @ \o serverPipe[p]]
  /\ serverPipe' = [serverPipe EXCEPT ![p] = <<>>]
  /\ UNCHANGED <<server, th, mutex, computePipe, ran>>

\* A fault: what stdin_buf holds behind the command is dropped.
FaultyReadRedoCommand(p) ==
  /\ proc[p].pc = "read"
  /\ Len(proc[p].input) >= MSG_LEN
  /\ proc' = [proc EXCEPT ![p].pc = "execute",
                          ![p].command = Head(proc[p].input),
                          ![p].input = <<>>]
  /\ UNCHANGED <<server, th, mutex, serverPipe, computePipe, ran>>

\* ReadRedoCommand returns a command once header and payload are complete.
ReadRedoCommand(p) ==
  /\ proc[p].pc = "read"
  /\ Len(proc[p].input) >= MSG_LEN
  /\ proc' = [proc EXCEPT ![p].pc = "execute",
                          ![p].command = Head(proc[p].input),
                          ![p].input = SubSeq(@, MSG_LEN + 1, Len(@))]
  /\ UNCHANGED <<server, th, mutex, serverPipe, computePipe, ran>>

\* The answer to a command.
Answer(command) ==
  [k \in 1 .. AnswerLen(command.command) |->
     [by |-> command.by, no |-> command.no, pos |-> k]]

Execute(p) ==
  LET command == proc[p].command
  IN  /\ proc[p].pc = "execute"
      /\ proc' = [proc EXCEPT ![p].pc = IF Answer(command) = <<>> THEN "read" ELSE "write",
                              ![p].command = NONE,
                              ![p].output = Answer(command)]
      /\ ran' = [ran EXCEPT ![command.by] = @ + 1]
      /\ UNCHANGED <<server, th, mutex, serverPipe, computePipe>>

\* A fault: after a partial write the answer is written from its beginning.
FaultyWriteAnswer(p, n) ==
  LET output == proc[p].output
  IN  /\ proc[p].pc = "write"
      /\ n \in 1 .. Len(output)
      /\ computePipe' = [computePipe EXCEPT ![p] = @ \o SubSeq(output, 1, n)]
      /\ proc' = [proc EXCEPT ![p].output = SubSeq(output, 1, Len(output) - n),
                              ![p].pc = IF n < Len(output) THEN "write" ELSE "read"]
      /\ UNCHANGED <<server, th, mutex, serverPipe, ran>>

\* One write of n units of the answer.
WriteAnswer(p, n) ==
  LET output == proc[p].output
  IN  /\ proc[p].pc = "write"
      /\ n \in 1 .. Len(output)
      /\ computePipe' = [computePipe EXCEPT ![p] = @ \o SubSeq(output, 1, n)]
      /\ proc' = [proc EXCEPT ![p].output = SubSeq(output, n + 1, Len(output)),
                              ![p].pc = IF n < Len(output) THEN "write" ELSE "read"]
      /\ UNCHANGED <<server, th, mutex, serverPipe, ran>>

\* An ERROR ends the process: there is no handler to return to.  Nobody
\* starts it again.
Crash(p) ==
  /\ proc[p].pc = "execute"
  /\ Cardinality({q \in Processes : proc[q].pc = "crashed"}) < MaxCrashes
  /\ proc' = [proc EXCEPT ![p] = [Waiting EXCEPT !.pc = "crashed"]]
  /\ UNCHANGED <<server, th, mutex, serverPipe, computePipe, ran>>

-----------------------------------------------------------------------------
(* The end *)

\* proc_die or sigIntHandler: the server exits with all its threads.
ServerExit ==
  /\ server
  /\ server' = FALSE
  /\ UNCHANGED <<th, mutex, serverPipe, computePipe, proc, ran>>

Gone(p) == proc[p].pc \in {"crashed", "exited"}

\* A fault: no process closes the pipes of the others.
FaultyHasWriter(p) == server \/ \E q \in Processes \ {p} : ~ Gone(q)

\* Who holds serverPipe[p][1]: the server, and the processes forked before
\* p, which close the pipes of the processes before them only.
HasWriter(p) == server \/ \E q \in 0 .. p - 1 : ~ Gone(q)

\* read returns 0: EOF, or in the middle of a command an ERROR.
EndOfFile(p) ==
  /\ proc[p].pc = "read"
  /\ Len(proc[p].input) < MSG_LEN
  /\ serverPipe[p] = <<>>
  /\ ~ HasWriter(p)
  /\ proc' = [proc EXCEPT ![p] = [Waiting EXCEPT !.pc = "exited"]]
  /\ UNCHANGED <<server, th, mutex, serverPipe, computePipe, ran>>

-----------------------------------------------------------------------------
ThreadProceeds(t) ==
  \/ TryLock(t)
  \/ \E n \in 1 .. MSG_LEN : Write(t, n)
  \/ \E n \in 1 .. BLCKSZ : Read(t, n)
  \/ Unlock(t)

ProcessProceeds(p) ==
  \/ BufferedRead(p)
  \/ ReadRedoCommand(p)
  \/ Execute(p)
  \/ \E n \in 1 .. BLCKSZ : WriteAnswer(p, n)
  \/ EndOfFile(p)

Next ==
  \/ \E t \in Threads, call \in Calls : Call(t, call)
  \/ \E t \in Threads : ThreadProceeds(t)
  \/ \E t \in Threads : Lock(t)
  \/ \E p \in Processes : ProcessProceeds(p)
  \/ \E p \in Processes : Crash(p)
  \/ ServerExit

Spec == Init /\ [][Next]_vars

\* Threads and processes that can go on are eventually scheduled.  Nothing is
\* assumed of who gets a contended mutex.
FairSpec ==
  /\ Spec
  /\ \A t \in Threads : WF_vars(ThreadProceeds(t))
  /\ \A p \in Processes : WF_vars(ProcessProceeds(p))

-----------------------------------------------------------------------------
(* Properties *)

RequestUnits == [command : Commands, by : Threads, no : Nat, pos : Nat]
AnswerUnits == [by : Threads, no : Nat, pos : 1 .. BLCKSZ]

ThreadStates ==
  [pc : {"idle", "try", "lock", "write", "read", "unlock"},
   no : Nat, call : Calls \cup {<<>>}, replayPid : Processes,
   i : 0 .. REPLAY_PROCESS_NUM, sendLen : 0 .. 2 * MSG_LEN,
   recv : Seq(AnswerUnits)]
ProcessStates ==
  [pc : {"read", "execute", "write", "crashed", "exited"},
   input : Seq(RequestUnits), command : RequestUnits \cup {NONE},
   output : Seq(AnswerUnits)]

\* Type correctness.
ReplayTypeOK ==
  /\ server \in BOOLEAN
  /\ th \in [Threads -> ThreadStates]
  /\ mutex \in [Processes -> Threads \cup {NONE}]
  /\ serverPipe \in [Processes -> Seq(RequestUnits)]
  /\ computePipe \in [Processes -> Seq(AnswerUnits)]
  /\ proc \in [Processes -> ProcessStates]
  /\ ran \in [Threads -> Nat]

\* What a call reads is its own answer, complete and in order: no thread gets
\* what was left of another's answer, or of its own last one, although
\* messages carry no identification and are read in portions.
AnswersOwn ==
  \A t \in Threads :
    /\ \A k \in DOMAIN th[t].recv :
         th[t].recv[k] = [by |-> t, no |-> th[t].no, pos |-> k]
    /\ th[t].pc = "unlock" => Len(th[t].recv) = Expected(t)

\* A process whose mutex is free is ready for the next caller: it waits for a
\* command, and neither of its pipes nor stdin_buf holds anything.  One that
\* died never has a free mutex: its caller reads for ever.
ReadyWhenFree ==
  \A p \in Processes :
    server /\ mutex[p] = NONE
      => proc[p] = Waiting /\ serverPipe[p] = <<>> /\ computePipe[p] = <<>>

Service == INSTANCE ReplayService WITH
  todo <- [t \in Threads |-> SubSeq(th[t].call, ran[t] + 1, Len(th[t].call))],
  serving <- mutex

\* The pool implements ReplayService: a process executes the commands of one
\* call after the other, each once and in order, the two of GetPageByLsn with
\* nothing in between, and a call returns when all have been executed.
ImplementsService == Service!ServiceSpec

\* A call that has a process gets its answer and releases the process again,
\* as long as the server is up and this process has not died, whatever
\* happens to the others.
ProcessReleased ==
  \A p \in Processes :
    [](server /\ ~ Gone(p)) => (mutex[p] # NONE ~> mutex[p] = NONE)

\* When the server exits every replay process ends, though the processes keep
\* ends of each other's pipes open: one after the other they get their EOF.
ProcessesEnd == ~ server ~> \A p \in Processes : Gone(p)

-----------------------------------------------------------------------------
(* The inductive invariant behind them *)

Owns(t) == th[t].pc \in {"write", "read", "unlock"}

\* The units of a call's messages, and of an answer to it, from the first on.
Requests(t) == [n \in Nat |-> Unit(t, n)]
Answers(t) == [n \in Nat |-> [by |-> t, no |-> th[t].no, pos |-> n]]

\* s is what follows the first n units of the stream.
Portion(s, stream, n) == \A k \in 1 .. Len(s) : s[k] = stream[n + k]

\* A thread between its trylocks and its unlock has the mutex of replayPid, has
\* written sendLen units of its messages, and waits for the rest of recv.
ThreadInv(t) ==
  /\ IF th[t].pc = "idle" THEN th[t].call = <<>> ELSE th[t].call \in CallsOf[t]
  /\ th[t].pc \in {"try", "lock"} => th[t].sendLen = 0 /\ ran[t] = 0
  /\ th[t].pc = "try" => th[t].i < REPLAY_PROCESS_NUM
  /\ ~ Owns(t) => th[t].recv = <<>>
  /\ Owns(t) => mutex[th[t].replayPid] = t
  /\ th[t].pc = "write" => th[t].sendLen < MSG_LEN * Len(th[t].call)
  /\ th[t].pc \in {"read", "unlock"} => th[t].sendLen = MSG_LEN * Len(th[t].call)
  /\ th[t].pc \in {"write", "read"} => Len(th[t].recv) < Expected(t)
  /\ th[t].pc = "unlock" => Len(th[t].recv) = Expected(t)
  /\ Portion(th[t].recv, Answers(t), 0)

\* The process whose mutex is free waits, or has ended with the server.
FreeInv(p) ==
  mutex[p] = NONE =>
    /\ proc[p] = Waiting \/ proc[p] = [Waiting EXCEPT !.pc = "exited"]
    /\ serverPipe[p] = <<>>
    /\ computePipe[p] = <<>>

\* Commands of its call that process p has taken out of stdin_buf for t.
Taken(p, t) == IF proc[p].pc = "execute" THEN ran[t] + 1 ELSE ran[t]

\* What t has sent and p has not taken is in stdin_buf and the pipe, in order.
RequestsInOrder(p, t) ==
  LET taken == MSG_LEN * Taken(p, t)
      input == proc[p].input
  IN  /\ Taken(p, t) <= Len(th[t].call)
      /\ taken + Len(input) + Len(serverPipe[p]) = th[t].sendLen
      /\ Portion(input, Requests(t), taken)
      /\ Portion(serverPipe[p], Requests(t), taken + Len(input))
      /\ proc[p].command = IF proc[p].pc = "execute"
                             THEN Unit(t, MSG_LEN * ran[t] + 1) ELSE NONE

\* What p has to answer, with all commands executed, is in recv, the pipe and
\* the output of p, in order.
AnswersInOrder(p, t) ==
  LET received == Len(th[t].recv)
      piped == Len(computePipe[p])
      output == proc[p].output
  IN  /\ proc[p].pc = "write" <=> output # <<>>
      /\ received + piped + Len(output) =
           IF ran[t] = Len(th[t].call) THEN Expected(t) ELSE 0
      /\ Portion(computePipe[p], Answers(t), received)
      /\ Portion(output, Answers(t), received + piped)

ServingInv(p, t) ==
  mutex[p] = t =>
    /\ Owns(t)
    /\ th[t].replayPid = p
    /\ ~ Gone(p) => RequestsInOrder(p, t) /\ AnswersInOrder(p, t)
    /\ proc[p].pc = "crashed" => th[t].recv = <<>> /\ computePipe[p] = <<>>

PoolInv ==
  /\ ReplayTypeOK
  /\ \A t \in Threads : ThreadInv(t)
  /\ \A p \in Processes : FreeInv(p)
  /\ \A p \in Processes, t \in Threads : ServingInv(p, t)
  /\ \A p \in Processes : proc[p].pc = "exited" => ~ server
=============================================================================
