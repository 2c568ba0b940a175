-------------------------- MODULE ReplayPoolProofs --------------------------
(***************************************************************************)
(* The invariants of ReplayPool and its refinement of ReplayService,       *)
(* proved for every number of threads, processes and units of a page.      *)
(***************************************************************************)
EXTENDS ReplayPool, TLAPS

\* A step that names no prover has 30 seconds of SMT.
USE SMTT(30)

-----------------------------------------------------------------------------
(* Sequences *)

\* The elements of a concatenation.
LEMMA ConcatFacts ==
  ASSUME NEW S, NEW a \in Seq(S), NEW b \in Seq(S)
  PROVE  /\ a \o b \in Seq(S)
         /\ Len(a \o b) = Len(a) + Len(b)
         /\ \A k \in 1 .. Len(a) : (a \o b)[k] = a[k]
         /\ \A k \in 1 .. Len(b) : (a \o b)[Len(a) + k] = b[k]
         /\ \A k \in Len(a) + 1 .. Len(a) + Len(b) : (a \o b)[k] = b[k - Len(a)]
OBVIOUS

\* The length of a concatenation.
LEMMA ConcatLen ==
  ASSUME NEW S, NEW a \in Seq(S), NEW b \in Seq(S)
  PROVE  a \o b \in Seq(S) /\ Len(a \o b) = Len(a) + Len(b)
OBVIOUS

\* The elements of the first n, and of what is behind them.
LEMMA SplitFacts ==
  ASSUME NEW S, NEW a \in Seq(S), NEW n \in 0 .. Len(a)
  PROVE  /\ SubSeq(a, 1, n) \in Seq(S)
         /\ Len(SubSeq(a, 1, n)) = n
         /\ \A k \in 1 .. n : SubSeq(a, 1, n)[k] = a[k]
         /\ SubSeq(a, n + 1, Len(a)) \in Seq(S)
         /\ Len(SubSeq(a, n + 1, Len(a))) = Len(a) - n
         /\ \A k \in 1 .. Len(a) - n : SubSeq(a, n + 1, Len(a))[k] = a[n + k]
OBVIOUS

\* The lengths of the two parts.
LEMMA SplitLen ==
  ASSUME NEW S, NEW a \in Seq(S), NEW n \in 0 .. Len(a)
  PROVE  /\ SubSeq(a, 1, n) \in Seq(S) /\ Len(SubSeq(a, 1, n)) = n
         /\ SubSeq(a, n + 1, Len(a)) \in Seq(S)
         /\ Len(SubSeq(a, n + 1, Len(a))) = Len(a) - n
BY SplitFacts

\* Two portions that follow each other make one.
LEMMA PortionConcat ==
  ASSUME NEW S, NEW a \in Seq(S), NEW b \in Seq(S), NEW u, NEW n \in Nat,
         Portion(a, u, n), Portion(b, u, n + Len(a))
  PROVE  Portion(a \o b, u, n)
<1>1. SUFFICES ASSUME NEW k \in 1 .. Len(a \o b)
               PROVE  (a \o b)[k] = u[n + k]
  BY DEF Portion
<1>2. CASE k \in 1 .. Len(a)
  BY <1>2, ConcatFacts DEF Portion
<1>3. CASE k \notin 1 .. Len(a)
  <2>1. k - Len(a) \in 1 .. Len(b) /\ (a \o b)[k] = b[k - Len(a)]
    BY <1>3, ConcatFacts
  <2>2. n + Len(a) + (k - Len(a)) = n + k
    OBVIOUS
  <2>3. b[k - Len(a)] = u[n + Len(a) + (k - Len(a))]
    BY <2>1 DEF Portion
  <2> QED BY <2>1, <2>2, <2>3
<1> QED BY <1>2, <1>3

\* Both parts of a portion are portions.
LEMMA PortionSplit ==
  ASSUME NEW S, NEW a \in Seq(S), NEW u, NEW n \in Nat, NEW m \in 0 .. Len(a),
         Portion(a, u, n)
  PROVE  /\ Portion(SubSeq(a, 1, m), u, n)
         /\ Portion(SubSeq(a, m + 1, Len(a)), u, n + m)
<1>1. Portion(SubSeq(a, 1, m), u, n)
  BY SplitFacts DEF Portion
<1>2. ASSUME NEW k \in 1 .. Len(a) - m
      PROVE  SubSeq(a, m + 1, Len(a))[k] = u[n + m + k]
  <2>1. m + k \in 1 .. Len(a) /\ n + (m + k) = n + m + k
    OBVIOUS
  <2>2. a[m + k] = u[n + (m + k)]
    BY <2>1 DEF Portion
  <2> QED BY <2>1, <2>2, SplitFacts
<1> QED BY <1>1, <1>2, SplitFacts DEF Portion

\* The m units of a stream behind the first n.
Following(u, n, m) == [k \in 1 .. m |-> u[n + k]]

\* What follows in the stream is a portion of it.
LEMMA PortionNew ==
  ASSUME NEW S, NEW u, NEW n \in Nat, NEW m \in Nat,
         \A k \in 1 .. m : u[n + k] \in S
  PROVE  /\ Following(u, n, m) \in Seq(S)
         /\ Len(Following(u, n, m)) = m
         /\ Portion(Following(u, n, m), u, n)
BY DEF Portion, Following

\* Nothing is a portion of anything.
LEMMA PortionEmpty ==
  \A u, n : Portion(<<>>, u, n)
BY DEF Portion

\* Only the empty sequence has length 0.
LEMMA EmptyFacts ==
  /\ Len(<<>>) = 0
  /\ 1 .. Len(<<>>) = {}
  /\ <<>> \in Seq(AnswerUnits) /\ <<>> \in Seq(RequestUnits)
  /\ \A a \in Seq(AnswerUnits) : Len(a) \in Nat /\ (Len(a) = 0 <=> a = <<>>)
  /\ \A a \in Seq(RequestUnits) : Len(a) \in Nat /\ (Len(a) = 0 <=> a = <<>>)
OBVIOUS

-----------------------------------------------------------------------------
(* Calls *)

\* A call is one command or two; all but the last are not answered.
LEMMA CallFacts ==
  ASSUME NEW call \in Calls
  PROVE  /\ Len(call) \in Nat /\ 1 <= Len(call) /\ Len(call) <= 2
         /\ MSG_LEN * Len(call) = Len(call) + Len(call)
         /\ call \in Seq(Commands)
         /\ AnswerLen(call[Len(call)]) \in 1 .. BLCKSZ
         /\ Len(call) = 2 => AnswerLen(call[1]) = 0
         /\ call # <<>>
<1> USE DEF AnswerLen, Commands, MSG_LEN
<1>1. CASE call = GetPageByLsn
  BY <1>1, PoolAssumption DEF GetPageByLsn
<1>2. CASE call = SyncGetRelSize
  BY <1>2, PoolAssumption DEF SyncGetRelSize
<1>3. CASE call = WalRedoCreateRel
  BY <1>3, PoolAssumption DEF WalRedoCreateRel
<1>4. CASE call = WalRedoExtendRel
  BY <1>4, PoolAssumption DEF WalRedoExtendRel
<1>5. CASE call = GetBasePage
  BY <1>5, PoolAssumption DEF GetBasePage
<1>6. CASE call = ApplyOneLsn
  BY <1>6, PoolAssumption DEF ApplyOneLsn
<1>7. CASE call = ApplyOneLsnWithoutBasePage
  BY <1>7, PoolAssumption DEF ApplyOneLsnWithoutBasePage
<1>8. CASE call = ApplyLsnList
  BY <1>8, PoolAssumption DEF ApplyLsnList
<1>9. CASE call = ApplyLsnListAndGetUpdatedPage
  BY <1>9, PoolAssumption DEF ApplyLsnListAndGetUpdatedPage
<1> QED BY <1>1, <1>2, <1>3, <1>4, <1>5, <1>6, <1>7, <1>8, <1>9 DEF Calls

-----------------------------------------------------------------------------
(* Types *)

\* The fields of a thread and of a process.
LEMMA FieldFacts ==
  ASSUME ReplayTypeOK
  PROVE  /\ server \in BOOLEAN
         /\ \A t \in Threads :
              /\ th[t].pc \in {"idle", "try", "lock", "write", "read", "unlock"}
              /\ th[t].no \in Nat
              /\ th[t].call \in Calls \cup {<<>>}
              /\ th[t].replayPid \in Processes
              /\ th[t].i \in 0 .. REPLAY_PROCESS_NUM
              /\ th[t].sendLen \in 0 .. 4
              /\ th[t].recv \in Seq(AnswerUnits)
              /\ ran[t] \in Nat
         /\ \A p \in Processes :
              /\ mutex[p] \in Threads \cup {NONE}
              /\ serverPipe[p] \in Seq(RequestUnits)
              /\ computePipe[p] \in Seq(AnswerUnits)
              /\ proc[p].pc \in {"read", "execute", "write", "crashed", "exited"}
              /\ proc[p].input \in Seq(RequestUnits)
              /\ proc[p].command \in RequestUnits \cup {NONE}
              /\ proc[p].output \in Seq(AnswerUnits)
BY DEF ReplayTypeOK, ThreadStates, ProcessStates, MSG_LEN

-----------------------------------------------------------------------------
(* What a step does not touch *)

\* ThreadInv is about the thread, its history and its mutex.
LEMMA ThreadFrame ==
  ASSUME NEW t \in Threads, ThreadInv(t), th'[t] = th[t], ran'[t] = ran[t],
         Owns(t) => mutex'[th[t].replayPid] = mutex[th[t].replayPid]
  PROVE  ThreadInv(t)'
BY ZenonT(60) DEF ThreadInv, Owns, Expected, Portion, Answers

\* FreeInv is about the mutex, the process and its pipes.
LEMMA FreeFrame ==
  ASSUME NEW p \in Processes, FreeInv(p), mutex'[p] = mutex[p], proc'[p] = proc[p],
         serverPipe'[p] = serverPipe[p], computePipe'[p] = computePipe[p]
  PROVE  FreeInv(p)'
BY DEF FreeInv, Waiting

\* ServingInv is about the process and the thread it works for.
LEMMA ServingFrame ==
  ASSUME NEW p \in Processes, NEW t \in Threads, ServingInv(p, t),
         mutex'[p] = mutex[p], proc'[p] = proc[p],
         serverPipe'[p] = serverPipe[p], computePipe'[p] = computePipe[p],
         th'[t] = th[t], ran'[t] = ran[t]
  PROVE  ServingInv(p, t)'
<1>1. /\ Requests(t)' = Requests(t)
      /\ Answers(t)' = Answers(t)
      /\ \A n : Unit(t, n)' = Unit(t, n)
  BY DEF Unit, Requests, Answers
<1>2. Taken(p, t)' = Taken(p, t)
  BY DEF Taken
<1>3. RequestsInOrder(p, t) => RequestsInOrder(p, t)'
  BY <1>1, <1>2 DEF RequestsInOrder, Portion
<1>4. Expected(t)' = Expected(t)
  BY DEF Expected
<1>5. AnswersInOrder(p, t) => AnswersInOrder(p, t)'
  BY ZenonT(60), <1>1, <1>4 DEF AnswersInOrder, Portion
<1> QED BY <1>3, <1>5 DEF ServingInv, Owns, Gone

\* A mutex has one owner, and an owner one mutex.
LEMMA OwnerFacts ==
  ASSUME PoolInv, NEW t \in Threads, Owns(t)
  PROVE  /\ th[t].replayPid \in Processes
         /\ mutex[th[t].replayPid] = t
         /\ \A p \in Processes : mutex[p] = t => p = th[t].replayPid
         /\ th[t].call \in Calls
         /\ ServingInv(th[t].replayPid, t)
<1>1. th[t].replayPid \in Processes
  BY FieldFacts DEF PoolInv
<1>2. mutex[th[t].replayPid] = t
  BY DEF PoolInv, ThreadInv
<1>3. \A p \in Processes : mutex[p] = t => p = th[t].replayPid
  BY DEF PoolInv, ServingInv
<1>4. th[t].call \in Calls
  BY PoolAssumption DEF PoolInv, ThreadInv, Owns
<1> QED BY <1>1, <1>2, <1>3, <1>4 DEF PoolInv

-----------------------------------------------------------------------------
(* The steps of a thread *)

\* Call: the thread owns nothing, so nothing else is about it.
LEMMA CallPreserves ==
  ASSUME PoolInv, NEW t \in Threads, NEW call \in Calls, Call(t, call)
  PROVE  PoolInv'
<1> DEFINE r == [pc |-> "try", no |-> th[t].no + 1, call |-> call, replayPid |-> 0,
                 i |-> 0, sendLen |-> 0, recv |-> <<>>]
<1>0. th' = [th EXCEPT ![t] = r]
  BY DEF Call, Locals
<1>1. ReplayTypeOK'
  <2>1. r \in ThreadStates
    <3>1. th[t].no + 1 \in Nat /\ 0 \in Processes /\ 0 \in 0 .. REPLAY_PROCESS_NUM
      BY PoolAssumption, FieldFacts DEF PoolInv, Processes
    <3> QED BY <3>1, EmptyFacts DEF ThreadStates, MSG_LEN
  <2> HIDE DEF r
  <2> QED BY <1>0, <2>1 DEF PoolInv, ReplayTypeOK, Call
<1>2. /\ th'[t] = r
      /\ ran'[t] = 0
      /\ \A u \in Threads \ {t} : th'[u] = th[u] /\ ran'[u] = ran[u]
  BY <1>0 DEF Call, PoolInv, ReplayTypeOK
<1>3. ASSUME NEW u \in Threads PROVE ThreadInv(u)'
  <2>1. CASE u = t
    <3>1. th'[t].recv = <<>> /\ th'[t].pc = "try" /\ th'[t].call \in CallsOf[t]
          /\ th'[t].sendLen = 0 /\ th'[t].i = 0 /\ ran'[t] = 0
      BY <1>2 DEF Call
    <3> QED BY <2>1, <3>1, PortionEmpty, PoolAssumption DEF ThreadInv, Owns
  <2>2. CASE u # t
    BY <1>2, <2>2, ThreadFrame DEF Call, PoolInv
  <2> QED BY <2>1, <2>2
<1>4. ASSUME NEW p \in Processes PROVE FreeInv(p)'
  BY FreeFrame DEF Call, PoolInv
<1>5. ASSUME NEW p \in Processes, NEW u \in Threads PROVE ServingInv(p, u)'
  <2>1. CASE u = t
    BY <2>1 DEF Call, PoolInv, ServingInv, Owns
  <2>2. CASE u # t
    BY <1>2, <2>2, ServingFrame DEF Call, PoolInv
  <2> QED BY <2>1, <2>2
<1> QED BY <1>1, <1>3, <1>4, <1>5 DEF PoolInv, Call

\* What TryLock and Lock do when they get the mutex.
Acquire(t, p) ==
  /\ server
  /\ th[t].pc \in {"try", "lock"}
  /\ mutex[p] = NONE
  /\ mutex' = [mutex EXCEPT ![p] = t]
  /\ th' = [th EXCEPT ![t].pc = "write", ![t].replayPid = p]
  /\ UNCHANGED <<server, serverPipe, computePipe, proc, ran>>

\* A thread that takes a free mutex finds the process waiting and both pipes
\* empty.
LEMMA AcquirePreserves ==
  ASSUME PoolInv, NEW t \in Threads, NEW p \in Processes, Acquire(t, p)
  PROVE  PoolInv'
<1>1. ReplayTypeOK'
  <2>1. [th[t] EXCEPT !.pc = "write", !.replayPid = p] \in ThreadStates
    BY ZenonT(60) DEF PoolInv, ReplayTypeOK, ThreadStates
  <2> QED BY <2>1 DEF Acquire, PoolInv, ReplayTypeOK
<1>2. /\ th'[t].pc = "write" /\ th'[t].replayPid = p
      /\ th'[t].no = th[t].no /\ th'[t].call = th[t].call
      /\ th'[t].sendLen = th[t].sendLen /\ th'[t].recv = th[t].recv
      /\ \A u \in Threads \ {t} : th'[u] = th[u]
      /\ mutex'[p] = t
      /\ \A q \in Processes \ {p} : mutex'[q] = mutex[q]
      /\ server' = server /\ serverPipe' = serverPipe /\ computePipe' = computePipe
      /\ proc' = proc /\ ran' = ran
  BY DEF Acquire, PoolInv, ReplayTypeOK, ThreadStates
<1>3. th[t].call \in CallsOf[t] /\ th[t].call \in Calls /\ ~ Owns(t) /\ th[t].recv = <<>> /\ th[t].sendLen = 0 /\ ran[t] = 0
  BY PoolAssumption DEF Acquire, PoolInv, ThreadInv, Owns
<1>4. proc[p] = Waiting /\ serverPipe[p] = <<>> /\ computePipe[p] = <<>>
  BY DEF Acquire, PoolInv, FreeInv, Waiting
<1>5. ASSUME NEW u \in Threads PROVE ThreadInv(u)'
  <2>1. CASE u = t
    <3>1. 1 <= Len(th[t].call) /\ AnswerLen(th[t].call[Len(th[t].call)]) \in 1 .. BLCKSZ
      BY <1>3, CallFacts
    <3>2. Expected(t)' \in 1 .. BLCKSZ
      BY <1>2, <3>1 DEF Expected
    <3>3. Len(th'[t].recv) = 0 /\ th'[t].sendLen = 0
      BY <1>2, <1>3, EmptyFacts
    <3>4. th'[t].sendLen < MSG_LEN * Len(th'[t].call)
      BY <1>2, <1>3, <3>3, CallFacts
    <3>5. Len(th'[t].recv) < Expected(t)'
      BY <3>2, <3>3
    <3> QED BY <1>2, <1>3, <2>1, <3>3, <3>4, <3>5, PortionEmpty DEF ThreadInv, Owns
  <2>2. CASE u # t
    <3>1. Owns(u) => th[u].replayPid # p /\ th[u].replayPid \in Processes
      BY OwnerFacts, PoolAssumption DEF Acquire
    <3> QED BY <1>2, <2>2, <3>1, ThreadFrame DEF PoolInv
  <2> QED BY <2>1, <2>2
<1>6. ASSUME NEW q \in Processes PROVE FreeInv(q)'
  <2>1. CASE q = p
    BY <1>2, <2>1, PoolAssumption DEF FreeInv
  <2>2. CASE q # p
    BY <1>2, <2>2, FreeFrame DEF PoolInv
  <2> QED BY <2>1, <2>2
<1>7. ASSUME NEW q \in Processes, NEW u \in Threads PROVE ServingInv(q, u)'
  <2>1. CASE u = t /\ q = p
    <3>1. Len(th[t].call) \in Nat /\ 1 <= Len(th[t].call)
      BY <1>3, CallFacts
    <3>2. RequestsInOrder(p, t)'
      <4>1. Taken(p, t)' = 0 /\ MSG_LEN * 0 = 0
        BY <1>2, <1>3, <1>4 DEF Taken, Waiting, MSG_LEN
      <4>2. /\ serverPipe'[p] = <<>> /\ proc'[p].input = <<>>
            /\ proc'[p].command = NONE /\ proc'[p].pc = "read"
            /\ th'[t].sendLen = 0 /\ 0 <= Len(th'[t].call)
        BY <1>2, <1>3, <1>4, <3>1 DEF Waiting
      <4> QED BY <4>1, <4>2, EmptyFacts, PortionEmpty DEF RequestsInOrder
    <3>3. AnswersInOrder(p, t)'
      <4>1. /\ Len(th'[t].recv) = 0 /\ Len(computePipe'[p]) = 0
            /\ proc'[p].pc = "read" /\ proc'[p].output = <<>>
            /\ Len(proc'[p].output) = 0
            /\ ran'[t] # Len(th'[t].call)
        <5>1. ran'[t] = 0 /\ 1 <= Len(th'[t].call)
          BY <1>2, <1>3, <3>1
        <5>2. ran'[t] # Len(th'[t].call)
          BY <5>1
        <5> QED BY <1>2, <1>3, <1>4, <5>2, EmptyFacts DEF Waiting
      <4>2. th'[t].recv = <<>> /\ computePipe'[p] = <<>>
        BY <1>2, <1>3, <1>4
      <4> QED BY <4>1, <4>2, PortionEmpty DEF AnswersInOrder
    <3> QED BY <1>2, <1>4, <2>1, <3>2, <3>3
            DEF ServingInv, Owns, Waiting, PoolInv, ReplayTypeOK
  <2>2. CASE u = t /\ q # p
    BY <1>2, <1>3, <2>2 DEF PoolInv, ServingInv
  <2>3. CASE u # t /\ q = p
    BY <1>2, <2>3 DEF ServingInv
  <2>4. CASE u # t /\ q # p
    BY <1>2, <2>4, ServingFrame DEF PoolInv
  <2> QED BY <2>1, <2>2, <2>3, <2>4
<1> QED BY <1>1, <1>2, <1>5, <1>6, <1>7 DEF PoolInv

\* Lock, when the mutex has been released.
LEMMA LockPreserves ==
  ASSUME PoolInv, NEW t \in Threads, Lock(t)
  PROVE  PoolInv'
<1> DEFINE p == th[t].replayPid
<1>1. p \in Processes
  BY FieldFacts DEF PoolInv
<1>2. th' = [th EXCEPT ![t].pc = "write", ![t].replayPid = p]
  BY ZenonT(60) DEF Lock, PoolInv, ReplayTypeOK
<1> QED BY ZenonT(60), <1>1, <1>2, AcquirePreserves DEF Lock, Acquire

\* The loop tries processes there are.
LEMMA CandidateFacts ==
  ASSUME PoolInv, NEW t \in Threads
  PROVE  Candidate(t) \in Processes
<1>1. Home[t] \in Nat /\ th[t].i \in Nat /\ REPLAY_PROCESS_NUM \in Nat \ {0}
  BY PoolAssumption, FieldFacts DEF PoolInv, Processes
<1>2. (Home[t] + th[t].i) % REPLAY_PROCESS_NUM \in 0 .. REPLAY_PROCESS_NUM - 1
  BY <1>1
<1> QED BY <1>2 DEF Candidate, Processes

\* TryLock, taken or not.
LEMMA TryLockPreserves ==
  ASSUME PoolInv, NEW t \in Threads, TryLock(t)
  PROVE  PoolInv'
<1> DEFINE p == Candidate(t)
<1>1. p \in Processes
  BY CandidateFacts
<1>2. CASE mutex[p] = NONE
  BY <1>1, <1>2, AcquirePreserves DEF TryLock, Acquire
<1>3. CASE mutex[p] # NONE
  <2>1. /\ th[t].pc = "try"
        /\ th' = [th EXCEPT ![t].i = @ + 1,
                            ![t].pc = IF th[t].i + 1 < REPLAY_PROCESS_NUM
                                        THEN "try" ELSE "lock",
                            ![t].replayPid = Home[t]]
        /\ UNCHANGED <<server, mutex, serverPipe, computePipe, proc, ran>>
    BY <1>3 DEF TryLock
  <2>2. ReplayTypeOK'
    <3>1. th[t].i + 1 \in 0 .. REPLAY_PROCESS_NUM /\ Home[t] \in Processes
      BY <2>1, FieldFacts, PoolAssumption DEF PoolInv, ThreadInv
    <3>2. [th[t] EXCEPT !.i = @ + 1, !.pc = IF th[t].i + 1 < REPLAY_PROCESS_NUM
                                              THEN "try" ELSE "lock",
                        !.replayPid = Home[t]] \in ThreadStates
      BY ZenonT(60), <3>1 DEF PoolInv, ReplayTypeOK, ThreadStates
    <3> QED BY <2>1, <3>2 DEF PoolInv, ReplayTypeOK
  <2>3. /\ th'[t].pc \in {"try", "lock"}
        /\ th'[t].i = th[t].i + 1
        /\ th'[t].pc = "try" => th[t].i + 1 < REPLAY_PROCESS_NUM
        /\ th'[t].no = th[t].no /\ th'[t].call = th[t].call
        /\ th'[t].sendLen = th[t].sendLen /\ th'[t].recv = th[t].recv
        /\ \A u \in Threads \ {t} : th'[u] = th[u]
    BY <2>1 DEF PoolInv, ReplayTypeOK, ThreadStates
  <2>4. ASSUME NEW u \in Threads PROVE ThreadInv(u)'
    <3>1. CASE u = t
      BY <2>1, <2>3, <3>1, PortionEmpty DEF PoolInv, ThreadInv, Owns
    <3>2. CASE u # t
      BY ZenonT(60), <2>1, <2>3, <3>2, ThreadFrame DEF PoolInv
    <3> QED BY <3>1, <3>2
  <2>5. ASSUME NEW q \in Processes PROVE FreeInv(q)'
    BY <2>1, FreeFrame DEF PoolInv
  <2>6. ASSUME NEW q \in Processes, NEW u \in Threads PROVE ServingInv(q, u)'
    <3>1. CASE u = t
      BY <2>1, <3>1 DEF PoolInv, ServingInv, Owns
    <3>2. CASE u # t
      BY ZenonT(60), <2>1, <2>3, <3>2, ServingFrame DEF PoolInv
    <3> QED BY <3>1, <3>2
  <2> QED BY <2>1, <2>2, <2>4, <2>5, <2>6 DEF PoolInv
<1> QED BY <1>2, <1>3

\* Nothing changes but what belongs to t and the process it owns.
Touches(t, p) ==
  /\ server' = server /\ mutex' = mutex
  /\ \A u \in Threads \ {t} : th'[u] = th[u] /\ ran'[u] = ran[u]
  /\ \A q \in Processes \ {p} :
       /\ proc'[q] = proc[q]
       /\ serverPipe'[q] = serverPipe[q]
       /\ computePipe'[q] = computePipe[q]

\* What is left to show of such a step.
LEMMA OwnerStep ==
  ASSUME PoolInv, ReplayTypeOK', NEW t \in Threads, NEW p \in Processes,
         mutex[p] = t, Touches(t, p), ThreadInv(t)', ServingInv(p, t)',
         proc'[p].pc # "exited"
  PROVE  PoolInv'
<1>1. \A q \in Processes : mutex[q] = t => q = p
  BY OwnerFacts DEF PoolInv, ServingInv
<1>2. ASSUME NEW u \in Threads PROVE ThreadInv(u)'
  <2>1. CASE u = t
    BY <2>1
  <2>2. CASE u # t
    BY <2>2, ThreadFrame DEF PoolInv, Touches
  <2> QED BY <2>1, <2>2
<1>3. ASSUME NEW q \in Processes PROVE FreeInv(q)'
  <2>1. CASE q = p
    BY <1>1, <2>1, PoolAssumption DEF FreeInv, Touches
  <2>2. CASE q # p
    BY <2>2, FreeFrame DEF PoolInv, Touches
  <2> QED BY <2>1, <2>2
<1>4. ASSUME NEW q \in Processes, NEW u \in Threads PROVE ServingInv(q, u)'
  <2>1. CASE q = p /\ u = t
    BY <2>1
  <2>2. CASE q = p /\ u # t
    BY <1>1, <2>2 DEF ServingInv, Touches
  <2>3. CASE q # p /\ u = t
    BY <1>1, <2>3 DEF ServingInv, Touches
  <2>4. CASE q # p /\ u # t
    BY <2>4, ServingFrame DEF PoolInv, Touches
  <2> QED BY <2>1, <2>2, <2>3, <2>4
<1>5. ASSUME NEW q \in Processes, proc'[q].pc = "exited" PROVE ~ server'
  <2>1. CASE q = p
    BY <1>5, <2>1
  <2>2. CASE q # p
    BY <1>5, <2>2 DEF Touches, PoolInv
  <2> QED BY <2>1, <2>2
<1> QED BY <1>2, <1>3, <1>4, <1>5 DEF PoolInv

\* The units of a call are the process's to read.
LEMMA RequestUnit ==
  ASSUME PoolInv, NEW t \in Threads, Owns(t), NEW n \in Nat,
         1 <= n, n <= MSG_LEN * Len(th[t].call)
  PROVE  Requests(t)[n] \in RequestUnits /\ Requests(t)[n] = Unit(t, n)
<1>1. th[t].call \in Calls /\ th[t].no \in Nat
  BY OwnerFacts, FieldFacts DEF PoolInv
<1> DEFINE len == Len(th[t].call)
<1>2. len \in Nat /\ n <= len + len /\ th[t].call \in Seq(Commands)
  BY <1>1, CallFacts
<1> HIDE DEF len
<1>3. (n - 1) \div 2 + 1 \in 1 .. len
  BY <1>2
<1>4. th[t].call[(n - 1) \div MSG_LEN + 1] \in Commands
  BY <1>2, <1>3 DEF len, MSG_LEN
<1> QED BY <1>1, <1>4 DEF Requests, Unit, RequestUnits

\* A write ends at the end of a message.
LEMMA WriteBound ==
  ASSUME NEW sent \in Nat, NEW len \in Nat, sent < len + len,
         NEW n \in 1 .. MSG_LEN - (sent % MSG_LEN)
  PROVE  1 <= n /\ sent + n \in Nat /\ sent + n <= len + len
BY DEF MSG_LEN

\* Write appends the next units of the stream to the pipe.
LEMMA WritePreserves ==
  ASSUME PoolInv, NEW t \in Threads, NEW n \in Nat, Write(t, n)
  PROVE  PoolInv'
<1>0. PICK p \in Processes : p = th[t].replayPid
  BY FieldFacts DEF PoolInv
<1>1. /\ server /\ Owns(t) /\ th[t].pc = "write"
      /\ mutex[p] = t /\ ServingInv(p, t)
      /\ th[t].call \in Calls /\ ThreadInv(t)
  BY <1>0, OwnerFacts DEF Write, Owns, PoolInv
<1>2. PICK sent \in Nat, need \in Nat :
        /\ sent = th[t].sendLen /\ need = MSG_LEN * Len(th[t].call)
        /\ need <= 4 /\ sent < need
        /\ 1 <= n /\ sent + n \in Nat /\ sent + n <= need
  <2>1. PICK sent \in Nat : sent = th[t].sendLen
    BY FieldFacts DEF PoolInv
  <2>2. PICK len \in Nat : len <= 2 /\ MSG_LEN * Len(th[t].call) = len + len
    BY <1>1, CallFacts
  <2>3. sent < len + len
    BY <1>1, <2>1, <2>2 DEF ThreadInv
  <2>4. n \in 1 .. MSG_LEN - (sent % MSG_LEN)
    BY <2>1 DEF Write
  <2>5. 1 <= n /\ sent + n \in Nat /\ sent + n <= len + len
    BY <2>3, <2>4, WriteBound
  <2>6. len + len \in Nat /\ len + len <= 4
    BY <2>2
  <2> QED BY <2>1, <2>2, <2>3, <2>5, <2>6
<1> DEFINE new == Following(Requests(t), sent, n)
<1>3. ASSUME NEW k \in 1 .. n
      PROVE  Requests(t)[sent + k] \in RequestUnits /\ Requests(t)[sent + k] = Unit(t, sent + k)
  <2>0. sent + n <= need
    BY <1>2
  <2>1. sent + k \in Nat /\ 1 <= sent + k /\ sent + k <= need
    BY <2>0
  <2> QED BY <1>1, <1>2, <2>1, RequestUnit
<1>4. /\ new \in Seq(RequestUnits) /\ Len(new) = n
      /\ Portion(new, Requests(t), sent)
  <2>1. \A k \in 1 .. n : Requests(t)[sent + k] \in RequestUnits
    BY <1>3
  <2> DEFINE u == Requests(t)
  <2> HIDE DEF u
  <2>2. \A k \in 1 .. n : u[sent + k] \in RequestUnits
    BY <2>1 DEF u
  <2>3. /\ Following(u, sent, n) \in Seq(RequestUnits)
        /\ Len(Following(u, sent, n)) = n
        /\ Portion(Following(u, sent, n), u, sent)
    BY ZenonT(60), <2>2, PortionNew
  <2> QED BY <2>3 DEF u
<1>5. /\ serverPipe' = [serverPipe EXCEPT ![p] = @ \o new]
      /\ th' = [th EXCEPT ![t].sendLen = sent + n,
                          ![t].pc = IF sent + n < need THEN "write" ELSE "read"]
      /\ UNCHANGED <<server, mutex, computePipe, proc, ran>>
  <2>1. new = [k \in 1 .. n |-> Unit(t, sent + k)]
    BY <1>3 DEF Following
  <2> QED BY <1>0, <1>2, <2>1 DEF Write
<1> HIDE DEF new
<1>6. ReplayTypeOK'
  <2>1. serverPipe[p] \o new \in Seq(RequestUnits)
    BY <1>1, <1>4, FieldFacts, ConcatFacts DEF PoolInv
  <2>2. [th[t] EXCEPT !.sendLen = sent + n,
                      !.pc = IF sent + n < need THEN "write" ELSE "read"] \in ThreadStates
    <3>1. sent + n \in 0 .. 2 * MSG_LEN
      BY <1>2 DEF MSG_LEN
    <3> QED BY ZenonT(60), <3>1 DEF PoolInv, ReplayTypeOK, ThreadStates
  <2> QED BY <1>5, <2>1, <2>2 DEF PoolInv, ReplayTypeOK
<1>7. /\ th'[t].sendLen = sent + n
      /\ th'[t].pc = IF sent + n < need THEN "write" ELSE "read"
      /\ th'[t].no = th[t].no /\ th'[t].call = th[t].call
      /\ th'[t].replayPid = p /\ th'[t].recv = th[t].recv
      /\ \A u \in Threads \ {t} : th'[u] = th[u]
      /\ serverPipe'[p] = serverPipe[p] \o new
      /\ \A q \in Processes \ {p} : serverPipe'[q] = serverPipe[q]
  BY ZenonT(60), <1>0, <1>1, <1>5 DEF PoolInv, ReplayTypeOK, ThreadStates
<1>8. /\ Expected(t)' = Expected(t) /\ Answers(t)' = Answers(t)
      /\ Requests(t)' = Requests(t) /\ \A m : Unit(t, m)' = Unit(t, m)
  BY <1>7 DEF Expected, Answers, Requests, Unit
<1>9. ThreadInv(t)'
  BY <1>1, <1>2, <1>5, <1>7, <1>8 DEF ThreadInv, Owns
<1>10. ServingInv(p, t)'
  <2>1. CASE Gone(p)
    BY <1>1, <1>5, <1>7, <2>1 DEF ServingInv, Owns, Gone
  <2>2. CASE ~ Gone(p)
    <3>1. RequestsInOrder(p, t) /\ AnswersInOrder(p, t)
      BY <1>1, <2>2 DEF ServingInv
    <3>2. AnswersInOrder(p, t)'
      BY ZenonT(60), <1>5, <1>7, <1>8, <3>1 DEF AnswersInOrder
    <3>3. Taken(p, t)' = Taken(p, t)
      BY <1>5 DEF Taken
    <3>4. RequestsInOrder(p, t)'
      <4>1. /\ proc[p].input \in Seq(RequestUnits) /\ serverPipe[p] \in Seq(RequestUnits)
            /\ Taken(p, t) \in Nat
        BY FieldFacts DEF PoolInv, Taken
      <4>2. PICK base \in Nat : base = MSG_LEN * Taken(p, t) + Len(proc[p].input)
        BY <4>1 DEF MSG_LEN
      <4>3. base + Len(serverPipe[p]) = sent /\ Portion(serverPipe[p], Requests(t), base)
        BY <1>2, <3>1, <4>2 DEF RequestsInOrder
      <4>4. Portion(serverPipe[p] \o new, Requests(t), base)
        BY <1>4, <4>1, <4>3, PortionConcat
      <4>5. base + Len(serverPipe[p] \o new) = sent + n
        <5>1. Len(serverPipe[p] \o new) = Len(serverPipe[p]) + n
          BY <1>4, <4>1, ConcatLen
        <5>2. Len(serverPipe[p]) \in Nat
          BY <4>1
        <5> QED BY <4>3, <5>1, <5>2
      <4> QED BY <1>5, <1>7, <1>8, <3>1, <3>3, <4>2, <4>4, <4>5 DEF RequestsInOrder
    <3> QED BY <1>1, <1>5, <1>7, <3>2, <3>4 DEF ServingInv, Owns
  <2> QED BY <2>1, <2>2
<1>11. Touches(t, p) /\ proc'[p].pc # "exited"
  BY ZenonT(60), <1>1, <1>5, <1>7 DEF Touches, PoolInv
<1> QED BY <1>1, <1>6, <1>9, <1>10, <1>11, OwnerStep

\* The answer to a call has at least one unit.
LEMMA ExpectedFacts ==
  ASSUME PoolInv, NEW t \in Threads, Owns(t)
  PROVE  Expected(t) \in Nat /\ 1 <= Expected(t) /\ Expected(t) <= BLCKSZ
<1>1. AnswerLen(th[t].call[Len(th[t].call)]) \in 1 .. BLCKSZ
  BY OwnerFacts, CallFacts
<1> QED BY <1>1, PoolAssumption DEF Expected

\* Read moves the next units of the answer from the pipe to recv.
LEMMA ReadPreserves ==
  ASSUME PoolInv, NEW t \in Threads, NEW n \in Nat, Read(t, n)
  PROVE  PoolInv'
<1>0. PICK p \in Processes : p = th[t].replayPid
  BY FieldFacts DEF PoolInv
<1>1. /\ server /\ Owns(t) /\ th[t].pc = "read"
      /\ mutex[p] = t /\ ServingInv(p, t)
      /\ th[t].call \in Calls /\ ThreadInv(t)
  BY <1>0, OwnerFacts DEF Read, Owns, PoolInv
<1>2. PICK recv \in Seq(AnswerUnits), piped \in Seq(AnswerUnits), u \in {Answers(t)} :
        recv = th[t].recv /\ piped = computePipe[p] /\ u = Answers(t)
  BY FieldFacts DEF PoolInv
<1>3. PICK e \in Nat : e = Expected(t)
  BY <1>1, ExpectedFacts
<1>4. /\ 1 <= n /\ n <= e - Len(recv) /\ n <= Len(piped)
      /\ th' = [th EXCEPT ![t].recv = recv \o SubSeq(piped, 1, n),
                          ![t].pc = IF Len(recv) + n < e THEN "read" ELSE "unlock"]
      /\ computePipe' = [computePipe EXCEPT ![p] = SubSeq(piped, n + 1, Len(piped))]
      /\ UNCHANGED <<server, mutex, serverPipe, proc, ran>>
  <2>1. n \in 1 .. e - Len(recv) /\ n <= Len(piped)
    BY <1>0, <1>2, <1>3 DEF Read
  <2>2. 1 <= n /\ n <= e - Len(recv)
    BY <2>1
  <2> QED BY <1>0, <1>2, <1>3, <2>1, <2>2 DEF Read
<1>5. PICK first \in Seq(AnswerUnits), rest \in Seq(AnswerUnits) :
        /\ first = SubSeq(piped, 1, n) /\ Len(first) = n
        /\ rest = SubSeq(piped, n + 1, Len(piped)) /\ Len(rest) = Len(piped) - n
  <2>1. n \in 0 .. Len(piped)
    BY <1>4
  <2>2. /\ SubSeq(piped, 1, n) \in Seq(AnswerUnits)
        /\ Len(SubSeq(piped, 1, n)) = n
        /\ SubSeq(piped, n + 1, Len(piped)) \in Seq(AnswerUnits)
        /\ Len(SubSeq(piped, n + 1, Len(piped))) = Len(piped) - n
    BY <2>1, SplitLen, ZenonT(60)
  <2> QED BY <2>2, ZenonT(60)
<1>6. ReplayTypeOK'
  <2>1. recv \o first \in Seq(AnswerUnits)
    BY ConcatLen
  <2>2. [th[t] EXCEPT !.recv = recv \o first,
                      !.pc = IF Len(recv) + n < e THEN "read" ELSE "unlock"] \in ThreadStates
    BY ZenonT(60), <2>1 DEF PoolInv, ReplayTypeOK, ThreadStates
  <2> QED BY ZenonT(60), <1>4, <1>5, <2>2 DEF PoolInv, ReplayTypeOK
<1>7. /\ th'[t].recv = recv \o first
      /\ th'[t].pc = IF Len(recv) + n < e THEN "read" ELSE "unlock"
      /\ th'[t].no = th[t].no /\ th'[t].call = th[t].call
      /\ th'[t].replayPid = p /\ th'[t].sendLen = th[t].sendLen
      /\ \A v \in Threads \ {t} : th'[v] = th[v]
      /\ computePipe'[p] = rest
      /\ \A q \in Processes \ {p} : computePipe'[q] = computePipe[q]
  BY ZenonT(60), <1>0, <1>4, <1>5 DEF PoolInv, ReplayTypeOK, ThreadStates
<1>8. /\ Expected(t)' = e /\ Answers(t)' = u
      /\ Requests(t)' = Requests(t) /\ \A m : Unit(t, m)' = Unit(t, m)
  BY <1>2, <1>3, <1>7 DEF Expected, Answers, Requests, Unit
<1>9. Len(recv \o first) = Len(recv) + n
  BY <1>5, ConcatLen
<1>10. ~ Gone(p)
  <2>1. computePipe[p] # <<>>
    BY <1>2, <1>4, EmptyFacts
  <2> QED BY <1>1, <2>1 DEF Gone, ServingInv, PoolInv
<1>11. RequestsInOrder(p, t) /\ AnswersInOrder(p, t)
  BY <1>1, <1>10 DEF ServingInv
<1>12. /\ Portion(recv, u, 0) /\ Portion(piped, u, Len(recv))
       /\ Portion(proc[p].output, u, Len(recv) + Len(piped))
       /\ Len(recv) + Len(piped) + Len(proc[p].output) =
            IF ran[t] = Len(th[t].call) THEN e ELSE 0
  BY ZenonT(60), <1>1, <1>2, <1>3, <1>11 DEF ThreadInv, AnswersInOrder
<1>13. Portion(first, u, Len(recv)) /\ Portion(rest, u, Len(recv) + n)
  <2>1. n \in 0 .. Len(piped) /\ Len(recv) \in Nat
    BY <1>4
  <2> QED BY <1>5, <1>12, <2>1, PortionSplit
<1>14. ThreadInv(t)'
  <2>1. Portion(recv \o first, u, 0)
    <3>1. 0 + Len(recv) = Len(recv)
      OBVIOUS
    <3> QED BY <1>12, <1>13, <3>1, PortionConcat
  <2>2. Len(recv) + n <= e
    BY <1>4
  <2>3. th'[t].pc = "read" => Len(th'[t].recv) < Expected(t)'
    BY <1>7, <1>8, <1>9
  <2>4. th'[t].pc = "unlock" => Len(th'[t].recv) = Expected(t)'
    BY <1>7, <1>8, <1>9, <2>2
  <2>5. /\ th'[t].pc \in {"read", "unlock"} /\ th'[t].call \in CallsOf[t]
        /\ mutex'[th'[t].replayPid] = t
        /\ th'[t].sendLen = MSG_LEN * Len(th'[t].call)
    BY ZenonT(60), <1>1, <1>4, <1>7 DEF ThreadInv
  <2>6. Portion(th'[t].recv, Answers(t)', 0)
    BY <1>7, <1>8, <2>1
  <2> QED BY <2>3, <2>4, <2>5, <2>6 DEF ThreadInv, Owns
<1>15. RequestsInOrder(p, t)'
  <2>1. Taken(p, t)' = Taken(p, t)
    BY <1>4 DEF Taken
  <2> QED BY <1>4, <1>7, <1>8, <1>11, <2>1 DEF RequestsInOrder
<1>16. AnswersInOrder(p, t)'
  <2>1. PICK r \in Nat, c \in Nat, o \in Nat :
          r = Len(recv) /\ c = Len(piped) /\ o = Len(proc[p].output)
    BY FieldFacts DEF PoolInv
  <2>2. /\ Len(th'[t].recv) = r + n /\ Len(computePipe'[p]) = c - n
        /\ (r + n) + (c - n) = r + c /\ (r + n) + (c - n) + o = r + c + o
    <3>1. Len(th'[t].recv) = r + n
      BY <1>7, <1>9, <2>1
    <3>2. Len(computePipe'[p]) = c - n
      BY <1>5, <1>7, <2>1
    <3>3. (r + n) + (c - n) = r + c /\ (r + n) + (c - n) + o = r + c + o
      OBVIOUS
    <3> QED BY <3>1, <3>2, <3>3
  <2> QED BY ZenonT(60), <1>4, <1>7, <1>8, <1>11, <1>12, <1>13, <2>1, <2>2 DEF AnswersInOrder
<1>17. ServingInv(p, t)'
  BY <1>1, <1>4, <1>7, <1>10, <1>15, <1>16 DEF ServingInv, Owns, Gone
<1>18. Touches(t, p) /\ proc'[p].pc # "exited"
  BY ZenonT(60), <1>1, <1>4, <1>7 DEF Touches, PoolInv
<1> QED BY <1>1, <1>6, <1>14, <1>17, <1>18, OwnerStep

\* A complete answer leaves nothing behind: the process waits again.
LEMMA AnsweredFacts ==
  ASSUME PoolInv, server, NEW t \in Threads, th[t].pc = "unlock",
         NEW p \in Processes, p = th[t].replayPid
  PROVE  /\ proc[p] = Waiting /\ serverPipe[p] = <<>> /\ computePipe[p] = <<>>
         /\ ran[t] = Len(th[t].call)
<1>1. /\ Owns(t) /\ mutex[p] = t /\ ServingInv(p, t) /\ th[t].call \in Calls
      /\ ThreadInv(t)
  BY OwnerFacts DEF Owns, PoolInv
<1>2. PICK e \in Nat : e = Expected(t) /\ 1 <= e
  BY <1>1, ExpectedFacts
<1>3. Len(th[t].recv) = e
  BY <1>1, <1>2 DEF ThreadInv
<1>4. ~ Gone(p)
  <2>1. th[t].recv # <<>>
    BY <1>2, <1>3, EmptyFacts
  <2> QED BY <1>1, <2>1 DEF Gone, ServingInv, PoolInv
<1>5. RequestsInOrder(p, t) /\ AnswersInOrder(p, t)
  BY <1>1, <1>4 DEF ServingInv
<1>s. /\ computePipe[p] \in Seq(AnswerUnits) /\ proc[p].output \in Seq(AnswerUnits)
      /\ proc[p].input \in Seq(RequestUnits) /\ serverPipe[p] \in Seq(RequestUnits)
  BY FieldFacts DEF PoolInv
<1>6. PICK c \in Nat, o \in Nat, i \in Nat, s \in Nat :
        /\ c = Len(computePipe[p]) /\ o = Len(proc[p].output)
        /\ i = Len(proc[p].input) /\ s = Len(serverPipe[p])
  BY <1>s, EmptyFacts, ZenonT(60)
<1>7. ran[t] = Len(th[t].call) /\ c = 0 /\ o = 0
  <2>1. e + c + o = IF ran[t] = Len(th[t].call) THEN e ELSE 0
    BY <1>2, <1>3, <1>5, <1>6 DEF AnswersInOrder
  <2> QED BY <1>2, <2>1
<1>8. proc[p].pc # "execute"
  <2>1. PICK len \in Nat : len = Len(th[t].call)
    BY <1>1, CallFacts
  <2>2. Taken(p, t) <= len
    BY <1>5, <2>1 DEF RequestsInOrder
  <2> QED BY <1>7, <2>1, <2>2 DEF Taken
<1>9. i = 0 /\ s = 0
  <2>1. PICK need \in Nat : need = MSG_LEN * Len(th[t].call)
    BY <1>1, CallFacts
  <2>2. Taken(p, t) = Len(th[t].call) /\ th[t].sendLen = need
    BY <1>1, <1>7, <1>8, <2>1 DEF Taken, ThreadInv
  <2>3. MSG_LEN * Taken(p, t) + Len(proc[p].input) + Len(serverPipe[p]) = th[t].sendLen
    BY <1>5 DEF RequestsInOrder
  <2>4. need + i + s = need
    BY <1>6, <2>1, <2>2, <2>3
  <2> QED BY <2>4
<1>10. /\ proc[p].output = <<>> /\ proc[p].input = <<>>
       /\ computePipe[p] = <<>> /\ serverPipe[p] = <<>>
  BY <1>s, <1>6, <1>7, <1>9, EmptyFacts, ZenonT(60)
<1>11. proc[p].pc = "read" /\ proc[p].command = NONE
  <2>1. proc[p].pc # "write" /\ proc[p].command = NONE
    BY <1>5, <1>8, <1>10 DEF AnswersInOrder, RequestsInOrder
  <2> QED BY <1>4, <1>8, <2>1, FieldFacts DEF Gone, PoolInv
<1>12. proc[p] \in ProcessStates
  BY DEF PoolInv, ReplayTypeOK
<1>13. proc[p] = Waiting
  BY <1>10, <1>11, <1>12 DEF ProcessStates, Waiting
<1> QED BY <1>7, <1>10, <1>13

\* Unlock gives the process back as it was found.
LEMMA UnlockPreserves ==
  ASSUME PoolInv, NEW t \in Threads, Unlock(t)
  PROVE  PoolInv'
<1>0. PICK p \in Processes : p = th[t].replayPid
  BY FieldFacts DEF PoolInv
<1> DEFINE r == Locals("idle", th[t].no, <<>>)
<1>1. /\ server /\ Owns(t) /\ th[t].pc = "unlock" /\ mutex[p] = t
      /\ \A q \in Processes : mutex[q] = t => q = p
      /\ mutex' = [mutex EXCEPT ![p] = NONE]
      /\ th' = [th EXCEPT ![t] = r]
      /\ UNCHANGED <<server, serverPipe, computePipe, proc, ran>>
  BY <1>0, OwnerFacts DEF Unlock, Owns
<1>2. r \in ThreadStates
  <2>1. th[t].no \in Nat /\ 0 \in Processes /\ 0 \in 0 .. REPLAY_PROCESS_NUM
    BY FieldFacts, PoolAssumption DEF PoolInv, Processes
  <2> QED BY <2>1, EmptyFacts DEF Locals, ThreadStates, MSG_LEN
<1>3. r.pc = "idle" /\ r.call = <<>> /\ r.recv = <<>>
  BY DEF Locals
<1> HIDE DEF r
<1>4. ReplayTypeOK'
  BY <1>1, <1>2 DEF PoolInv, ReplayTypeOK
<1>5. /\ th'[t] = r /\ \A u \in Threads \ {t} : th'[u] = th[u]
      /\ mutex'[p] = NONE /\ \A q \in Processes \ {p} : mutex'[q] = mutex[q]
  BY <1>1 DEF PoolInv, ReplayTypeOK
<1>6. ASSUME NEW u \in Threads PROVE ThreadInv(u)'
  <2>1. CASE u = t
    BY <1>3, <1>5, <2>1, PortionEmpty DEF ThreadInv, Owns
  <2>2. CASE u # t
    <3>1. Owns(u) => th[u].replayPid # p /\ th[u].replayPid \in Processes
      BY <1>1, <2>2, OwnerFacts
    <3> QED BY <1>1, <1>5, <2>2, <3>1, ThreadFrame DEF PoolInv
  <2> QED BY <2>1, <2>2
<1>7. ASSUME NEW q \in Processes PROVE FreeInv(q)'
  <2>1. CASE q = p
    BY <1>0, <1>1, <2>1, AnsweredFacts DEF FreeInv, Waiting
  <2>2. CASE q # p
    BY <1>1, <1>5, <2>2, FreeFrame DEF PoolInv
  <2> QED BY <2>1, <2>2
<1>8. ASSUME NEW q \in Processes, NEW u \in Threads PROVE ServingInv(q, u)'
  <2>1. CASE q = p
    BY <1>5, <2>1, PoolAssumption DEF ServingInv
  <2>2. CASE q # p /\ u = t
    BY <1>1, <1>5, <2>2 DEF ServingInv
  <2>3. CASE q # p /\ u # t
    BY <1>1, <1>5, <2>3, ServingFrame DEF PoolInv
  <2> QED BY <2>1, <2>2, <2>3
<1> QED BY <1>1, <1>4, <1>6, <1>7, <1>8 DEF PoolInv

-----------------------------------------------------------------------------
(* The steps of a process *)

\* A process with something to do works for a thread that owns it.
LEMMA ServedFacts ==
  ASSUME PoolInv, NEW p \in Processes, proc[p].pc \in {"read", "execute", "write"},
         \/ proc[p].pc # "read"
         \/ proc[p].input # <<>>
         \/ serverPipe[p] # <<>>
  PROVE  \E t \in Threads :
           /\ mutex[p] = t /\ Owns(t) /\ th[t].replayPid = p
           /\ ThreadInv(t) /\ th[t].call \in Calls
           /\ RequestsInOrder(p, t) /\ AnswersInOrder(p, t)
<1>1. mutex[p] # NONE
  BY DEF PoolInv, FreeInv, Waiting
<1>2. PICK t \in Threads : mutex[p] = t
  BY <1>1, FieldFacts DEF PoolInv
<1>3. ServingInv(p, t) /\ ThreadInv(t) /\ ~ Gone(p)
  BY DEF PoolInv, Gone
<1>4. Owns(t) /\ RequestsInOrder(p, t) /\ AnswersInOrder(p, t) /\ th[t].replayPid = p
  BY <1>2, <1>3 DEF ServingInv
<1>5. th[t].call \in Calls
  BY <1>4, OwnerFacts
<1> QED BY <1>2, <1>3, <1>4, <1>5

\* ThreadInv of the owner does not see what its process does.
LEMMA OwnerFrame ==
  ASSUME NEW t \in Threads, Owns(t), ThreadInv(t), th' = th, mutex' = mutex
  PROVE  ThreadInv(t)' /\ Owns(t)'
BY ZenonT(60) DEF ThreadInv, Owns, Expected, Portion, Answers

\* The streams of a call stay as they are while the thread does not move.
LEMMA StreamFrame ==
  ASSUME NEW t \in Threads, th' = th
  PROVE  /\ Requests(t)' = Requests(t) /\ Answers(t)' = Answers(t)
         /\ Expected(t)' = Expected(t) /\ \A n : Unit(t, n)' = Unit(t, n)
BY DEF Requests, Answers, Expected, Unit

\* BufferedRead moves what is in the pipe to stdin_buf.
LEMMA BufferedReadPreserves ==
  ASSUME PoolInv, NEW p \in Processes, BufferedRead(p)
  PROVE  PoolInv'
<1>1. proc[p].pc = "read" /\ serverPipe[p] # <<>>
  BY DEF BufferedRead
<1>2. PICK t \in Threads :
        /\ mutex[p] = t /\ Owns(t) /\ th[t].replayPid = p
        /\ ThreadInv(t) /\ th[t].call \in Calls
        /\ RequestsInOrder(p, t) /\ AnswersInOrder(p, t)
  BY <1>1, ServedFacts
<1>3. PICK input \in Seq(RequestUnits), piped \in Seq(RequestUnits) :
        input = proc[p].input /\ piped = serverPipe[p]
  BY FieldFacts DEF PoolInv
<1>4. /\ proc' = [proc EXCEPT ![p].input = input \o piped]
      /\ serverPipe' = [serverPipe EXCEPT ![p] = <<>>]
      /\ server' = server /\ th' = th /\ mutex' = mutex
      /\ computePipe' = computePipe /\ ran' = ran
  BY <1>3 DEF BufferedRead
<1>5. input \o piped \in Seq(RequestUnits) /\ Len(input \o piped) = Len(input) + Len(piped)
  BY ConcatLen
<1>6. ReplayTypeOK'
  <2>1. [proc[p] EXCEPT !.input = input \o piped] \in ProcessStates
    BY ZenonT(60), <1>5 DEF PoolInv, ReplayTypeOK, ProcessStates
  <2> QED BY <1>4, <2>1, EmptyFacts DEF PoolInv, ReplayTypeOK
<1>7. /\ proc'[p].pc = "read" /\ proc'[p].input = input \o piped
      /\ proc'[p].command = proc[p].command /\ proc'[p].output = proc[p].output
      /\ \A q \in Processes \ {p} : proc'[q] = proc[q] /\ serverPipe'[q] = serverPipe[q]
      /\ serverPipe'[p] = <<>>
  BY <1>1, <1>4 DEF PoolInv, ReplayTypeOK, ProcessStates
<1>8. RequestsInOrder(p, t)'
  <2>1. Taken(p, t)' = Taken(p, t) /\ Taken(p, t) \in Nat
    BY <1>1, <1>4, <1>7, FieldFacts DEF Taken, PoolInv
  <2>2. PICK taken \in Nat : taken = MSG_LEN * Taken(p, t)
    BY <2>1 DEF MSG_LEN
  <2>3. /\ taken + Len(input) + Len(piped) = th[t].sendLen
        /\ Portion(input, Requests(t), taken)
        /\ Portion(piped, Requests(t), taken + Len(input))
    BY <1>2, <1>3, <2>2 DEF RequestsInOrder
  <2>4. Portion(input \o piped, Requests(t), taken)
    BY <2>3, PortionConcat
  <2>5. taken + Len(input \o piped) + Len(<<>>) = th[t].sendLen
    <3>1. PICK i \in Nat, s \in Nat : i = Len(input) /\ s = Len(piped)
      BY EmptyFacts
    <3> QED BY <1>5, <2>3, <3>1, EmptyFacts
  <2> QED BY <1>1, <1>2, <1>4, <1>7, <2>1, <2>2, <2>4, <2>5, StreamFrame, PortionEmpty
          DEF RequestsInOrder
<1>9. AnswersInOrder(p, t)'
  BY ZenonT(60), <1>1, <1>2, <1>4, <1>7, StreamFrame DEF AnswersInOrder
<1>10. ThreadInv(t)' /\ Owns(t)'
  BY <1>2, <1>4, OwnerFrame
<1>11. ServingInv(p, t)'
  BY <1>2, <1>4, <1>7, <1>8, <1>9, <1>10 DEF ServingInv
<1>12. Touches(t, p) /\ proc'[p].pc # "exited"
  BY <1>4, <1>7 DEF Touches
<1> QED BY ZenonT(60), <1>2, <1>6, <1>10, <1>11, <1>12, OwnerStep

\* ReadRedoCommand takes the first message out of stdin_buf.
LEMMA ReadRedoCommandPreserves ==
  ASSUME PoolInv, NEW p \in Processes, ReadRedoCommand(p)
  PROVE  PoolInv'
<1>1. proc[p].pc = "read" /\ proc[p].input # <<>>
  BY EmptyFacts DEF ReadRedoCommand, MSG_LEN
<1>2. PICK t \in Threads :
        /\ mutex[p] = t /\ Owns(t) /\ th[t].replayPid = p
        /\ ThreadInv(t) /\ th[t].call \in Calls
        /\ RequestsInOrder(p, t) /\ AnswersInOrder(p, t)
  BY <1>1, ServedFacts
<1>3. PICK input \in Seq(RequestUnits), i \in Nat :
        input = proc[p].input /\ i = Len(input) /\ i >= MSG_LEN
  BY FieldFacts, EmptyFacts DEF PoolInv, ReadRedoCommand
<1>4. PICK rest \in Seq(RequestUnits) :
        rest = SubSeq(input, MSG_LEN + 1, Len(input)) /\ Len(rest) = i - MSG_LEN
  <2>1. MSG_LEN \in 0 .. Len(input)
    BY <1>3 DEF MSG_LEN
  <2> QED BY <1>3, <2>1, SplitLen, ZenonT(60)
<1>h. PICK head \in RequestUnits : head = Head(input) /\ head = input[1]
  BY <1>1, <1>3
<1>5. /\ proc' = [proc EXCEPT ![p].pc = "execute", ![p].command = head,
                              ![p].input = rest]
      /\ server' = server /\ th' = th /\ mutex' = mutex
      /\ serverPipe' = serverPipe /\ computePipe' = computePipe /\ ran' = ran
  BY <1>3, <1>4, <1>h DEF ReadRedoCommand
<1>7. ReplayTypeOK'
  <2>1. [proc[p] EXCEPT !.pc = "execute", !.command = head, !.input = rest]
          \in ProcessStates
    BY ZenonT(60) DEF PoolInv, ReplayTypeOK, ProcessStates
  <2> QED BY <1>5, <2>1 DEF PoolInv, ReplayTypeOK
<1>8. /\ proc'[p].pc = "execute" /\ proc'[p].input = rest
      /\ proc'[p].command = head /\ proc'[p].output = proc[p].output
      /\ \A q \in Processes \ {p} : proc'[q] = proc[q]
  BY <1>5 DEF PoolInv, ReplayTypeOK, ProcessStates
<1>9. RequestsInOrder(p, t)'
  <2>1. PICK n \in Nat, len \in Nat, s \in Nat, sent \in Nat :
          /\ n = ran[t] /\ len = Len(th[t].call) /\ s = Len(serverPipe[p])
          /\ sent = th[t].sendLen /\ sent <= len + len
    <3>1. Len(th[t].call) \in Nat /\ MSG_LEN * Len(th[t].call) = Len(th[t].call) + Len(th[t].call)
      BY <1>2, CallFacts
    <3>2. th[t].sendLen \in Nat /\ th[t].sendLen <= Len(th[t].call) + Len(th[t].call)
      <4>1. PICK sent \in Nat : sent = th[t].sendLen
        BY FieldFacts DEF PoolInv
      <4>2. PICK need \in Nat : /\ need = MSG_LEN * Len(th[t].call)
                                /\ need = Len(th[t].call) + Len(th[t].call)
        BY <3>1
      <4>3. sent < need \/ sent = need
        BY <1>2, <4>1, <4>2 DEF ThreadInv, Owns
      <4>4. sent <= need
        BY <4>3
      <4> QED BY <4>1, <4>2, <4>4
    <3>3. Len(serverPipe[p]) \in Nat /\ ran[t] \in Nat
      BY FieldFacts, EmptyFacts DEF PoolInv
    <3> QED BY ZenonT(60), <3>1, <3>2, <3>3
  <2>2. Taken(p, t) = n /\ Taken(p, t)' = n + 1
    BY <1>1, <1>5, <1>8, <2>1 DEF Taken
  <2>3. /\ MSG_LEN * n + i + s = sent
        /\ Portion(input, Requests(t), MSG_LEN * n)
        /\ Portion(serverPipe[p], Requests(t), MSG_LEN * n + i)
    BY <1>2, <1>3, <2>1, <2>2 DEF RequestsInOrder
  <2>4. /\ n + 1 <= len
        /\ MSG_LEN * (n + 1) = MSG_LEN * n + MSG_LEN
        /\ MSG_LEN * (n + 1) + (i - MSG_LEN) + s = sent
        /\ MSG_LEN * (n + 1) + (i - MSG_LEN) = MSG_LEN * n + i
    <3>1. i >= MSG_LEN /\ sent <= len + len /\ MSG_LEN * n + i + s = sent
      BY <1>3, <2>1, <2>3
    <3> QED BY <3>1 DEF MSG_LEN
  <2>5. Portion(rest, Requests(t), MSG_LEN * (n + 1))
    <3>1. MSG_LEN \in 0 .. Len(input) /\ MSG_LEN * n \in Nat
      BY <1>3 DEF MSG_LEN
    <3> QED BY <1>4, <2>3, <2>4, <3>1, PortionSplit
  <2>6. head = Unit(t, MSG_LEN * n + 1)
    <3>1. 1 \in 1 .. Len(input) /\ MSG_LEN * n + 1 \in Nat
      BY <1>3 DEF MSG_LEN
    <3>2. input[1] = Requests(t)[MSG_LEN * n + 1]
      BY <2>3, <3>1 DEF Portion
    <3> QED BY <1>h, <3>1, <3>2 DEF Requests
  <2> QED BY ZenonT(60), <1>4, <1>5, <1>8, <2>1, <2>2, <2>3, <2>4, <2>5, <2>6, StreamFrame
          DEF RequestsInOrder
<1>10. AnswersInOrder(p, t)'
  BY ZenonT(60), <1>1, <1>2, <1>5, <1>8, StreamFrame DEF AnswersInOrder
<1>11. ThreadInv(t)' /\ Owns(t)'
  BY <1>2, <1>5, OwnerFrame
<1>12. ServingInv(p, t)'
  BY <1>2, <1>5, <1>8, <1>9, <1>10, <1>11 DEF ServingInv
<1>13. Touches(t, p) /\ proc'[p].pc # "exited"
  BY ZenonT(60), <1>5, <1>8 DEF Touches
<1> QED BY <1>2, <1>7, <1>11, <1>12, <1>13, OwnerStep

\* WriteAnswer moves the next units of the answer to the pipe.
LEMMA WriteAnswerPreserves ==
  ASSUME PoolInv, NEW p \in Processes, NEW n \in Nat, WriteAnswer(p, n)
  PROVE  PoolInv'
<1>1. proc[p].pc = "write"
  BY DEF WriteAnswer
<1>2. PICK t \in Threads :
        /\ mutex[p] = t /\ Owns(t) /\ th[t].replayPid = p
        /\ ThreadInv(t) /\ th[t].call \in Calls
        /\ RequestsInOrder(p, t) /\ AnswersInOrder(p, t)
  BY <1>1, ServedFacts
<1>3. PICK output \in Seq(AnswerUnits), piped \in Seq(AnswerUnits), u \in {Answers(t)} :
        output = proc[p].output /\ piped = computePipe[p] /\ u = Answers(t)
  BY FieldFacts DEF PoolInv
<1>4. PICK o \in Nat, c \in Nat, r \in Nat :
        /\ o = Len(output) /\ c = Len(piped) /\ r = Len(th[t].recv) /\ 1 <= n /\ n <= o
  <2>1. Len(output) \in Nat /\ Len(piped) \in Nat /\ Len(th[t].recv) \in Nat
    BY FieldFacts, EmptyFacts DEF PoolInv
  <2>2. n \in 1 .. Len(output)
    BY <1>3 DEF WriteAnswer
  <2>3. 1 <= n /\ n <= Len(output)
    BY <2>1, <2>2
  <2> QED BY <2>1, <2>3
<1>5. PICK first \in Seq(AnswerUnits), rest \in Seq(AnswerUnits) :
        /\ first = SubSeq(output, 1, n) /\ Len(first) = n
        /\ rest = SubSeq(output, n + 1, Len(output)) /\ Len(rest) = o - n
  <2>1. n \in 0 .. Len(output)
    BY <1>4
  <2>2. /\ SubSeq(output, 1, n) \in Seq(AnswerUnits)
        /\ Len(SubSeq(output, 1, n)) = n
        /\ SubSeq(output, n + 1, Len(output)) \in Seq(AnswerUnits)
        /\ Len(SubSeq(output, n + 1, Len(output))) = Len(output) - n
    BY <2>1, SplitLen, ZenonT(60)
  <2> QED BY <1>4, <2>2, ZenonT(60)
<1>6. /\ computePipe' = [computePipe EXCEPT ![p] = piped \o first]
      /\ proc' = [proc EXCEPT ![p].output = rest,
                              ![p].pc = IF n < o THEN "write" ELSE "read"]
      /\ server' = server /\ th' = th /\ mutex' = mutex
      /\ serverPipe' = serverPipe /\ ran' = ran
  BY <1>3, <1>4, <1>5 DEF WriteAnswer
<1>7. piped \o first \in Seq(AnswerUnits) /\ Len(piped \o first) = c + n
  BY <1>4, <1>5, ConcatLen
<1>8. ReplayTypeOK'
  <2>1. [proc[p] EXCEPT !.output = rest, !.pc = IF n < o THEN "write" ELSE "read"]
          \in ProcessStates
    BY ZenonT(60) DEF PoolInv, ReplayTypeOK, ProcessStates
  <2> QED BY <1>6, <1>7, <2>1 DEF PoolInv, ReplayTypeOK
<1>9. /\ proc'[p].output = rest /\ proc'[p].pc = IF n < o THEN "write" ELSE "read"
      /\ proc'[p].input = proc[p].input /\ proc'[p].command = proc[p].command
      /\ computePipe'[p] = piped \o first
      /\ \A q \in Processes \ {p} : proc'[q] = proc[q] /\ computePipe'[q] = computePipe[q]
  BY <1>6 DEF PoolInv, ReplayTypeOK, ProcessStates
<1>10. AnswersInOrder(p, t)'
  <2>1. /\ Portion(piped, u, r) /\ Portion(output, u, r + c)
        /\ r + c + o = IF ran[t] = Len(th[t].call) THEN Expected(t) ELSE 0
    BY ZenonT(60), <1>2, <1>3, <1>4 DEF AnswersInOrder
  <2>2. Portion(first, u, r + c) /\ Portion(rest, u, r + c + n)
    <3>1. n \in 0 .. Len(output) /\ r + c \in Nat
      BY <1>4
    <3> QED BY <1>5, <2>1, <3>1, PortionSplit
  <2>3. Portion(piped \o first, u, r)
    BY <1>4, <2>1, <2>2, PortionConcat
  <2>4. rest # <<>> <=> n < o
    <3>1. Len(rest) = o - n /\ (Len(rest) = 0 <=> rest = <<>>) /\ n <= o
      BY ZenonT(60), <1>4, <1>5, EmptyFacts
    <3>2. o - n = 0 <=> ~ (n < o)
      BY <3>1
    <3> QED BY <3>1, <3>2
  <2>5. r + (c + n) = r + c + n /\ r + (c + n) + (o - n) = r + c + o
    OBVIOUS
  <2>6. /\ Answers(t)' = u /\ Expected(t)' = Expected(t)
        /\ Len(th'[t].recv) = r /\ Len(computePipe'[p]) = c + n
        /\ Len(proc'[p].output) = o - n
        /\ proc'[p].pc = "write" <=> proc'[p].output # <<>>
    <3>1. Answers(t)' = u /\ Expected(t)' = Expected(t) /\ Len(th'[t].recv) = r
      BY <1>3, <1>4, <1>6, StreamFrame
    <3>2. Len(computePipe'[p]) = c + n /\ Len(proc'[p].output) = o - n
      BY <1>5, <1>7, <1>9
    <3>3. proc'[p].pc = "write" <=> proc'[p].output # <<>>
      BY <1>9, <2>4
    <3> QED BY <3>1, <3>2, <3>3
  <2> QED BY ZenonT(60), <1>6, <1>9, <2>1, <2>2, <2>3, <2>5, <2>6 DEF AnswersInOrder
<1>11. RequestsInOrder(p, t)'
  <2>1. Taken(p, t)' = Taken(p, t)
    BY <1>1, <1>6, <1>9 DEF Taken
  <2> QED BY <1>1, <1>2, <1>6, <1>9, <2>1, StreamFrame DEF RequestsInOrder
<1>12. ThreadInv(t)' /\ Owns(t)'
  BY <1>2, <1>6, OwnerFrame
<1>13. ServingInv(p, t)'
  BY <1>2, <1>6, <1>9, <1>10, <1>11, <1>12 DEF ServingInv
<1>14. Touches(t, p) /\ proc'[p].pc # "exited"
  <2>1. proc'[p].pc \in {"write", "read"}
    BY <1>9
  <2> QED BY ZenonT(60), <1>6, <1>9, <2>1 DEF Touches
<1> QED BY <1>2, <1>8, <1>12, <1>13, <1>14, OwnerStep

\* The command at work is the next of the owner's call, and nothing has been
\* answered yet.
LEMMA CommandFacts ==
  ASSUME PoolInv, NEW p \in Processes, proc[p].pc = "execute",
         NEW t \in Threads, Owns(t), th[t].call \in Calls,
         RequestsInOrder(p, t), AnswersInOrder(p, t)
  PROVE  /\ ran[t] \in Nat /\ ran[t] + 1 <= Len(th[t].call)
         /\ proc[p].command.by = t /\ proc[p].command.no = th[t].no
         /\ proc[p].command.command = th[t].call[ran[t] + 1]
         /\ th[t].recv = <<>> /\ computePipe[p] = <<>> /\ proc[p].output = <<>>
<1>1. PICK n \in Nat, len \in Nat : n = ran[t] /\ len = Len(th[t].call)
  BY FieldFacts, CallFacts DEF PoolInv
<1>2. n + 1 <= len
  BY <1>1 DEF RequestsInOrder, Taken
<1>3. proc[p].command = Unit(t, MSG_LEN * n + 1)
  BY <1>1 DEF RequestsInOrder
<1>4. PICK m \in Nat : m = MSG_LEN * n + 1 /\ (m - 1) \div MSG_LEN + 1 = n + 1
  BY DEF MSG_LEN
<1>5. /\ proc[p].command.by = t /\ proc[p].command.no = th[t].no
      /\ proc[p].command.command = th[t].call[n + 1]
  <2>1. proc[p].command = Unit(t, m)
    BY <1>3, <1>4
  <2>2. Unit(t, m) = [command |-> th[t].call[n + 1], by |-> t, no |-> th[t].no, pos |-> m]
    BY <1>4 DEF Unit
  <2> QED BY <2>1, <2>2
<1>6. /\ th[t].recv \in Seq(AnswerUnits) /\ computePipe[p] \in Seq(AnswerUnits)
      /\ proc[p].output \in Seq(AnswerUnits)
  BY FieldFacts DEF PoolInv
<1>7. PICK r \in Nat, c \in Nat, o \in Nat :
        r = Len(th[t].recv) /\ c = Len(computePipe[p]) /\ o = Len(proc[p].output)
  BY <1>6, EmptyFacts, ZenonT(60)
<1>8. n # len
  BY <1>2
<1>9. r + c + o = 0
  BY ZenonT(60), <1>1, <1>7, <1>8 DEF AnswersInOrder
<1>10. r = 0 /\ c = 0 /\ o = 0
  BY <1>9
<1>11. th[t].recv = <<>> /\ computePipe[p] = <<>> /\ proc[p].output = <<>>
  BY <1>6, <1>7, <1>10, EmptyFacts, ZenonT(60)
<1> QED BY <1>1, <1>2, <1>5, <1>11

\* The units of an answer, in order.
LEMMA AnswerFacts ==
  ASSUME NEW t \in Threads, NEW no \in Nat, NEW e \in Nat, e <= BLCKSZ
  PROVE  \E output \in Seq(AnswerUnits) :
           /\ output = [k \in 1 .. e |-> [by |-> t, no |-> no, pos |-> k]]
           /\ Len(output) = e
           /\ \A k \in 1 .. e : output[k] = [by |-> t, no |-> no, pos |-> k]
<1> DEFINE a == [k \in 1 .. e |-> [by |-> t, no |-> no, pos |-> k]]
<1>1. ASSUME NEW k \in 1 .. e PROVE [by |-> t, no |-> no, pos |-> k] \in AnswerUnits
  <2>1. k \in 1 .. BLCKSZ
    BY PoolAssumption
  <2> QED BY <2>1 DEF AnswerUnits
<1>2. a \in Seq(AnswerUnits) /\ Len(a) = e
  BY <1>1
<1>3. \A k \in 1 .. e : a[k] = [by |-> t, no |-> no, pos |-> k]
  OBVIOUS
<1> HIDE DEF a
<1>4. a = [k \in 1 .. e |-> [by |-> t, no |-> no, pos |-> k]]
  BY DEF a
<1> QED BY <1>2, <1>3, <1>4

\* Execute answers the last command of a call, and only that.
LEMMA ExecutePreserves ==
  ASSUME PoolInv, NEW p \in Processes, Execute(p)
  PROVE  PoolInv'
<1>1. proc[p].pc = "execute"
  BY DEF Execute
<1>2. PICK t \in Threads :
        /\ mutex[p] = t /\ Owns(t) /\ th[t].replayPid = p
        /\ ThreadInv(t) /\ th[t].call \in Calls
        /\ RequestsInOrder(p, t) /\ AnswersInOrder(p, t)
  BY <1>1, ServedFacts
<1>3. PICK n \in Nat, len \in Nat, e \in Nat, u \in {Answers(t)} :
        /\ n = ran[t] /\ len = Len(th[t].call) /\ e = Expected(t) /\ u = Answers(t)
        /\ n + 1 <= len /\ len <= 2 /\ 1 <= e /\ e <= BLCKSZ
  BY <1>1, <1>2, CommandFacts, CallFacts, ExpectedFacts
<1>4. /\ proc[p].command.by = t /\ proc[p].command.no = th[t].no
      /\ proc[p].command.command = th[t].call[n + 1]
      /\ th[t].recv = <<>> /\ computePipe[p] = <<>>
  BY ZenonT(60), <1>1, <1>2, <1>3, CommandFacts
<1>5. PICK output \in Seq(AnswerUnits) :
        /\ output = Answer(proc[p].command)
        /\ Len(output) = IF n + 1 = len THEN e ELSE 0
        /\ Portion(output, u, 0)
  <2>1. Answer(proc[p].command) = [k \in 1 .. AnswerLen(th[t].call[n + 1]) |->
                                     [by |-> t, no |-> th[t].no, pos |-> k]]
    BY <1>4 DEF Answer
  <2>2. CASE n + 1 = len
    <3>1. AnswerLen(th[t].call[n + 1]) = e
      BY <1>3, <2>2 DEF Expected
    <3>2. PICK no \in Nat : no = th[t].no
      BY FieldFacts DEF PoolInv
    <3>3. Answer(proc[p].command) = [k \in 1 .. e |-> [by |-> t, no |-> no, pos |-> k]]
      BY <2>1, <3>1, <3>2
    <3>4. e <= BLCKSZ
      BY <1>3
    <3>5. PICK output \in Seq(AnswerUnits) :
            /\ output = [k \in 1 .. e |-> [by |-> t, no |-> no, pos |-> k]]
            /\ Len(output) = e
            /\ \A k \in 1 .. e : output[k] = [by |-> t, no |-> no, pos |-> k]
      BY ZenonT(60), <3>4, AnswerFacts
    <3>6. Portion(output, u, 0)
      BY <1>3, <3>2, <3>5 DEF Portion, Answers
    <3>7. output = Answer(proc[p].command)
      BY <3>3, <3>5
    <3> QED BY <2>2, <3>5, <3>6, <3>7
  <2>3. CASE n + 1 # len
    <3>0. n + 1 <= len /\ len <= 2
      BY <1>3
    <3>1. len = 2 /\ n + 1 = 1
      BY <2>3, <3>0
    <3>2. AnswerLen(th[t].call[n + 1]) = 0
      BY ZenonT(60), <1>2, <1>3, <3>1, CallFacts
    <3>3. Answer(proc[p].command) = <<>>
      BY <2>1, <3>2
    <3> QED BY ZenonT(60), <2>3, <3>3, EmptyFacts, PortionEmpty
  <2> QED BY <2>2, <2>3
<1>6. /\ proc' = [proc EXCEPT ![p].pc = IF output = <<>> THEN "read" ELSE "write",
                              ![p].command = NONE, ![p].output = output]
      /\ ran' = [ran EXCEPT ![t] = n + 1]
      /\ server' = server /\ th' = th /\ mutex' = mutex
      /\ serverPipe' = serverPipe /\ computePipe' = computePipe
  BY <1>3, <1>4, <1>5 DEF Execute
<1>7. ReplayTypeOK'
  <2>1. [proc[p] EXCEPT !.pc = IF output = <<>> THEN "read" ELSE "write",
                        !.command = NONE, !.output = output] \in ProcessStates
    BY ZenonT(60) DEF PoolInv, ReplayTypeOK, ProcessStates
  <2> QED BY <1>6, <2>1 DEF PoolInv, ReplayTypeOK
<1>8. /\ proc'[p].pc = IF output = <<>> THEN "read" ELSE "write"
      /\ proc'[p].command = NONE /\ proc'[p].output = output
      /\ proc'[p].input = proc[p].input
      /\ \A q \in Processes \ {p} : proc'[q] = proc[q]
      /\ ran'[t] = n + 1
      /\ \A v \in Threads \ {t} : ran'[v] = ran[v]
  BY <1>6 DEF PoolInv, ReplayTypeOK, ProcessStates
<1>9. proc'[p].pc # "execute" /\ proc'[p].pc # "exited" /\ proc'[p].pc # "crashed"
      /\ (proc'[p].pc = "write" <=> output # <<>>)
  BY <1>8
<1>10. RequestsInOrder(p, t)'
  <2>1. Taken(p, t) = n + 1 /\ Taken(p, t)' = n + 1
    BY <1>1, <1>3, <1>8, <1>9 DEF Taken
  <2> QED BY <1>2, <1>6, <1>8, <1>9, <2>1, StreamFrame DEF RequestsInOrder
<1>11. AnswersInOrder(p, t)'
  <2>1. /\ Len(th'[t].recv) = 0 /\ Len(computePipe'[p]) = 0
        /\ Portion(computePipe'[p], Answers(t)', 0)
    BY <1>4, <1>6, EmptyFacts, PortionEmpty
  <2>2. 0 + 0 + Len(output) = Len(output) /\ 0 + 0 = 0
    BY EmptyFacts
  <2>3. Expected(t)' = e /\ Answers(t)' = u /\ Len(th'[t].call) = len
    BY <1>3, <1>6, StreamFrame
  <2> QED BY ZenonT(60), <1>5, <1>8, <1>9, <2>1, <2>2, <2>3 DEF AnswersInOrder
<1>12. ThreadInv(t)' /\ Owns(t)'
  BY <1>2, <1>6, OwnerFrame
<1>13. ServingInv(p, t)'
  BY <1>2, <1>6, <1>9, <1>10, <1>11, <1>12 DEF ServingInv
<1>14. Touches(t, p)
  BY ZenonT(60), <1>6, <1>8 DEF Touches
<1> QED BY <1>2, <1>7, <1>9, <1>12, <1>13, <1>14, OwnerStep

\* A process that dies has answered nothing of the call it worked on.
LEMMA CrashPreserves ==
  ASSUME PoolInv, NEW p \in Processes, Crash(p)
  PROVE  PoolInv'
<1>1. proc[p].pc = "execute"
  BY DEF Crash
<1>2. PICK t \in Threads :
        /\ mutex[p] = t /\ Owns(t) /\ th[t].replayPid = p
        /\ ThreadInv(t) /\ th[t].call \in Calls
        /\ RequestsInOrder(p, t) /\ AnswersInOrder(p, t)
  BY <1>1, ServedFacts
<1>3. th[t].recv = <<>> /\ computePipe[p] = <<>>
  BY <1>1, <1>2, CommandFacts
<1> DEFINE r == [Waiting EXCEPT !.pc = "crashed"]
<1>4. /\ proc' = [proc EXCEPT ![p] = r]
      /\ server' = server /\ th' = th /\ mutex' = mutex
      /\ serverPipe' = serverPipe /\ computePipe' = computePipe /\ ran' = ran
  BY DEF Crash
<1>5. r \in ProcessStates /\ r.pc = "crashed"
  BY ZenonT(60), EmptyFacts DEF ProcessStates, Waiting
<1> HIDE DEF r
<1>6. ReplayTypeOK'
  BY <1>4, <1>5 DEF PoolInv, ReplayTypeOK
<1>7. proc'[p] = r /\ \A q \in Processes \ {p} : proc'[q] = proc[q]
  BY <1>4 DEF PoolInv, ReplayTypeOK
<1>8. ThreadInv(t)' /\ Owns(t)'
  BY <1>2, <1>4, OwnerFrame
<1>9. ServingInv(p, t)'
  BY ZenonT(60), <1>2, <1>3, <1>4, <1>5, <1>7, <1>8 DEF ServingInv, Gone
<1>10. Touches(t, p) /\ proc'[p].pc # "exited"
  BY <1>4, <1>5, <1>7 DEF Touches
<1> QED BY ZenonT(60), <1>2, <1>6, <1>8, <1>9, <1>10, OwnerStep

\* A process sees the end of its pipe only when the server is gone.
LEMMA EndOfFilePreserves ==
  ASSUME PoolInv, NEW p \in Processes, EndOfFile(p)
  PROVE  PoolInv'
<1> DEFINE r == [Waiting EXCEPT !.pc = "exited"]
<1>1. /\ proc[p].pc = "read" /\ ~ server
      /\ proc' = [proc EXCEPT ![p] = r]
      /\ server' = server /\ th' = th /\ mutex' = mutex
      /\ serverPipe' = serverPipe /\ computePipe' = computePipe /\ ran' = ran
  BY DEF EndOfFile, HasWriter
<1>2. r \in ProcessStates /\ r.pc = "exited"
  BY ZenonT(60), EmptyFacts DEF ProcessStates, Waiting
<1>3. ReplayTypeOK'
  <2> HIDE DEF r
  <2> QED BY <1>1, <1>2 DEF PoolInv, ReplayTypeOK
<1>4. proc'[p] = r /\ \A q \in Processes \ {p} : proc'[q] = proc[q]
  BY <1>1 DEF PoolInv, ReplayTypeOK
<1>5. ASSUME NEW u \in Threads PROVE ThreadInv(u)'
  BY <1>1, ThreadFrame DEF PoolInv
<1>6. ASSUME NEW q \in Processes PROVE FreeInv(q)'
  <2>1. CASE q = p
    BY <1>1, <1>4, <2>1 DEF PoolInv, FreeInv, Waiting
  <2>2. CASE q # p
    BY <1>1, <1>4, <2>2, FreeFrame DEF PoolInv
  <2> QED BY <2>1, <2>2
<1>7. ASSUME NEW q \in Processes, NEW u \in Threads PROVE ServingInv(q, u)'
  <2>1. CASE q = p
    BY ZenonT(60), <1>1, <1>2, <1>4, <2>1 DEF PoolInv, ServingInv, Owns, Gone
  <2>2. CASE q # p
    BY <1>1, <1>4, <2>2, ServingFrame DEF PoolInv
  <2> QED BY <2>1, <2>2
<1> QED BY <1>1, <1>3, <1>5, <1>6, <1>7 DEF PoolInv

\* The exit of the server touches neither pipes nor processes.
LEMMA ServerExitPreserves ==
  ASSUME PoolInv, ServerExit
  PROVE  PoolInv'
<1>1. /\ ~ server' /\ th' = th /\ mutex' = mutex /\ serverPipe' = serverPipe
      /\ computePipe' = computePipe /\ proc' = proc /\ ran' = ran
  BY DEF ServerExit
<1>2. ReplayTypeOK'
  BY ZenonT(60), <1>1 DEF PoolInv, ReplayTypeOK, ServerExit
<1>3. \A u \in Threads : ThreadInv(u)'
  BY ZenonT(60), <1>1, ThreadFrame DEF PoolInv
<1>4. \A q \in Processes : FreeInv(q)'
  BY <1>1, FreeFrame DEF PoolInv
<1>5. \A q \in Processes, u \in Threads : ServingInv(q, u)'
  BY <1>1, ServingFrame DEF PoolInv
<1> QED BY ZenonT(60), <1>1, <1>2, <1>3, <1>4, <1>5 DEF PoolInv

-----------------------------------------------------------------------------
(* The invariant *)

\* Initially every thread rests and every process waits.
LEMMA InitInv ==
  ASSUME Init PROVE PoolInv
<1>1. /\ Locals("idle", 0, <<>>) \in ThreadStates
      /\ Locals("idle", 0, <<>>).pc = "idle"
      /\ Locals("idle", 0, <<>>).call = <<>>
      /\ Locals("idle", 0, <<>>).recv = <<>>
  <2>1. 0 \in Processes /\ 0 \in 0 .. REPLAY_PROCESS_NUM
    BY PoolAssumption DEF Processes
  <2> QED BY <2>1, EmptyFacts DEF Locals, ThreadStates, MSG_LEN
<1>2. Waiting \in ProcessStates /\ Waiting.pc = "read"
  BY EmptyFacts DEF ProcessStates, Waiting
<1>3. ReplayTypeOK
  BY <1>1, <1>2, EmptyFacts DEF Init, ReplayTypeOK
<1>4. ASSUME NEW t \in Threads PROVE ThreadInv(t)
  <2>1. th[t] = Locals("idle", 0, <<>>)
    BY DEF Init
  <2> QED BY <1>1, <2>1, PortionEmpty DEF ThreadInv, Owns
<1>5. \A p \in Processes : FreeInv(p)
  BY DEF Init, FreeInv
<1>6. \A p \in Processes, t \in Threads : ServingInv(p, t)
  BY PoolAssumption DEF Init, ServingInv
<1>7. \A p \in Processes : proc[p].pc # "exited"
  BY <1>2 DEF Init
<1> QED BY <1>3, <1>4, <1>5, <1>6, <1>7 DEF PoolInv

\* A step that changes nothing.
LEMMA StutterPreserves ==
  ASSUME PoolInv, UNCHANGED vars
  PROVE  PoolInv'
<1>1. /\ server' = server /\ th' = th /\ mutex' = mutex /\ serverPipe' = serverPipe
      /\ computePipe' = computePipe /\ proc' = proc /\ ran' = ran
  BY DEF vars
<1>2. ReplayTypeOK'
  BY <1>1 DEF PoolInv, ReplayTypeOK
<1>3. \A u \in Threads : ThreadInv(u)'
  BY <1>1, ThreadFrame DEF PoolInv
<1>4. \A q \in Processes : FreeInv(q)'
  BY <1>1, FreeFrame DEF PoolInv
<1>5. \A q \in Processes, u \in Threads : ServingInv(q, u)'
  BY <1>1, ServingFrame DEF PoolInv
<1> QED BY <1>1, <1>2, <1>3, <1>4, <1>5 DEF PoolInv

\* PoolInv is inductive: every step of every thread and process preserves it.
THEOREM PoolInvariant == Spec => []PoolInv
<1>1. Init => PoolInv
  BY InitInv
<1>2. PoolInv /\ [Next]_vars => PoolInv'
  <2> SUFFICES ASSUME PoolInv, [Next]_vars PROVE PoolInv'
    OBVIOUS
  <2>1. ASSUME NEW t \in Threads, ThreadProceeds(t) PROVE PoolInv'
    <3>1. CASE TryLock(t)
      BY <3>1, TryLockPreserves
    <3>2. ASSUME NEW n \in 1 .. MSG_LEN, Write(t, n) PROVE PoolInv'
      <4>1. n \in Nat
        BY DEF MSG_LEN
      <4> QED BY <3>2, <4>1, WritePreserves
    <3>3. ASSUME NEW n \in 1 .. BLCKSZ, Read(t, n) PROVE PoolInv'
      <4>1. n \in Nat
        BY PoolAssumption
      <4> QED BY <3>3, <4>1, ReadPreserves
    <3>4. CASE Unlock(t)
      BY <3>4, UnlockPreserves
    <3> QED BY <2>1, <3>1, <3>2, <3>3, <3>4 DEF ThreadProceeds
  <2>2. ASSUME NEW p \in Processes, ProcessProceeds(p) PROVE PoolInv'
    <3>1. CASE BufferedRead(p)
      BY <3>1, BufferedReadPreserves
    <3>2. CASE ReadRedoCommand(p)
      BY <3>2, ReadRedoCommandPreserves
    <3>3. CASE Execute(p)
      BY <3>3, ExecutePreserves
    <3>4. ASSUME NEW n \in 1 .. BLCKSZ, WriteAnswer(p, n) PROVE PoolInv'
      <4>1. n \in Nat
        BY PoolAssumption
      <4> QED BY <3>4, <4>1, WriteAnswerPreserves
    <3>5. CASE EndOfFile(p)
      BY <3>5, EndOfFilePreserves
    <3> QED BY <2>2, <3>1, <3>2, <3>3, <3>4, <3>5 DEF ProcessProceeds
  <2>3. ASSUME NEW t \in Threads, NEW call \in Calls, Call(t, call) PROVE PoolInv'
    BY <2>3, CallPreserves
  <2>4. ASSUME NEW t \in Threads, Lock(t) PROVE PoolInv'
    BY <2>4, LockPreserves
  <2>5. ASSUME NEW p \in Processes, Crash(p) PROVE PoolInv'
    BY <2>5, CrashPreserves
  <2>6. CASE ServerExit
    BY <2>6, ServerExitPreserves
  <2>7. CASE UNCHANGED vars
    BY <2>7, StutterPreserves
  <2> QED BY <2>1, <2>2, <2>3, <2>4, <2>5, <2>6, <2>7 DEF Next
<1> QED BY <1>1, <1>2, PTL DEF Spec

\* What a call reads is its own answer, complete and in order, with any number
\* of threads and processes, pages of any size and any portions of write and
\* read.
THEOREM AnswersAreOwn == Spec => []AnswersOwn
<1>1. PoolInv => AnswersOwn
  <2> SUFFICES ASSUME PoolInv, NEW t \in Threads
               PROVE  /\ \A k \in DOMAIN th[t].recv :
                           th[t].recv[k] = [by |-> t, no |-> th[t].no, pos |-> k]
                      /\ th[t].pc = "unlock" => Len(th[t].recv) = Expected(t)
    BY DEF AnswersOwn
  <2>1. PICK recv \in Seq(AnswerUnits) : recv = th[t].recv
    BY FieldFacts DEF PoolInv
  <2>2. Portion(recv, Answers(t), 0)
    BY ZenonT(60), <2>1 DEF PoolInv, ThreadInv
  <2>3. ASSUME NEW k \in DOMAIN recv
        PROVE  recv[k] = [by |-> t, no |-> th[t].no, pos |-> k]
    <3>1. k \in 1 .. Len(recv) /\ k \in Nat /\ 0 + k = k
      OBVIOUS
    <3>2. recv[k] = Answers(t)[k]
      BY <2>2, <3>1 DEF Portion
    <3> QED BY <3>1, <3>2 DEF Answers
  <2>4. th[t].pc = "unlock" => Len(th[t].recv) = Expected(t)
    BY DEF PoolInv, ThreadInv
  <2> QED BY <2>1, <2>3, <2>4
<1> QED BY <1>1, PoolInvariant, PTL

\* A process whose mutex is free waits for a command with both pipes and
\* stdin_buf empty, as long as the server is up.
THEOREM FreeIsReady == Spec => []ReadyWhenFree
<1>1. PoolInv => ReadyWhenFree
  BY DEF PoolInv, FreeInv, ReadyWhenFree, Waiting
<1> QED BY <1>1, PoolInvariant, PTL

-----------------------------------------------------------------------------
(* The refinement *)

\* What a thread's call has still to see executed.
Todo(t) == SubSeq(th[t].call, ran[t] + 1, Len(th[t].call))

\* What is left before the first and after the last command.
LEMMA TodoEnds ==
  ASSUME NEW S, NEW a \in Seq(S), NEW n \in Nat
  PROVE  /\ SubSeq(<<>>, n + 1, Len(<<>>)) = <<>>
         /\ SubSeq(a, 0 + 1, Len(a)) = a
         /\ SubSeq(a, Len(a) + 1, Len(a)) = <<>>
OBVIOUS

\* What is left is a command shorter after the next.
LEMMA TodoTail ==
  ASSUME NEW S, NEW a \in Seq(S), NEW n \in Nat, n + 1 <= Len(a)
  PROVE  /\ SubSeq(a, n + 1, Len(a)) # <<>>
         /\ Tail(SubSeq(a, n + 1, Len(a))) = SubSeq(a, n + 1 + 1, Len(a))
<1>1. n + 1 \in 1 .. Len(a) /\ Len(a) \in n + 1 .. Len(a) /\ n \in 0 .. Len(a)
  OBVIOUS
<1>2. Tail(SubSeq(a, n + 1, Len(a))) = SubSeq(a, n + 1 + 1, Len(a))
  BY <1>1
<1>3. PICK b \in Seq(S) : b = SubSeq(a, n + 1, Len(a)) /\ Len(b) = Len(a) - n
  BY <1>1, SplitLen, ZenonT(60)
<1>4. b # <<>>
  <2>1. Len(b) >= 1
    BY <1>3
  <2> QED BY <2>1
<1> QED BY <1>2, <1>3, <1>4

\* A step that neither executes a command nor takes or releases a mutex is not
\* seen.
LEMMA Unseen ==
  ASSUME mutex' = mutex, \A t \in Threads : th'[t].call = th[t].call /\ ran'[t] = ran[t]
  PROVE  UNCHANGED Service!svars
BY ZenonT(60) DEF Service!svars

\* Taking a mutex begins the service of the call.
LEMMA AcquireBegins ==
  ASSUME PoolInv, NEW t \in Threads, NEW p \in Processes, Acquire(t, p)
  PROVE  Service!Begin(p, t)
<1>1. /\ mutex[p] = NONE /\ mutex' = [mutex EXCEPT ![p] = t] /\ ran' = ran
      /\ \A u \in Threads : th'[u].call = th[u].call
  BY ZenonT(60) DEF Acquire, PoolInv, ReplayTypeOK, ThreadStates
<1>2. /\ th[t].call \in Calls /\ ran[t] = 0 /\ \A q \in Processes : mutex[q] # t
  BY PoolAssumption DEF Acquire, PoolInv, ThreadInv, ServingInv, Owns
<1>3. Todo(t) # <<>>
  <2>1. th[t].call \in Seq(Commands) /\ th[t].call # <<>>
    BY <1>2, CallFacts
  <2> QED BY ZenonT(60), <1>2, <2>1, TodoEnds DEF Todo
<1> QED BY ZenonT(60), <1>1, <1>2, <1>3 DEF Service!Begin, Todo

\* Call submits.
LEMMA CallSubmits ==
  ASSUME PoolInv, NEW t \in Threads, NEW call \in Calls, Call(t, call)
  PROVE  Service!Submit(t, call)
<1>1. /\ th[t].pc = "idle" /\ mutex' = mutex /\ th'[t].call = call /\ ran'[t] = 0
      /\ \A u \in Threads \ {t} : th'[u].call = th[u].call /\ ran'[u] = ran[u]
  BY ZenonT(60) DEF Call, Locals, PoolInv, ReplayTypeOK
<1>2. th[t].call = <<>> /\ ran[t] \in Nat /\ \A q \in Processes : mutex[q] # t
  BY ZenonT(60), <1>1, FieldFacts DEF PoolInv, ThreadInv, ServingInv, Owns
<1>3. Todo(t) = <<>>
  BY <1>2, TodoEnds DEF Todo
<1>4. Todo(t)' = call
  <2>1. call \in Seq(Commands)
    BY CallFacts
  <2> QED BY ZenonT(60), <1>1, <2>1, TodoEnds DEF Todo
<1>5. [u \in Threads |-> Todo(u)]' = [[u \in Threads |-> Todo(u)] EXCEPT ![t] = call]
  BY ZenonT(60), <1>1, <1>4 DEF Todo
<1> QED BY <1>1, <1>2, <1>3, <1>5 DEF Service!Submit, Service!Idle, Todo

\* Execute executes the next command of the call that is served.
LEMMA ExecuteExecutes ==
  ASSUME PoolInv, NEW p \in Processes, Execute(p)
  PROVE  Service!ExecuteNext(p)
<1>1. proc[p].pc = "execute"
  BY DEF Execute
<1>2. PICK t \in Threads :
        /\ mutex[p] = t /\ Owns(t) /\ th[t].replayPid = p
        /\ ThreadInv(t) /\ th[t].call \in Calls
        /\ RequestsInOrder(p, t) /\ AnswersInOrder(p, t)
  BY <1>1, ServedFacts
<1>3. ran[t] \in Nat /\ ran[t] + 1 <= Len(th[t].call) /\ proc[p].command.by = t
  BY <1>1, <1>2, CommandFacts
<1>4. /\ th' = th /\ mutex' = mutex /\ ran'[t] = ran[t] + 1
      /\ \A u \in Threads \ {t} : ran'[u] = ran[u]
  BY <1>3 DEF Execute, PoolInv, ReplayTypeOK
<1>5. Todo(t) # <<>> /\ Todo(t)' = Tail(Todo(t))
  <2>1. th[t].call \in Seq(Commands)
    BY <1>2, CallFacts
  <2> QED BY ZenonT(60), <1>3, <1>4, <2>1, TodoTail DEF Todo
<1>6. [u \in Threads |-> Todo(u)]' = [[u \in Threads |-> Todo(u)] EXCEPT ![t] = Tail(@)]
  <2>1. \A u \in Threads \ {t} : Todo(u)' = Todo(u)
    BY ZenonT(60), <1>4 DEF Todo
  <2> QED BY ZenonT(60), <1>5, <2>1
<1> QED BY ZenonT(60), <1>2, <1>4, <1>5, <1>6, PoolAssumption DEF Service!ExecuteNext, Todo

\* Unlock returns from a call of which every command has been executed.
LEMMA UnlockReturns ==
  ASSUME PoolInv, NEW t \in Threads, Unlock(t)
  PROVE  \E p \in Processes : Service!Return(p)
<1>1. PICK p \in Processes : p = th[t].replayPid
  BY FieldFacts DEF PoolInv
<1>2. /\ server /\ th[t].pc = "unlock" /\ mutex[p] = t /\ th[t].call \in Calls
      /\ mutex' = [mutex EXCEPT ![p] = NONE] /\ th'[t].call = <<>> /\ ran' = ran
      /\ \A u \in Threads \ {t} : th'[u].call = th[u].call
  BY <1>1, OwnerFacts DEF Unlock, Owns, Locals, PoolInv, ReplayTypeOK
<1>3. ran[t] = Len(th[t].call) /\ ran[t] \in Nat
  BY ZenonT(60), <1>1, <1>2, AnsweredFacts, FieldFacts DEF PoolInv
<1>4. Todo(t) = <<>> /\ Todo(t)' = <<>>
  <2>1. th[t].call \in Seq(Commands)
    BY <1>2, CallFacts
  <2>2. Todo(t) = <<>>
    BY <1>3, <2>1, TodoEnds DEF Todo
  <2>3. Todo(t)' = <<>>
    BY <1>2, <1>3, <2>1, TodoEnds DEF Todo
  <2> QED BY <2>2, <2>3
<1>5. [u \in Threads |-> Todo(u)]' = [u \in Threads |-> Todo(u)]
  <2>1. \A u \in Threads \ {t} : Todo(u)' = Todo(u)
    BY ZenonT(60), <1>2 DEF Todo
  <2> QED BY <1>4, <2>1
<1>6. Service!Return(p)
  BY ZenonT(60), <1>2, <1>4, <1>5, PoolAssumption DEF Service!Return, Todo
<1> QED BY <1>6

\* The pool implements ReplayService: each step of a thread or a process is a
\* step of the service, or one the service does not see.
THEOREM Refinement == Spec => ImplementsService
<1>1. Init => Service!ServiceInit
  <2> SUFFICES ASSUME Init PROVE Service!ServiceInit
    OBVIOUS
  <2>1. \A t \in Threads : th[t].call = <<>> /\ ran[t] = 0
    BY DEF Init, Locals
  <2>2. SubSeq(<<>>, 0 + 1, Len(<<>>)) = <<>>
    OBVIOUS
  <2> QED BY <2>1, <2>2 DEF Init, Service!ServiceInit
<1>2. PoolInv /\ [Next]_vars => [Service!ServiceNext]_(Service!svars)
  <2> SUFFICES ASSUME PoolInv, [Next]_vars
               PROVE  Service!ServiceNext \/ UNCHANGED Service!svars
    OBVIOUS
  <2> DEFINE Goal == Service!ServiceNext \/ UNCHANGED Service!svars
  <2>1. ASSUME NEW t \in Threads, NEW call \in Calls, Call(t, call) PROVE Goal
    BY <2>1, CallSubmits DEF Service!ServiceNext
  <2>2. ASSUME NEW t \in Threads, NEW p \in Processes, Acquire(t, p) PROVE Goal
    BY <2>2, AcquireBegins DEF Service!ServiceNext
  <2>3. ASSUME NEW t \in Threads, TryLock(t) PROVE Goal
    <3>1. Candidate(t) \in Processes
      BY CandidateFacts
    <3>2. CASE mutex[Candidate(t)] = NONE
      BY <2>2, <2>3, <3>1, <3>2 DEF TryLock, Acquire
    <3>3. CASE mutex[Candidate(t)] # NONE
      <4>1. mutex' = mutex /\ \A u \in Threads : th'[u].call = th[u].call /\ ran'[u] = ran[u]
        <5>1. /\ mutex' = mutex /\ ran' = ran
              /\ th' = [th EXCEPT ![t].i = @ + 1,
                                  ![t].pc = IF th[t].i + 1 < REPLAY_PROCESS_NUM
                                              THEN "try" ELSE "lock",
                                  ![t].replayPid = Home[t]]
          BY <2>3, <3>3 DEF TryLock
        <5> QED BY <5>1 DEF PoolInv, ReplayTypeOK, ThreadStates
      <4> QED BY <4>1, Unseen
    <3> QED BY <3>2, <3>3
  <2>4. ASSUME NEW t \in Threads, Lock(t) PROVE Goal
    <3>1. th[t].replayPid \in Processes
      BY FieldFacts DEF PoolInv
    <3>2. th' = [th EXCEPT ![t].pc = "write", ![t].replayPid = th[t].replayPid]
      BY ZenonT(60), <2>4 DEF Lock, PoolInv, ReplayTypeOK, ThreadStates
    <3> QED BY ZenonT(60), <2>2, <2>4, <3>1, <3>2 DEF Lock, Acquire
  <2>5. ASSUME NEW t \in Threads, NEW n, Write(t, n) PROVE Goal
    <3>1. mutex' = mutex /\ \A u \in Threads : th'[u].call = th[u].call /\ ran'[u] = ran[u]
      BY ZenonT(60), <2>5 DEF Write, PoolInv, ReplayTypeOK, ThreadStates
    <3> QED BY <3>1, Unseen
  <2>6. ASSUME NEW t \in Threads, NEW n, Read(t, n) PROVE Goal
    <3>1. mutex' = mutex /\ \A u \in Threads : th'[u].call = th[u].call /\ ran'[u] = ran[u]
      BY ZenonT(60), <2>6 DEF Read, PoolInv, ReplayTypeOK, ThreadStates
    <3> QED BY <3>1, Unseen
  <2>7. ASSUME NEW t \in Threads, Unlock(t) PROVE Goal
    BY <2>7, UnlockReturns DEF Service!ServiceNext
  <2>8. ASSUME NEW p \in Processes, Execute(p) PROVE Goal
    BY <2>8, ExecuteExecutes DEF Service!ServiceNext
  <2>9. CASE mutex' = mutex /\ th' = th /\ ran' = ran
    BY <2>9, Unseen
  <2>10. ASSUME NEW p \in Processes,
                \/ BufferedRead(p) \/ ReadRedoCommand(p) \/ Crash(p) \/ EndOfFile(p)
                \/ \E n \in 1 .. BLCKSZ : WriteAnswer(p, n)
         PROVE  Goal
    BY ZenonT(60), <2>9, <2>10 DEF BufferedRead, ReadRedoCommand, Crash, EndOfFile, WriteAnswer
  <2>11. ASSUME ServerExit \/ UNCHANGED vars PROVE Goal
    BY <2>9, <2>11 DEF ServerExit, vars
  <2> HIDE DEF Goal
  <2>12. ASSUME NEW t \in Threads, ThreadProceeds(t) PROVE Goal
    BY <2>3, <2>5, <2>6, <2>7, <2>12 DEF ThreadProceeds
  <2>13. ASSUME NEW p \in Processes, ProcessProceeds(p) PROVE Goal
    BY <2>8, <2>10, <2>13 DEF ProcessProceeds
  <2>14. ASSUME NEW p \in Processes, Crash(p) PROVE Goal
    BY <2>10, <2>14
  <2>15. ASSUME Next PROVE Goal
    BY <2>1, <2>4, <2>11, <2>12, <2>13, <2>14, <2>15 DEF Next
  <2> QED BY <2>11, <2>15 DEF Goal
<1> QED BY <1>1, <1>2, PoolInvariant, PTL DEF Spec, ImplementsService, Service!ServiceSpec
=============================================================================
