------------------------------ MODULE WalIngest ------------------------------
(***************************************************************************)
(* How the WAL gets into the storage server.                               *)
(*                                                                         *)
(* The compute node ships WAL pages with RpcXLogWrite (rpcserver.cpp),     *)
(* which writes them to the segment file and to a ring of page buffers and *)
(* then advances RpcXLogFlushedLsn.  The startup thread reads the pages    *)
(* (XLogPageRead, WaitForWALToBecomeAvailable, ReadRecord in xlog.c), adds *)
(* each record to the log index and advances XLogParseUpto.  Threads that  *)
(* serve a page request wait for it in WaitParse (rpcserver.cpp).          *)
(*                                                                         *)
(* LSNs count units of 64 bytes; a record goes by the LSN where it ends.   *)
(***************************************************************************)
EXTENDS Integers, FiniteSets, FiniteSetsExt

CONSTANTS
  PageSize,    \* XLOG_BLCKSZ, in units
  XLOGbuffers, \* the page buffers
  RecordEnds,  \* where the records of this WAL end
  Slack,       \* the 64 bytes that WaitParse does not wait for
  Readers      \* threads that serve page requests

MaxLsn == Max(RecordEnds)
Lsns == 0 .. MaxLsn
PageOf(lsn) == lsn \div PageSize
EndOf(page) == (page + 1) * PageSize
Pages == 0 .. PageOf(MaxLsn)
Slots == 0 .. XLOGbuffers - 1

ASSUME WalAssumption ==
  /\ PageSize \in Nat \ {0}
  /\ XLOGbuffers \in Nat \ {0}
  /\ Slack \in Nat
  /\ IsFiniteSet(RecordEnds) /\ RecordEnds # {} /\ RecordEnds \subseteq Nat \ {0}

VARIABLES
  disk,              \* the WAL file: how much of each page has been written
  RpcXlblocks,       \* the end of the page in each buffer; 0 for none
  RpcXLogPages,      \* how much of its page each buffer holds
  lockedSlots,       \* the buffers that RpcXLogWrite has locked
  slotRead,          \* the buffer that XLogPageRead has locked; none: XLOGbuffers
  RpcXLogFlushedLsn,
  wr,                \* the RpcXLogWrite in progress
  XLogParseUpto,
  reachXlogTempEnd,
  ps,                \* the startup thread
  indexed,           \* the records it has added to the log index
  rd                 \* the threads in WaitParse

walVars == <<disk, RpcXlblocks, RpcXLogPages, lockedSlots, RpcXLogFlushedLsn, wr>>
parseVars == <<slotRead, XLogParseUpto, reachXlogTempEnd, ps, indexed>>
vars == <<walVars, parseVars, rd>>

\* The server starts with the WAL of an earlier time, up to lsn, in its file.
Content(lsn) == [p \in Pages |-> IF lsn >= EndOf(p) THEN PageSize
                                 ELSE IF lsn <= p * PageSize THEN 0
                                 ELSE lsn - p * PageSize]

Init ==
  /\ \E lsn \in {0} \cup RecordEnds :
       /\ disk = Content(lsn)
       /\ wr = [pc |-> "idle", lsn |-> lsn, first |-> 0]
  /\ RpcXlblocks = [s \in Slots |-> 0]
  /\ RpcXLogPages = [s \in Slots |-> 0]
  /\ lockedSlots = {}
  /\ slotRead = XLOGbuffers
  /\ RpcXLogFlushedLsn = 0
  /\ XLogParseUpto = 0
  /\ reachXlogTempEnd = FALSE
  /\ ps = [pc |-> "read", source |-> "file", start |-> 0, page |-> 0,
           readLen |-> 0, image |-> 0]
  /\ indexed = {}
  /\ rd = [r \in Readers |-> [pc |-> "idle", target |-> 0]]

-----------------------------------------------------------------------------
(* RpcXLogWrite.  The compute node's WALWriteLock admits one at a time. *)

Written == {p \in Pages : wr.first <= p /\ p * PageSize < wr.lsn}
SlotOf(page) == page % XLOGbuffers

\* XLogWrite on the compute node: the WAL up to lsn, from the page that was
\* written last on, as far as the buffers do not wrap around.  It flushes up
\* to the end of a record or of a page.
XLogWrite(lsn) ==
  LET first == PageOf(wr.lsn)
      last == PageOf(lsn - 1)
  IN  /\ wr.pc = "idle"
      /\ lsn \in RecordEnds \/ lsn % PageSize = 0
      /\ lsn > wr.lsn
      /\ SlotOf(first) + (last - first) < XLOGbuffers
      /\ wr' = [pc |-> "pwrite", lsn |-> lsn, first |-> first]
      /\ UNCHANGED <<disk, RpcXlblocks, RpcXLogPages, lockedSlots, RpcXLogFlushedLsn,
                     parseVars, rd>>

\* A fault: only the first page of a group is written to the file.
FaultyPwriteShort ==
  /\ wr.pc = "pwrite"
  /\ disk' = [disk EXCEPT ![wr.first] = Content(wr.lsn)[wr.first]]
  /\ wr' = [wr EXCEPT !.pc = "lock"]
  /\ UNCHANGED <<RpcXlblocks, RpcXLogPages, lockedSlots, RpcXLogFlushedLsn, parseVars, rd>>

Pwrite ==
  /\ wr.pc = "pwrite"
  /\ disk' = [p \in Pages |-> IF p \in Written THEN Content(wr.lsn)[p] ELSE disk[p]]
  /\ wr' = [wr EXCEPT !.pc = "lock"]
  /\ UNCHANGED <<RpcXlblocks, RpcXLogPages, lockedSlots, RpcXLogFlushedLsn, parseVars, rd>>

\* The next buffer, in order.
LockSlot ==
  LET todo == {p \in Written : SlotOf(p) \notin lockedSlots}
      p == Min(todo)
  IN  /\ wr.pc = "lock"
      /\ todo # {}
      /\ slotRead # SlotOf(p)
      /\ lockedSlots' = lockedSlots \cup {SlotOf(p)}
      /\ RpcXlblocks' = [RpcXlblocks EXCEPT ![SlotOf(p)] = EndOf(p)]
      /\ wr' = [wr EXCEPT !.pc = IF todo = {p} THEN "copy" ELSE "lock"]
      /\ UNCHANGED <<disk, RpcXLogPages, RpcXLogFlushedLsn, parseVars, rd>>

\* A fault: only the first page of a group is copied.
FaultyCopyPages ==
  /\ wr.pc = "copy"
  /\ RpcXLogPages' = [RpcXLogPages EXCEPT ![SlotOf(wr.first)] = Content(wr.lsn)[wr.first]]
  /\ lockedSlots' = {}
  /\ wr' = [wr EXCEPT !.pc = "publish"]
  /\ UNCHANGED <<disk, RpcXlblocks, RpcXLogFlushedLsn, parseVars, rd>>

CopyPages ==
  /\ wr.pc = "copy"
  /\ RpcXLogPages' = [s \in Slots |->
       IF \E p \in Written : SlotOf(p) = s
         THEN Content(wr.lsn)[CHOOSE p \in Written : SlotOf(p) = s]
         ELSE RpcXLogPages[s]]
  /\ lockedSlots' = {}
  /\ wr' = [wr EXCEPT !.pc = "publish"]
  /\ UNCHANGED <<disk, RpcXlblocks, RpcXLogFlushedLsn, parseVars, rd>>

PublishFlushed ==
  /\ wr.pc = "publish"
  /\ RpcXLogFlushedLsn' = Max({RpcXLogFlushedLsn, wr.lsn})
  /\ wr' = [wr EXCEPT !.pc = "wakeup"]
  /\ UNCHANGED <<disk, RpcXlblocks, RpcXLogPages, lockedSlots, parseVars, rd>>

\* A broadcast reaches the startup thread only while it sleeps.
WakeupStartupRecovery ==
  /\ wr.pc = "wakeup"
  /\ wr' = [wr EXCEPT !.pc = "idle"]
  /\ ps' = [ps EXCEPT !.pc = IF @ = "asleep" THEN "available" ELSE @]
  /\ UNCHANGED <<disk, RpcXlblocks, RpcXLogPages, lockedSlots, RpcXLogFlushedLsn,
                 slotRead, XLogParseUpto, reachXlogTempEnd, indexed, rd>>

-----------------------------------------------------------------------------
(* The startup thread: ReadRecord and the loop around it *)

\* The end of the record that starts at lsn; behind the last one there are
\* only zeros, which never make a record.
RecordEnd(lsn) == Min({e \in RecordEnds \cup {MaxLsn + 1} : e > lsn})

\* XLogReadRecord asks for the header of the record first, and then for as
\* much of the record as is on each page it goes on to.
FirstPage == ps.page = PageOf(ps.start)
RecPtr == IF FirstPage THEN ps.start ELSE Min({RecordEnd(ps.start), EndOf(ps.page)})

\* How much of the page it needs, and whether the record ends there.
Needed == Min({RecordEnd(ps.start), EndOf(ps.page)}) - ps.page * PageSize
EndsHere == RecordEnd(ps.start) <= EndOf(ps.page)

\* The first test of XLogPageRead lets an exact match pass, those of
\* WaitForWALToBecomeAvailable do not.
Available ==
  \/ RecPtr < RpcXLogFlushedLsn
  \/ ps.pc = "read" /\ ~ FirstPage /\ RecPtr = RpcXLogFlushedLsn

\* How much XLogPageRead returns.  On the page that RpcXLogFlushedLsn lies in,
\* it takes flushedUpto for the end of the WAL, the position of the WAL
\* receiver, which is 0 on the storage server.
ReadLen ==
  IF ps.source = "file" \/ ps.page < PageOf(RpcXLogFlushedLsn)
    THEN PageSize
    ELSE 0 - ps.page * PageSize

BeginPageRead ==
  /\ ps.pc \in {"read", "available"}
  /\ ps.source = "file" \/ Available
  /\ ps' = [ps EXCEPT !.pc = "lock", !.readLen = ReadLen]
  /\ UNCHANGED <<walVars, slotRead, XLogParseUpto, reachXlogTempEnd, indexed, rd>>

LockPage ==
  /\ ps.pc = "lock"
  /\ SlotOf(ps.page) \notin lockedSlots
  /\ slotRead' = SlotOf(ps.page)
  /\ ps' = [ps EXCEPT !.pc = "copy"]
  /\ UNCHANGED <<walVars, XLogParseUpto, reachXlogTempEnd, indexed, rd>>

\* From the buffer if it holds the page, else from the file.
CopyPage ==
  LET s == SlotOf(ps.page)
  IN  /\ ps.pc = "copy"
      /\ ps' = [ps EXCEPT !.pc = "validate",
                          !.image = IF RpcXlblocks[s] = EndOf(ps.page)
                                      THEN RpcXLogPages[s] ELSE disk[ps.page]]
      /\ slotRead' = XLOGbuffers
      /\ UNCHANGED <<walVars, XLogParseUpto, reachXlogTempEnd, indexed, rd>>

\* A page without a valid header is read again, over RPC.
InvalidPage ==
  /\ ps.pc = "validate"
  /\ ps.image = 0
  /\ reachXlogTempEnd' = TRUE
  /\ ps' = [ps EXCEPT !.pc = "available", !.source = "rpc"]
  /\ UNCHANGED <<walVars, slotRead, XLogParseUpto, indexed, rd>>

\* The record is not complete, or the length returned is no length: ReadRecord
\* starts with the record again.
InvalidRecord ==
  /\ ps.pc = "validate"
  /\ ps.image > 0
  /\ ps.readLen <= 0 \/ ps.image < Needed
  /\ reachXlogTempEnd' = TRUE
  /\ ps' = [ps EXCEPT !.pc = "available", !.source = "rpc", !.page = PageOf(ps.start)]
  /\ UNCHANGED <<walVars, slotRead, XLogParseUpto, indexed, rd>>

\* A fault: the length of the record is not compared with what was read.
FaultyValidPage ==
  /\ ps.pc = "validate"
  /\ ps.readLen > 0 /\ ps.image > 0
  /\ ps' = IF EndsHere THEN [ps EXCEPT !.pc = "index"]
                       ELSE [ps EXCEPT !.pc = "read", !.page = @ + 1]
  /\ UNCHANGED <<walVars, slotRead, XLogParseUpto, reachXlogTempEnd, indexed, rd>>

ValidPage ==
  /\ ps.pc = "validate"
  /\ ps.readLen > 0 /\ ps.image >= Needed
  /\ ps' = IF EndsHere THEN [ps EXCEPT !.pc = "index"]
                       ELSE [ps EXCEPT !.pc = "read", !.page = @ + 1]
  /\ UNCHANGED <<walVars, slotRead, XLogParseUpto, reachXlogTempEnd, indexed, rd>>

\* The _idx_save function of the record's resource manager, or its redo.
IndexRecord ==
  /\ ps.pc = "index"
  /\ indexed' = indexed \cup {RecordEnd(ps.start)}
  /\ ps' = [ps EXCEPT !.pc = "advance"]
  /\ UNCHANGED <<walVars, slotRead, XLogParseUpto, reachXlogTempEnd, rd>>

AdvanceParseUpto ==
  LET end == RecordEnd(ps.start)
  IN  /\ ps.pc = "advance"
      /\ XLogParseUpto' = Max({XLogParseUpto, end})
      /\ ps' = [ps EXCEPT !.pc = "read", !.start = end, !.page = PageOf(end)]
      /\ UNCHANGED <<walVars, slotRead, reachXlogTempEnd, indexed, rd>>

\* Nothing to read.  A broadcast that comes before WaitForNewXLog has locked
\* the mutex is lost.
NotAvailable ==
  /\ ps.pc \in {"read", "available"}
  /\ ps.source = "rpc" /\ ~ Available
  /\ ps' = [ps EXCEPT !.pc = "drowsy"]
  /\ UNCHANGED <<walVars, slotRead, XLogParseUpto, reachXlogTempEnd, indexed, rd>>

WaitForNewXLog ==
  /\ ps.pc = "drowsy"
  /\ ps' = [ps EXCEPT !.pc = "asleep"]
  /\ UNCHANGED <<walVars, slotRead, XLogParseUpto, reachXlogTempEnd, indexed, rd>>

\* A fault: the wait has no timeout.
FaultyWaitTimesOut == ps.pc = "asleep" /\ UNCHANGED vars

\* pthread_cond_timedwait returns by itself.
WaitTimesOut ==
  /\ ps.pc = "asleep"
  /\ ps' = [ps EXCEPT !.pc = "available"]
  /\ UNCHANGED <<walVars, slotRead, XLogParseUpto, reachXlogTempEnd, indexed, rd>>

-----------------------------------------------------------------------------
(* WaitParse *)

EnterWaitParse(r, lsn) ==
  /\ rd[r].pc = "idle"
  /\ lsn <= wr.lsn
  /\ lsn > XLogParseUpto /\ XLogParseUpto < RpcXLogFlushedLsn /\ XLogParseUpto # 0
  /\ rd' = [rd EXCEPT ![r] = [pc |-> "waiting", target |-> Min({lsn, RpcXLogFlushedLsn})]]
  /\ UNCHANGED <<walVars, parseVars>>

\* A fault: the thread waits for a record beyond its target.
FaultyLeaveLoop(r) ==
  /\ rd[r].pc = "waiting"
  /\ XLogParseUpto > rd[r].target \/ reachXlogTempEnd
  /\ rd' = [rd EXCEPT ![r].pc = "leaving"]
  /\ UNCHANGED <<walVars, parseVars>>

LeaveLoop(r) ==
  /\ rd[r].pc = "waiting"
  /\ XLogParseUpto >= rd[r].target - Slack \/ reachXlogTempEnd
  /\ rd' = [rd EXCEPT ![r].pc = "leaving"]
  /\ UNCHANGED <<walVars, parseVars>>

LeaveWaitParse(r) ==
  /\ rd[r].pc = "leaving"
  /\ reachXlogTempEnd' = FALSE
  /\ rd' = [rd EXCEPT ![r] = [pc |-> "idle", target |-> 0]]
  /\ UNCHANGED <<walVars, slotRead, XLogParseUpto, ps, indexed>>

-----------------------------------------------------------------------------
RpcXLogWrite ==
  Pwrite \/ LockSlot \/ CopyPages \/ PublishFlushed \/ WakeupStartupRecovery

StartupThread ==
  \/ BeginPageRead \/ LockPage \/ CopyPage
  \/ InvalidPage \/ InvalidRecord \/ ValidPage
  \/ IndexRecord \/ AdvanceParseUpto
  \/ NotAvailable \/ WaitForNewXLog \/ WaitTimesOut

Next ==
  \/ \E lsn \in Lsns : XLogWrite(lsn)
  \/ RpcXLogWrite
  \/ StartupThread
  \/ \E r \in Readers, lsn \in Lsns : EnterWaitParse(r, lsn)
  \/ \E r \in Readers : LeaveLoop(r) \/ LeaveWaitParse(r)

Spec == Init /\ [][Next]_vars

\* The threads of the server run, and WaitForNewXLog times out.  Nothing is
\* assumed of the compute node.
FairSpec ==
  /\ Spec
  /\ WF_vars(RpcXLogWrite)
  /\ WF_vars(StartupThread)
  /\ \A r \in Readers : WF_vars(LeaveLoop(r)) /\ WF_vars(LeaveWaitParse(r))

-----------------------------------------------------------------------------
(* Properties *)

\* Type correctness.
WalTypeOK ==
  /\ disk \in [Pages -> 0 .. PageSize]
  /\ RpcXlblocks \in [Slots -> 0 .. EndOf(PageOf(MaxLsn))]
  /\ RpcXLogPages \in [Slots -> 0 .. PageSize]
  /\ lockedSlots \subseteq Slots
  /\ slotRead \in Slots \cup {XLOGbuffers}
  /\ RpcXLogFlushedLsn \in Lsns
  /\ XLogParseUpto \in Lsns
  /\ ps.page \in Pages /\ ps.start \in Lsns
  /\ indexed \subseteq RecordEnds

\* A page that counts as complete is complete: whatever the order in which
\* RpcXLogWrite writes the file, the buffers and RpcXLogFlushedLsn, and
\* whichever of file and buffer the page is read from, a page behind which
\* the WAL goes on is read in full.
FullPageComplete ==
  (ps.pc = "validate" /\ ps.source = "rpc" /\ ps.readLen = PageSize)
    => ps.image = PageSize

\* The log index names only records that are in the WAL file: the replay
\* processes read them from there.
IndexedIsOnDisk ==
  \A e \in indexed : \A lsn \in 1 .. e :
    disk[PageOf(lsn - 1)] >= lsn - PageOf(lsn - 1) * PageSize

\* Whoever finds XLogParseUpto beyond a record finds the record in the log
\* index, and records are not skipped.
ParsedIsIndexed == \A e \in RecordEnds : e <= XLogParseUpto => e \in indexed

\* The file holds the WAL up to lsn.
Stored(lsn) == \A p \in Pages : Content(lsn)[p] <= disk[p]

storedWal == {lsn \in Lsns : Stored(lsn)}

Order == INSTANCE WalOrder
  WITH inFile <- storedWal, flushed <- RpcXLogFlushedLsn, index <- indexed,
       parsed <- XLogParseUpto

\* However the steps of RpcXLogWrite and of the startup thread take turns, and
\* whichever pages come from buffers that the WAL has wrapped around, the
\* server keeps the order of file, RpcXLogFlushedLsn, log index and
\* XLogParseUpto for every record.
ImplementsWalOrder == Order!Spec

\* The WAL has gone beyond the pages that hold it up to lsn, and the record
\* that lsn may lie in.
Completed(lsn) ==
  \E e \in RecordEnds : e >= lsn /\ PageOf(e - 1) < PageOf(RpcXLogFlushedLsn)

\* Such WAL is parsed, even if the broadcast for it is lost.
CompletedIsParsed == \A e \in RecordEnds : Completed(e) ~> XLogParseUpto >= e

\* A call of WaitParse returns once its target is completed, although other
\* calls reset the flag that may be what it is waiting for.  (Before that it
\* may have to wait for more WAL.)
WaitParseEnds ==
  \A r \in Readers :
    (rd[r].pc = "waiting" /\ Completed(rd[r].target)) ~> rd[r].pc # "waiting"

-----------------------------------------------------------------------------
(* The inductive invariant behind the safety properties *)

\* RpcXLogWrite is between its first step and the copy to the buffers.
Writing == wr.pc \in {"pwrite", "lock", "copy"}

\* The pages below this one have been written to the end, to the file and to
\* whatever buffer still holds them.
Complete == IF Writing THEN wr.first ELSE PageOf(wr.lsn)

\* The threads' locals, beyond what WalTypeOK says of them.
LocalsInv ==
  /\ wr \in [pc : {"idle", "pwrite", "lock", "copy", "publish", "wakeup"},
             lsn : Lsns, first : Pages]
  /\ ps \in [pc : {"read", "lock", "copy", "validate", "index", "advance",
                   "available", "drowsy", "asleep"},
             source : {"file", "rpc"}, start : Lsns, page : Pages,
             readLen : Int, image : 0 .. PageSize]

\* The file holds the WAL up to wr.lsn or, before the write, up to some LSN of
\* the page the write begins with.
DiskInv ==
  \E lsn \in 0 .. wr.lsn :
    /\ disk = Content(lsn)
    /\ IF wr.pc = "pwrite" THEN PageOf(lsn) = wr.first ELSE lsn = wr.lsn

\* Nothing is published before it has been written.  Each page of a write has
\* a buffer of its own, and the locked ones are already labelled with it.
WriterInv ==
  /\ RpcXLogFlushedLsn <= wr.lsn
  /\ PageOf(RpcXLogFlushedLsn) <= Complete
  /\ Writing => wr.first <= PageOf(wr.lsn)
  /\ Writing => \A p, q \in Written : SlotOf(p) = SlotOf(q) => p = q
  /\ wr.pc \notin {"lock", "copy"} => lockedSlots = {}
  /\ lockedSlots \subseteq {SlotOf(p) : p \in Written}
  /\ \A p \in Written : SlotOf(p) \in lockedSlots => RpcXlblocks[SlotOf(p)] = EndOf(p)
  /\ wr.pc = "copy" => \A p \in Written : SlotOf(p) \in lockedSlots

\* A buffer that is labelled with a page holds no more of it than the file,
\* unless it is locked, and all of it if the page is complete.
BufferInv ==
  \A s \in Slots, p \in Pages :
    RpcXlblocks[s] = EndOf(p) =>
      /\ s = SlotOf(p)
      /\ s \notin lockedSlots => RpcXLogPages[s] <= disk[p]
      /\ p < Complete => RpcXLogPages[s] = PageSize

\* What the startup thread has parsed is in the file, and so are the pages in
\* front of the one it reads.
ParserInv ==
  /\ XLogParseUpto = ps.start
  /\ Stored(ps.start)
  /\ \A p \in Pages : p < ps.page => disk[p] = PageSize
  /\ ps.pc = "copy" => slotRead = SlotOf(ps.page) /\ slotRead \notin lockedSlots
  /\ ps.pc = "validate" => ps.image <= disk[ps.page]
  /\ ps.pc \in {"lock", "copy"} /\ ps.source = "rpc" /\ ps.readLen = PageSize
       => ps.page < PageOf(RpcXLogFlushedLsn)
  /\ ps.pc \in {"index", "advance"}
       => RecordEnd(ps.start) \in RecordEnds /\ Stored(RecordEnd(ps.start))
  /\ ps.pc = "advance" => RecordEnd(ps.start) \in indexed
  /\ \A e \in indexed : Stored(e)

IngestInv ==
  /\ WalTypeOK /\ LocalsInv
  /\ DiskInv /\ WriterInv /\ BufferInv
  /\ ParserInv /\ FullPageComplete /\ ParsedIsIndexed

-----------------------------------------------------------------------------
(* What a comment in the code says *)

\* xlog.c:12629, on XLogPageRead: "Returns number of bytes read, if the page
\* is read successfully, or -1 in case of errors."
ReturnsBytesRead ==
  (ps.pc = "validate" /\ ps.image >= Needed) => ps.readLen \in {-1} \cup 1 .. PageSize
=============================================================================
