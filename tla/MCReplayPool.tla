---------------------------- MODULE MCReplayPool ----------------------------
(***************************************************************************)
(* A thread that serves requests, a background thread that replays, and    *)
(* the startup thread, which asks for relation sizes.  Two of them share a *)
(* home process, so that the second tries the next process, finds both     *)
(* taken and queues.                                                       *)
(***************************************************************************)
EXTENDS ReplayPool, TLC

CONSTANTS rpc, vacuumer, startup

MCThreads == {rpc, vacuumer, startup}
MCHome == rpc :> 0 @@ vacuumer :> 0 @@ startup :> 1
MCCallsOf ==
  rpc :> {WalRedoExtendRel, GetBasePage, GetPageByLsn}
    @@ vacuumer :> {ApplyLsnList}
    @@ startup :> {SyncGetRelSize}
MCMaxCalls == rpc :> 2 @@ vacuumer :> 1 @@ startup :> 1
=============================================================================
