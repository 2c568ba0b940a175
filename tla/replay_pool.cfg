SPECIFICATION FairSpec
CONSTANTS
  rpc = rpc
  vacuumer = vacuumer
  startup = startup
  Threads <- MCThreads
  REPLAY_PROCESS_NUM = 2
  Home <- MCHome
  CallsOf <- MCCallsOf
  MaxCalls <- MCMaxCalls
  MaxCrashes = 1
  BLCKSZ = 2
  NONE = NONE
CHECK_DEADLOCK FALSE
INVARIANT AnswersOwn
INVARIANT ReadyWhenFree
PROPERTY ImplementsService
PROPERTY ProcessReleased
PROPERTY ProcessesEnd
