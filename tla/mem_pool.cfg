SPECIFICATION FairSpec
CONSTANTS
  k1 = k1
  k2 = k2
  k3 = k3
  NULL = NULL
  Keys <- MCKeys
  Handles = {h1, h2, h3}
  Threads = {t1, t2}
  Data = {d1, d2}
  NumShards = 1
  NumFrames = 2
  ShardOf <- OneShard
CHECK_DEADLOCK FALSE
INVARIANT PageIntact
INVARIANT WithinCapacity
INVARIANT FramesConserved
INVARIANT OneFramePerPage
PROPERTY ImplementsPagePool
PROPERTY RequestsEnd
