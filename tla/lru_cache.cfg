SPECIFICATION CacheSpec
CONSTANTS
  k1 = k1
  k2 = k2
  k3 = k3
  k4 = k4
  k5 = k5
  NULL = NULL
  Keys <- MCKeys
  Handles = {h1, h2, h3, h4, h5}
  Threads = {t1, t2}
  NumShards = 2
  NumFrames = 3
  ShardOf <- TwoShards
SYMMETRY Symmetry
CHECK_DEADLOCK FALSE
INVARIANT OnOneList
INVARIANT TableMatchesCache
INVARIANT RefsCounted
INVARIANT HeldIsLive
INVARIANT UsageBounded
INVARIANT FramesExclusive
PROPERTY PinnedLeavesByRequest
