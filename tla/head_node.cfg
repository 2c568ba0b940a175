SPECIFICATION NodeSpec
CONSTANTS
  LastLsn = 10
  HASH_HEAD_NUM = 2
  HASH_ELEM_NUM = 4
  MAX_REPLAY_VERSION_SIZE = 3
INVARIANT NodesFilled
INVARIANT LowerBoundRight
INVARIANT ReplayListRight
INVARIANT OlderVersionRight
INVARIANT CollectedRight
