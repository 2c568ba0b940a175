SPECIFICATION FairSpec
CONSTANTS
  Keys = {k1, k2}
  Readers = {r1}
  Vacuumers = {v1}
  Parser = Parser
  ITER_BATCH_SIZE = 1
  NULL = NULL
PROPERTY ScanEnds
PROPERTY HeadLocksReleased
