SPECIFICATION Spec
CONSTANTS
  Keys = {k1, k2, k3}
  Readers = {r1}
  Vacuumers = {v1}
  Parser = Parser
  ITER_BATCH_SIZE = 1
  NULL = NULL
SYMMETRY Symmetry
INVARIANT EveryHeadListed
INVARIANT PrevHeadSound
INVARIANT LockedHeadListed
