SPECIFICATION Spec
CONSTANTS
  Readers = {r1, r2}
  MaxLsn = 4
  HASH_HEAD_NUM = 1
  HASH_ELEM_NUM = 2
  MAX_REPLAY_VERSION_SIZE = 2
  Vacuumer = Vacuumer
  NONE = NONE
SYMMETRY Symmetry
INVARIANT NeededVersionStored
