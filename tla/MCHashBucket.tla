---------------------------- MODULE MCHashBucket ----------------------------
EXTENDS HashBucket, TLC

Symmetry == Permutations(Keys) \cup Permutations(Readers) \cup Permutations(Vacuumers)
=============================================================================
