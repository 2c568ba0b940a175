----------------------------- MODULE MCLogIndex -----------------------------
EXTENDS LogIndexVersions, TLC

Symmetry == Permutations(Readers)
=============================================================================
