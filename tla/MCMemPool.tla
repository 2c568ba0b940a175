----------------------------- MODULE MCMemPool ------------------------------
(***************************************************************************)
(* MemPool on small instances.                                             *)
(***************************************************************************)
EXTENDS MemPool

CONSTANTS k1, k2, k3

MCKeys == {k1, k2, k3}
OneShard == [k \in MCKeys |-> 0]
=============================================================================
