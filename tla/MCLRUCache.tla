----------------------------- MODULE MCLRUCache -----------------------------
(***************************************************************************)
(* LRUCache on small instances.  Handles are interchangeable addresses;    *)
(* with a sixth one there are no more states.                              *)
(* The first shard has room for one entry and serves three pages, so that  *)
(* two callers pin more than it has room for, and a later insertion evicts *)
(* two entries at once; the frames then do not suffice for the second      *)
(* shard, which has room for both of its pages.                            *)
(***************************************************************************)
EXTENDS LRUCache, TLC

CONSTANTS k1, k2, k3, k4, k5

MCKeys == {k1, k2, k3, k4, k5}
TwoShards == [k \in MCKeys |-> IF k \in {k1, k2, k3} THEN 0 ELSE 1]

Symmetry == Permutations(Handles) \cup Permutations(Threads)
=============================================================================
