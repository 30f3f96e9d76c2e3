----------------------------- MODULE MCLRUCache -----------------------------
(***************************************************************************)
(* Small instances of LRUCache.                                            *)
(***************************************************************************)
EXTENDS LRUCache, TLC

\* Readers of different sizes: one that exceeds the capacity by itself.
ChargeById(i) == i

Symmetry == Permutations(Thread)
=============================================================================
