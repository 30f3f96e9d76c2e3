---------------------------- MODULE MCVersionSet ----------------------------
(***************************************************************************)
(* Small instances of VersionSet: one flushing thread, readers and two     *)
(* compactors that race for the same files.                                *)
(***************************************************************************)
EXTENDS VersionSet, TLC

\* Any policy: it may pick any set of the files it is shown.
AnySubset(S) == SUBSET S

Symmetry == Permutations(Reader) \cup Permutations(Compactor)
=============================================================================
