----------------------------- MODULE MCSSTable -----------------------------
(***************************************************************************)
(* Small instances of SSTable.                                             *)
(***************************************************************************)
EXTENDS SSTable

\* Hash values that collide in some filter positions and not in others.
SmallHash1(key) == 5 * key + 9
SmallHash2(key) == 4 * key
=============================================================================
