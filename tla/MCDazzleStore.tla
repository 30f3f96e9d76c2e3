--------------------------- MODULE MCDazzleStore ---------------------------
(***************************************************************************)
(* The instances of MCDazzle, for the refinement of KVStore.               *)
(***************************************************************************)
EXTENDS DazzleStore, MCDazzle
=============================================================================
