------------------------------- MODULE MCCell -------------------------------
(***************************************************************************)
(* What a cell is found and ordered by, for TLC: the encoded key of its    *)
(* row and the timestamp of its write.  The two are made without a look at *)
(* each other, so a behaviour encodes a key or draws timestamps.           *)
(***************************************************************************)
EXTENDS HybridClock, KeyEncoding

CellInit == Init /\ KeyInit

\* Of the behaviours that draw timestamps one key is enough.
Unkeyed == key = [f \in DOMAIN key |-> <<>>] /\ bytes = <<>>

CellNext ==
    \/ Next /\ Unkeyed /\ UNCHANGED keyvars
    \/ KeyNext /\ begun = 0 /\ UNCHANGED vars

CellSpec == CellInit /\ [][CellNext]_<<vars, keyvars>> /\ Fairness
=============================================================================
