---------------------------- MODULE DazzleStore ----------------------------
(***************************************************************************)
(* The engine implements KVStore.  The map a client relies on is a         *)
(* function of the disk alone: what a recovery started now would bring     *)
(* back.  A crash therefore cannot change it, and neither may any flush,   *)
(* rotation, compaction, reclamation or recovery step.                     *)
(***************************************************************************)
EXTENDS Dazzle

\* Record n of segment w is replayed: nothing at or before it is torn.
Replayable(w, n) ==
    n \in DOMAIN log[w] /\ \A m \in 1..n : log[w][m] # nullopt

\* The segments, and in the last of them the records, replayed for key k.
ReplayedWals(k) ==
    {w \in wals : \E n \in DOMAIN log[w] : Replayable(w, n) /\ log[w][n].key = k}

ReplayedAt(w, k) ==
    {n \in DOMAIN log[w] : Replayable(w, n) /\ log[w][n].key = k}

\* What key k reads after a recovery from the disk as it is.
DurableView(k) ==
    IF ReplayedWals(k) = {} THEN Visible(LookupInternal(Complete, k))
    ELSE LET w == Max(ReplayedWals(k)) IN log[w][Max(ReplayedAt(w, k))].value

Store == INSTANCE KVStore WITH
    store <- [k \in Key |-> DurableView(k)],
    pending <- IF op = nullopt THEN nullopt ELSE op.key

\* Every step of the engine is a write taking effect, the end of a call, or
\* leaves the durable map alone.
ImplementsKVStore == Store!Spec
=============================================================================
