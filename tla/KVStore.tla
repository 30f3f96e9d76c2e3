------------------------------ MODULE KVStore ------------------------------
(***************************************************************************)
(* What the engine promises a client: a durable map.  A write takes effect *)
(* on its own key, atomically, at one point inside the call that issued    *)
(* it; nothing else ever changes the map.                                  *)
(***************************************************************************)
CONSTANTS Key, Value, nullopt

VARIABLES
    store,    \* [Key -> Value \cup {nullopt}]: what a reader would see
    pending   \* the key of the write in progress, or nullopt

vars == <<store, pending>>

Init ==
    /\ store = [k \in Key |-> nullopt]
    /\ pending = nullopt

\* put(k, v), or remove(k) when v is nullopt, takes effect.
Write(k, v) ==
    /\ pending = nullopt
    /\ pending' = k
    /\ store' = [store EXCEPT ![k] = v]

\* The call returns, or the process dies before it can.
Return ==
    /\ pending # nullopt
    /\ pending' = nullopt
    /\ UNCHANGED store

Next ==
    \/ \E k \in Key, v \in Value \cup {nullopt} : Write(k, v)
    \/ Return

Spec == Init /\ [][Next]_vars
=============================================================================
