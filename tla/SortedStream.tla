---------------------------- MODULE SortedStream ----------------------------
(***************************************************************************)
(* What an iterator promises its caller: the entries of a fixed stream, in *)
(* order, each once; then the end.  An error may cut the stream short, and *)
(* is never taken for the end.                                             *)
(***************************************************************************)
EXTENDS Sequences, Integers

VARIABLES
    stream,  \* what is there to read
    seen,    \* what the caller has been given
    status   \* "open", "end" or "error"

vars == <<stream, seen, status>>

Init == seen = <<>> /\ status = "open"

Yield ==
    /\ status = "open" /\ Len(seen) < Len(stream)
    /\ seen' = Append(seen, stream[Len(seen) + 1])
    /\ UNCHANGED <<stream, status>>

End ==
    /\ status = "open" /\ seen = stream
    /\ status' = "end"
    /\ UNCHANGED <<stream, seen>>

Fail ==
    /\ status = "open"
    /\ status' = "error"
    /\ UNCHANGED <<stream, seen>>

Next == Yield \/ End \/ Fail

Spec == Init /\ [][Next]_vars
=============================================================================
