---------------------------- MODULE MCAsyncSink ----------------------------
(***************************************************************************)
(* A small instance of AsyncSink: threads are numbers.                     *)
(***************************************************************************)
EXTENDS AsyncSink

\* One thread submits one record, the next one two.
Uneven(t) == t

\* OverflowPolicy::BlockOnWarnPlus, where second records are warnings.
BlockOnWarnPlus(r) == r[2] = 2
=============================================================================
