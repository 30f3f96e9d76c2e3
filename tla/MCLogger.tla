------------------------------ MODULE MCLogger ------------------------------
(***************************************************************************)
(* Logger for TLC: the thread 2 dispatches two records, the main thread 1  *)
(* one, and 3 is AsyncSink's worker.                                       *)
(***************************************************************************)
EXTENDS Logger

Records(t) == IF t = main THEN 1 ELSE 2
LogRecords == {<<1, 1>>, <<2, 1>>, <<2, 2>>}
Words(r) == IF r[1] = main THEN 3 ELSE 1
Fatals == {<<2, 2>>}
=============================================================================
