---------------------------- MODULE HybridClock ----------------------------
(***************************************************************************)
(* TimestampGenerator: threads call next() on one pair of atomics.  Each   *)
(* access to an atomic is one step; the wall clock is read once, before    *)
(* the loop, and may stand still or step back between two calls.           *)
(*                                                                         *)
(* A timestamp is 64 bits wide: the wall time in its upper 48 bits and a   *)
(* counter in its lower 16.  The widths are parameters.                    *)
(***************************************************************************)
EXTENDS Integers, FiniteSets

CONSTANTS
    Thread,
    CounterMod,  \* 2^16: values of the counter's bits
    WallMod,     \* 2^48: values of the wall time's bits
    MaxMillis,   \* bound: latest wall time
    MaxCalls     \* bound: calls of next()

TsMod == WallMod * CounterMod

\* The clock is so far from the end of its 48 bits that the calls made
\* cannot carry a timestamp past 64 bits.
ASSUME ClockAssumption ==
    /\ IsFiniteSet(Thread)
    /\ CounterMod \in Nat \ {0} /\ WallMod \in Nat \ {0}
    /\ MaxMillis \in Nat /\ MaxCalls \in Nat
    /\ MaxMillis < WallMod
    /\ (MaxMillis + 1) * CounterMod + MaxCalls < TsMod

VARIABLES
    counter,   \* logicalCounter_, of which only the lower 16 bits are used
    last,      \* lastReturned_
    pc,        \* [Thread -> where its next() is]
    wall,      \* [Thread -> wallTime48 before the shift]
    prev,      \* [Thread -> prev]
    cand,      \* [Thread -> candidate; locals are 0 when they are dead]
    begun,     \* history: calls made
    done,      \* history: calls that returned
    highest,   \* history: the highest timestamp returned
    seen       \* history: the latest wall time read

vars == <<counter, last, pc, wall, prev, cand, begun, done, highest, seen>>

TypeOK ==
    /\ counter \in 0..CounterMod - 1
    /\ last \in 0..TsMod - 1
    /\ pc \in [Thread -> {"idle", "load", "count", "swap"}]
    /\ wall \in [Thread -> 0..MaxMillis]
    /\ prev \in [Thread -> 0..TsMod - 1]
    /\ cand \in [Thread -> 0..TsMod - 1]
    /\ begun \in 0..MaxCalls /\ done \in Nat
    /\ highest \in 0..TsMod - 1
    /\ seen \in 0..MaxMillis

Init ==
    /\ counter = 0 /\ last = 0
    /\ pc = [t \in Thread |-> "idle"]
    /\ wall = [t \in Thread |-> 0]
    /\ prev = [t \in Thread |-> 0]
    /\ cand = [t \in Thread |-> 0]
    /\ begun = 0 /\ done = 0 /\ highest = 0 /\ seen = 0

-----------------------------------------------------------------------------
Larger(m, n) == IF m < n THEN n ELSE m

\* next() is called and reads the wall clock, which shows any time.
Begin(t) ==
    /\ pc[t] = "idle" /\ begun < MaxCalls
    /\ \E millis \in 0..MaxMillis :
          /\ wall' = [wall EXCEPT ![t] = millis % WallMod]
          /\ seen' = Larger(seen, millis)
    /\ begun' = begun + 1
    /\ pc' = [pc EXCEPT ![t] = "load"]
    /\ UNCHANGED <<counter, last, prev, cand, done, highest>>

\* prev = lastReturned_.load().
LoadLast(t) ==
    /\ pc[t] = "load"
    /\ prev' = [prev EXCEPT ![t] = last]
    /\ pc' = [pc EXCEPT ![t] = "count"]
    /\ UNCHANGED <<counter, last, wall, cand, begun, done, highest, seen>>

\* Mutant of Candidate: a candidate equal to prev is taken.
CandidateOrEqual(w, n, p) ==
    LET c == w * CounterMod + n
    IN  IF c < p THEN (p + 1) % TsMod ELSE c

\* Mutant of Candidate: the wall time's bits are advanced instead of the
\* counter's.
CandidateNextTick(w, n, p) ==
    LET c == w * CounterMod + n
    IN  IF c <= p THEN (p + CounterMod) % TsMod ELSE c

\* The wall time and the counter side by side, or one more than prev.
Candidate(w, n, p) ==
    LET c == w * CounterMod + n
    IN  IF c <= p THEN (p + 1) % TsMod ELSE c

\* logicalCounter_++, and the candidate made with its old value.
Count(t) ==
    /\ pc[t] = "count"
    /\ cand' = [cand EXCEPT ![t] = Candidate(wall[t], counter, prev[t])]
    /\ counter' = (counter + 1) % CounterMod
    /\ pc' = [pc EXCEPT ![t] = "swap"]
    /\ UNCHANGED <<last, wall, prev, begun, done, highest, seen>>

\* compare_exchange_weak succeeds and next() returns the candidate.
Swap(t) ==
    /\ pc[t] = "swap" /\ last = prev[t]
    /\ last' = cand[t]
    /\ done' = done + 1
    /\ highest' = Larger(highest, cand[t])
    /\ pc' = [pc EXCEPT ![t] = "idle"]
    /\ wall' = [wall EXCEPT ![t] = 0]
    /\ prev' = [prev EXCEPT ![t] = 0]
    /\ cand' = [cand EXCEPT ![t] = 0]
    /\ UNCHANGED <<counter, begun, seen>>

\* Mutant of SwapFails: the loop tries the same exchange again.
SwapFailsForGood(t) ==
    /\ pc[t] = "swap" /\ last # prev[t]
    /\ UNCHANGED vars

\* It fails, because another thread was faster or for no reason.
SwapFails(t) ==
    /\ pc[t] = "swap"
    /\ pc' = [pc EXCEPT ![t] = "load"]
    /\ prev' = [prev EXCEPT ![t] = 0]
    /\ cand' = [cand EXCEPT ![t] = 0]
    /\ UNCHANGED <<counter, last, wall, begun, done, highest, seen>>

Next ==
    \E t \in Thread :
        Begin(t) \/ LoadLast(t) \/ Count(t) \/ Swap(t) \/ SwapFails(t)

Spec == Init /\ [][Next]_vars

(***************************************************************************)
(* A thread inside next() runs, and an exchange that could succeed again   *)
(* and again does not fail for no reason forever.  Nobody has to call.     *)
(***************************************************************************)
Fairness ==
    \A t \in Thread :
        /\ WF_vars(LoadLast(t) \/ Count(t) \/ Swap(t) \/ SwapFails(t))
        /\ SF_vars(Swap(t))

FairSpec == Spec /\ Fairness

-----------------------------------------------------------------------------
(***************************************************************************)
(* Properties.                                                             *)
(***************************************************************************)
\* next() returns a timestamp above every one returned before, by any
\* thread, although the wall clock stands still or steps back and the
\* counter's bits wrap around: no two calls ever return the same one.
StrictlyIncreasing ==
    [][\A t \in Thread :
          pc[t] = "swap" /\ pc'[t] = "idle" => cand[t] > highest]_vars

\* The result is not before the wall time that its call read, and runs ahead
\* of the latest wall time anyone read by at most one per call.
BoundedDrift ==
    /\ \A t \in Thread :
          pc[t] = "swap" => cand[t] >= wall[t] * CounterMod
    /\ last < (seen + 1) * CounterMod + done

\* Every call returns, once the calls that overtake it come to an end.
CallsReturn == \A t \in Thread : pc[t] # "idle" ~> pc[t] = "idle"
=============================================================================
