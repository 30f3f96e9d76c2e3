------------------------- MODULE HybridClockProofs -------------------------
(***************************************************************************)
(* For any number of threads and any widths: timestamps strictly increase, *)
(* and run ahead of the wall clock by at most one per call.                *)
(***************************************************************************)
EXTENDS HybridClock, FiniteSetTheorems, TLAPS

\* Steps without a prover of their own get more than the default time.
USE SMTT(30)

Active == {t \in Thread : pc[t] # "idle"}

\* Every call that began has returned or is under way.
CallsCounted == done + Cardinality(Active) = begun

\* What a thread holds, when its exchange succeeds, is above lastReturned_.
Held ==
    \A t \in Thread :
        /\ pc[t] # "idle" => wall[t] <= seen
        /\ prev[t] <= last
        /\ pc[t] = "swap" =>
              /\ cand[t] > prev[t]
              /\ cand[t] >= wall[t] * CounterMod
              /\ cand[t] = prev[t] + 1 \/ cand[t] < (seen + 1) * CounterMod

IInv ==
    /\ TypeOK
    /\ CallsCounted
    /\ Held
    /\ highest <= last
    /\ last < (seen + 1) * CounterMod + done

(***************************************************************************)
(* Arithmetic that the solvers need spelled out.                           *)
(***************************************************************************)
LEMMA ProductMonotonic ==
    ASSUME NEW m \in Nat, NEW n \in Nat, NEW k \in Nat, m <= n
    PROVE  m * k <= n * k
  OBVIOUS

\* A later wall time is not fewer ticks.
LEMMA TicksMonotonic ==
    ASSUME NEW m \in Nat, NEW n \in Nat, m <= n
    PROVE  (m + 1) * CounterMod <= (n + 1) * CounterMod
  BY ProductMonotonic, ClockAssumption

\* The number of timestamps is a number.
LEMMA TsModType == TsMod \in Nat
  BY ClockAssumption DEF TsMod

\* A wall time and a counter side by side stay below the next wall time.
LEMMA BelowNextTick ==
    ASSUME NEW w \in Nat, NEW s \in Nat, NEW n \in 0..CounterMod - 1, w <= s
    PROVE  /\ w * CounterMod + n < (s + 1) * CounterMod
           /\ w * CounterMod \in Nat /\ (s + 1) * CounterMod \in Nat
  <1>1. (w + 1) * CounterMod <= (s + 1) * CounterMod
    BY TicksMonotonic
  <1>2. (w + 1) * CounterMod = w * CounterMod + CounterMod
    BY ClockAssumption
  <1>3. w * CounterMod \in Nat /\ (s + 1) * CounterMod \in Nat
    BY ClockAssumption
  <1> QED
    BY <1>1, <1>2, <1>3, ClockAssumption

\* The last tick of a wall time, and a tick for each call, fit in a timestamp.
LEMMA TicksFit ==
    ASSUME NEW s \in 0..MaxMillis
    PROVE  /\ (s + 1) * CounterMod \in Nat
           /\ (s + 1) * CounterMod <= (MaxMillis + 1) * CounterMod
           /\ (s + 1) * CounterMod + MaxCalls < TsMod
  <1>1. (s + 1) * CounterMod <= (MaxMillis + 1) * CounterMod
    BY TicksMonotonic, ClockAssumption
  <1>2. (s + 1) * CounterMod \in Nat /\ (MaxMillis + 1) * CounterMod \in Nat
    BY ClockAssumption
  <1> QED
    BY <1>1, <1>2, ClockAssumption, TsModType

(***************************************************************************)
(* Nobody is so late that prev + 1 leaves 64 bits.                         *)
(***************************************************************************)
LEMMA NoCarryOut ==
    ASSUME IInv, Active # {}
    PROVE  last + 1 < TsMod
  <1>1. IsFiniteSet(Active)
    BY ClockAssumption, FS_Subset DEF Active
  <1>2. Cardinality(Active) \in Nat /\ Cardinality(Active) # 0
    BY <1>1, FS_CardinalityType, FS_EmptySet
  <1>3. done + 1 <= MaxCalls
    BY <1>2, ClockAssumption DEF IInv, CallsCounted, TypeOK
  <1>4. /\ (seen + 1) * CounterMod \in Nat
        /\ (seen + 1) * CounterMod + MaxCalls < TsMod
    BY TicksFit DEF IInv, TypeOK
  <1> QED
    BY <1>3, <1>4, ClockAssumption, TsModType DEF IInv, TypeOK

(***************************************************************************)
(* How the set of calls under way changes.                                 *)
(***************************************************************************)
LEMMA ActiveFinite == IsFiniteSet(Active) /\ Cardinality(Active) \in Nat
  BY ClockAssumption, FS_Subset, FS_CardinalityType DEF Active

(***************************************************************************)
(* Every step preserves the invariant, one lemma per action.               *)
(***************************************************************************)
LEMMA InitIInv == Init => IInv
  <1> SUFFICES ASSUME Init PROVE IInv
    OBVIOUS
  <1>1. Active = {}
    BY DEF Init, Active
  <1>2. CallsCounted
    BY <1>1, FS_EmptySet DEF Init, CallsCounted
  <1>3. TypeOK
    BY ClockAssumption, TsModType DEF Init, TypeOK, TsMod
  <1>4. Held
    BY DEF Init, Held
  <1>5. last < (seen + 1) * CounterMod + done
    BY ClockAssumption DEF Init
  <1> QED
    BY <1>2, <1>3, <1>4, <1>5 DEF Init, IInv

\* next() reads the wall clock.
LEMMA BeginIInv ==
    ASSUME IInv, NEW t \in Thread, Begin(t)
    PROVE  IInv'
  <1>1. PICK millis \in 0..MaxMillis :
            /\ wall' = [wall EXCEPT ![t] = millis % WallMod]
            /\ seen' = Larger(seen, millis)
    BY Zenon DEF Begin
  <1>2. millis % WallMod = millis
    BY ClockAssumption
  <1>3. seen' \in 0..MaxMillis /\ seen <= seen' /\ millis <= seen'
    BY <1>1, ClockAssumption DEF Larger, IInv, TypeOK
  <1>4. TypeOK'
    BY <1>1, <1>2, <1>3, ClockAssumption, TsModType DEF Begin, IInv, TypeOK
  <1>5. CallsCounted'
    <2>1. Active' = Active \cup {t} /\ t \notin Active
      BY DEF Begin, Active, IInv, TypeOK
    <2>2. Cardinality(Active') = Cardinality(Active) + 1
      BY SMTT(30), <2>1, ActiveFinite, FS_AddElement
    <2> QED
      BY <2>2, ActiveFinite DEF Begin, IInv, CallsCounted, TypeOK
  <1>6. (seen + 1) * CounterMod <= (seen' + 1) * CounterMod
    <2>1. seen \in Nat /\ seen' \in Nat /\ seen <= seen'
      BY <1>3, ClockAssumption DEF IInv, TypeOK
    <2> QED
      BY <2>1, TicksMonotonic
  <1>7. (seen + 1) * CounterMod \in Nat /\ (seen' + 1) * CounterMod \in Nat
    BY <1>3, TicksFit DEF IInv, TypeOK
  <1>8. Held'
    <2> SUFFICES ASSUME NEW u \in Thread PROVE Held!(u)'
      BY DEF Held
    <2> QED
      BY <1>1, <1>2, <1>3, <1>6, <1>7, TsModType, ClockAssumption
      DEF Begin, IInv, Held, TypeOK
  <1> QED
    BY <1>4, <1>5, <1>6, <1>7, <1>8, TsModType DEF Begin, IInv, TypeOK

\* It loads lastReturned_.
LEMMA LoadLastIInv ==
    ASSUME IInv, NEW t \in Thread, LoadLast(t)
    PROVE  IInv'
  <1>1. TypeOK'
    BY DEF LoadLast, IInv, TypeOK
  <1>2. Active' = Active
    BY DEF LoadLast, Active, IInv, TypeOK
  <1>3. Held'
    BY TsModType DEF LoadLast, IInv, Held, TypeOK
  <1> QED
    BY <1>1, <1>2, <1>3 DEF LoadLast, IInv, CallsCounted

\* It draws from the counter; its candidate is above lastReturned_.
LEMMA CountIInv ==
    ASSUME IInv, NEW t \in Thread, Count(t)
    PROVE  IInv'
  <1> DEFINE c == Candidate(wall[t], counter, prev[t])
  <1>1. Active' = Active /\ Active # {}
    BY DEF Count, Active, IInv, TypeOK
  <1>2. last + 1 < TsMod
    BY <1>1, NoCarryOut
  <1>3. (prev[t] + 1) % TsMod = prev[t] + 1 /\ prev[t] + 1 < TsMod
    BY <1>2, TsModType DEF IInv, TypeOK, Held
  <1>4. /\ wall[t] * CounterMod + counter < (seen + 1) * CounterMod
        /\ wall[t] * CounterMod \in Nat
    <2>1. wall[t] \in Nat /\ seen \in Nat /\ wall[t] <= seen
      BY DEF IInv, TypeOK, Held, Count
    <2> QED
      BY <2>1, BelowNextTick DEF IInv, TypeOK
  <1>5. /\ (seen + 1) * CounterMod \in Nat
        /\ (seen + 1) * CounterMod < TsMod
    BY TicksFit, TsModType, ClockAssumption DEF IInv, TypeOK
  <1>6. /\ c \in 0..TsMod - 1
        /\ c > prev[t]
        /\ c >= wall[t] * CounterMod
        /\ c = prev[t] + 1 \/ c < (seen + 1) * CounterMod
    BY <1>3, <1>4, <1>5, TsModType, ClockAssumption DEF Candidate, IInv, TypeOK
  <1> HIDE DEF c
  <1>7. /\ cand' = [cand EXCEPT ![t] = c]
        /\ pc' = [pc EXCEPT ![t] = "swap"]
        /\ counter' = (counter + 1) % CounterMod
        /\ UNCHANGED <<last, wall, prev, begun, done, highest, seen>>
    BY DEF Count, c
  <1>8. counter' \in 0..CounterMod - 1
    BY <1>7, ClockAssumption DEF IInv, TypeOK
  <1>9. TypeOK'
    BY <1>6, <1>7, <1>8 DEF IInv, TypeOK
  <1>10. Held'
    <2> SUFFICES ASSUME NEW u \in Thread PROVE Held!(u)'
      BY DEF Held
    <2>1. CASE u = t
      BY <1>6, <1>7, <2>1 DEF IInv, Held, TypeOK, Count
    <2>2. CASE u # t
      BY <1>7, <2>2 DEF IInv, Held, TypeOK
    <2> QED
      BY <2>1, <2>2
  <1> QED
    BY <1>1, <1>7, <1>9, <1>10 DEF IInv, CallsCounted

\* The exchange succeeds, and next() returns its candidate.
LEMMA SwapIInv ==
    ASSUME IInv, NEW t \in Thread, Swap(t)
    PROVE  IInv' /\ cand[t] > highest
  <1>1. cand[t] > last /\ cand[t] \in 0..TsMod - 1 /\ last \in Nat
    BY TsModType DEF Swap, IInv, Held, TypeOK
  <1>2. TypeOK'
    BY TsModType, ClockAssumption DEF Swap, Larger, IInv, TypeOK
  <1>3. CallsCounted'
    <2>1. Active' = Active \ {t} /\ t \in Active
      BY DEF Swap, Active, IInv, TypeOK
    <2>2. Cardinality(Active') = Cardinality(Active) - 1
      BY <2>1, ActiveFinite, FS_RemoveElement
    <2> QED
      BY <2>2, ActiveFinite DEF Swap, IInv, CallsCounted, TypeOK
  <1>4. (seen + 1) * CounterMod \in Nat
    BY TicksFit DEF IInv, TypeOK
  <1>5. last' < (seen' + 1) * CounterMod + done'
    <2>1. cand[t] = last + 1 \/ cand[t] < (seen + 1) * CounterMod
      BY DEF Swap, IInv, Held
    <2> QED
      BY <2>1, <1>1, <1>4 DEF Swap, IInv, TypeOK
  <1>6. Held'
    <2> SUFFICES ASSUME NEW u \in Thread PROVE Held!(u)'
      BY DEF Held
    <2>1. CASE u = t
      BY <2>1, <1>1 DEF Swap, IInv, Held, TypeOK
    <2>2. CASE u # t
      BY <2>2, <1>1, TsModType DEF Swap, IInv, Held, TypeOK
    <2> QED
      BY <2>1, <2>2
  <1>7. highest' <= last' /\ cand[t] > highest
    BY <1>1, TsModType DEF Swap, Larger, IInv, TypeOK
  <1> QED
    BY <1>2, <1>3, <1>5, <1>6, <1>7 DEF IInv

\* The exchange fails, and the loop goes round again.
LEMMA SwapFailsIInv ==
    ASSUME IInv, NEW t \in Thread, SwapFails(t)
    PROVE  IInv'
  <1>1. TypeOK'
    BY TsModType, ClockAssumption DEF SwapFails, IInv, TypeOK, TsMod
  <1>2. Active' = Active
    BY DEF SwapFails, Active, IInv, TypeOK
  <1>3. Held'
    BY TsModType DEF SwapFails, IInv, Held, TypeOK
  <1> QED
    BY <1>1, <1>2, <1>3 DEF SwapFails, IInv, CallsCounted

\* Every step of every thread keeps the invariant.
LEMMA NextIInv == IInv /\ [Next]_vars => IInv'
  <1> SUFFICES ASSUME IInv, [Next]_vars PROVE IInv'
    OBVIOUS
  <1>1. CASE UNCHANGED vars
    BY <1>1 DEF vars, IInv, TypeOK, CallsCounted, Active, Held
  <1>2. CASE Next
    BY <1>2, BeginIInv, LoadLastIInv, CountIInv, SwapIInv, SwapFailsIInv DEF Next
  <1> QED
    BY <1>1, <1>2

(***************************************************************************)
(* The invariant holds in every behaviour of the generator.                *)
(***************************************************************************)
THEOREM Invariance == Spec => []IInv
  BY InitIInv, NextIInv, PTL DEF Spec

(***************************************************************************)
(* next() never returns a timestamp twice, nor one below an earlier one,   *)
(* however its threads interleave and wherever the wall clock goes.        *)
(***************************************************************************)
THEOREM Increasing == Spec => StrictlyIncreasing
  <1>1. IInv /\ [Next]_vars =>
            [\A t \in Thread :
                pc[t] = "swap" /\ pc'[t] = "idle" => cand[t] > highest]_vars
    <2> SUFFICES ASSUME IInv, Next, NEW t \in Thread,
                        pc[t] = "swap", pc'[t] = "idle"
                 PROVE  cand[t] > highest
      OBVIOUS
    <2>1. PICK u \in Thread :
              Begin(u) \/ LoadLast(u) \/ Count(u) \/ Swap(u) \/ SwapFails(u)
      BY DEF Next
    <2>2. Swap(t)
      BY <2>1 DEF Begin, LoadLast, Count, Swap, SwapFails, IInv, TypeOK
    <2> QED
      BY <2>2, SwapIInv
  <1> QED
    BY <1>1, Invariance, PTL DEF Spec, StrictlyIncreasing

(***************************************************************************)
(* A timestamp is never before the wall time its call read, and ahead of   *)
(* the latest wall time by at most one per call that returned.             *)
(***************************************************************************)
THEOREM Drift == Spec => []BoundedDrift
  <1>1. IInv => BoundedDrift
    BY DEF IInv, Held, BoundedDrift
  <1> QED
    BY <1>1, Invariance, PTL
=============================================================================
