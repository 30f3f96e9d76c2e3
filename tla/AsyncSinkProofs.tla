-------------------------- MODULE AsyncSinkProofs --------------------------
(***************************************************************************)
(* For any number of threads and records, any capacity, batch size and     *)
(* overflow policy: AsyncSink loses, duplicates and strands no record, a   *)
(* flush() covers what was accepted before it, and the records of a thread *)
(* stay in order while the sink runs.                                      *)
(*                                                                         *)
(* The records that were accepted are one sequence: what the sinks got,    *)
(* then the worker's batch, then the ring.  A submit() appends to it, the  *)
(* worker only moves the two borders, and a delivery by the caller inserts *)
(* at the first border, which happens after stop() only.                   *)
(***************************************************************************)
EXTENDS AsyncSink, SequenceTheorems, TLAPS

\* Steps without a prover of their own get more than the default time.
USE SMTT(30)

OnItsWay == delivered \o batch \o Queued

Held == {rec[t] : t \in Thread} \ {none}

\* In a sequence of records, those of one thread ascend.
Ascending(w) ==
    \A i, j \in DOMAIN w : i < j /\ w[i][1] = w[j][1] => w[i][2] < w[j][2]

-----------------------------------------------------------------------------
(***************************************************************************)
(* The invariant.                                                          *)
(***************************************************************************)

\* tail_ is size_ places behind head_, and the places between hold records.
RingShape ==
    /\ tail = (head + size) % Capacity
    /\ Queued \in Seq(Record)

\* The worker has a batch only while it delivers it.
BatchShape == worker # "deliver" => batch = <<>> /\ inflight = 0

\* A record is held by the submit() that waits with it or delivers it, and is
\* the last one of its thread; the latter only after stop() began.
Holding ==
    \A t \in Thread :
        /\ rec[t] # none => /\ rec[t] = <<t, count[t]>>
                            /\ pc[t] \in {"parking", "waiting", "woken", "inline"}
        /\ pc[t] = "inline" => rec[t] # none /\ ~running

\* The worker leaves an empty ring, and running_ stays false.
Stranding == worker = "exited" => ~running /\ size = 0

Owing == \A t \in Thread : owed[t] \subseteq Range(OnItsWay)

InOrder == running => Ascending(OnItsWay)

Shape == TypeOK /\ RingShape /\ BatchShape /\ Holding /\ Stranding

SinkInv == Shape /\ EachRecordOnce /\ Owing /\ InOrder /\ FlushCoversAccepted

-----------------------------------------------------------------------------
(***************************************************************************)
(* Lemmas about sequences.                                                 *)
(***************************************************************************)

(***************************************************************************)
(* An index of the ring wraps around at most once.                         *)
(***************************************************************************)
LEMMA Wrap ==
    \A x \in 0..(Capacity + Capacity - 1) :
        x % Capacity = IF x < Capacity THEN x ELSE x - Capacity
<1>. Capacity \in Nat \ {0}
  BY Zenon, SinkAssumption
<1>. TAKE x \in 0..(Capacity + Capacity - 1)
<1>1. CASE x < Capacity
  BY <1>1
<1>2. CASE x >= Capacity
  BY <1>2
<1>. QED
  BY <1>1, <1>2

(***************************************************************************)
(* The elements of a concatenation.                                        *)
(***************************************************************************)
LEMMA ConcatShape ==
    ASSUME NEW S, NEW s \in Seq(S), NEW q \in Seq(S), NEW L, NEW M,
           L = Len(s), M = Len(q)
    PROVE  /\ L \in Nat /\ M \in Nat
           /\ s \o q \in Seq(S) /\ Len(s \o q) = L + M
           /\ DOMAIN s = 1..L /\ DOMAIN q = 1..M /\ DOMAIN (s \o q) = 1..(L + M)
           /\ \A i \in 1..L : (s \o q)[i] = s[i]
           /\ \A i \in 1..M : (s \o q)[L + i] = q[i]
<1>1. L \in Nat /\ M \in Nat /\ DOMAIN s = 1..L /\ DOMAIN q = 1..M
  BY Zenon, LenProperties
<1>2. /\ s \o q \in Seq(S) /\ Len(s \o q) = L + M
      /\ \A i \in 1..(L + M) : (s \o q)[i] = IF i <= L THEN s[i] ELSE q[i - L]
  BY Zenon, ConcatProperties
<1>3. PICK w \in Seq(S) : w = s \o q
  BY <1>2, Zenon
<1>4. /\ DOMAIN w = 1..(L + M)
      /\ \A i \in 1..(L + M) : w[i] = IF i <= L THEN s[i] ELSE q[i - L]
  BY ONLY <1>2, <1>3, LenProperties, w \in Seq(S)
<1>5. \A i \in 1..L : i \in 1..(L + M) /\ i <= L
  BY <1>1
<1>6. \A i \in 1..M : L + i \in 1..(L + M) /\ ~(L + i <= L) /\ (L + i) - L = i
  BY <1>1
<1>7. \A i \in 1..L : w[i] = s[i]
  BY ONLY <1>4, <1>5
<1>8. \A i \in 1..M : w[L + i] = q[i]
  BY ONLY <1>4, <1>6
<1>. QED
  BY <1>1, <1>2, <1>3, <1>4, <1>7, <1>8, Zenon

\* v is w with r put behind the first L of its L + M elements
InsertedAt(w, v, r, L, M) ==
    /\ L \in Nat /\ M \in Nat
    /\ DOMAIN w = 1..(L + M) /\ DOMAIN v = 1..(L + 1 + M)
    /\ \A i \in 1..L : v[i] = w[i]
    /\ v[L + 1] = r
    /\ \A i \in 1..M : v[L + 1 + i] = w[L + i]

(***************************************************************************)
(* A new element leaves a sequence without repetitions.                    *)
(***************************************************************************)
LEMMA InsertedOnce ==
    ASSUME NEW w, NEW v, NEW r, NEW L, NEW M,
           InsertedAt(w, v, r, L, M), IsInjective(w), r \notin Range(w)
    PROVE  IsInjective(v) /\ Range(v) = Range(w) \cup {r}
<1>. /\ L \in Nat /\ M \in Nat
     /\ DOMAIN w = 1..(L + M) /\ DOMAIN v = 1..(L + 1 + M)
     /\ \A i \in 1..L : v[i] = w[i]
     /\ v[L + 1] = r
     /\ \A i \in 1..M : v[L + 1 + i] = w[L + i]
  BY Zenon DEF InsertedAt
<1>. /\ \A i, j \in 1..(L + M) : w[i] = w[j] => i = j
     /\ \A i \in 1..(L + M) : w[i] # r
  BY Zenon DEF IsInjective, Range
<1>1. ASSUME NEW i \in 1..(L + 1 + M), i # L + 1
      PROVE  \E k \in 1..(L + M) : v[i] = w[k] /\ (k = i \/ k = i - 1) /\ (k = i <=> i <= L)
  <2>1. CASE i <= L
    <3>1. i \in 1..L /\ i \in 1..(L + M)
      BY <2>1
    <3>2. v[i] = w[i]
      BY Zenon, <3>1
    <3>. QED
      BY Zenon, <2>1, <3>1, <3>2
  <2>2. CASE ~(i <= L)
    <3>1. i - (L + 1) \in 1..M /\ L + 1 + (i - (L + 1)) = i /\ L + (i - (L + 1)) = i - 1
          /\ i - 1 \in 1..(L + M) /\ i - 1 # i
      BY <1>1, <2>2
    <3>2. v[i] = w[i - 1]
      BY Zenon, <3>1
    <3>. QED
      BY Zenon, <2>2, <3>1, <3>2
  <2>. QED
    BY Zenon, <2>1, <2>2
<1>2. ASSUME NEW i \in 1..(L + 1 + M), NEW j \in 1..(L + 1 + M), v[i] = v[j]
      PROVE  i = j
  <2>1. CASE i = L + 1 \/ j = L + 1
    BY <1>1, <1>2, <2>1
  <2>2. CASE i # L + 1 /\ j # L + 1
    <3>1. PICK k \in 1..(L + M) : v[i] = w[k] /\ (k = i \/ k = i - 1) /\ (k = i <=> i <= L)
      BY Zenon, <1>1, <2>2
    <3>2. PICK m \in 1..(L + M) : v[j] = w[m] /\ (m = j \/ m = j - 1) /\ (m = j <=> j <= L)
      BY Zenon, <1>1, <2>2
    <3>3. k = m
      <4>1. w[k] = w[m]
        BY Zenon, <1>2, <3>1, <3>2
      <4>. QED
        BY Zenon, <4>1
    <3>. QED
      BY <2>2, <3>1, <3>2, <3>3
  <2>. QED
    BY Zenon, <2>1, <2>2
<1>3. ASSUME NEW i \in 1..(L + M) PROVE w[i] \in Range(v)
  <2>1. CASE i \in 1..L
    <3>1. i \in 1..(L + 1 + M)
      BY <2>1
    <3>. QED
      BY Zenon, <2>1, <3>1 DEF Range
  <2>2. CASE i \notin 1..L
    <3>1. i - L \in 1..M /\ L + (i - L) = i /\ L + 1 + (i - L) \in 1..(L + 1 + M)
      BY <2>2
    <3>2. v[L + 1 + (i - L)] = w[i]
      BY Zenon, <3>1
    <3>. QED
      BY Zenon, <3>1, <3>2 DEF Range
  <2>. QED
    BY Zenon, <2>1, <2>2
<1>4. L + 1 \in 1..(L + 1 + M)
  OBVIOUS
<1>5. r \in Range(v)
  BY Zenon, <1>4 DEF Range
<1>6. \A i \in 1..(L + 1 + M) : v[i] \in Range(w) \cup {r}
  <2>1. ASSUME NEW i \in 1..(L + 1 + M), i # L + 1
        PROVE  v[i] \in Range(w)
    <3>1. PICK k \in 1..(L + M) : v[i] = w[k]
      BY Zenon, <1>1, <2>1
    <3>. QED
      BY Zenon, <3>1 DEF Range
  <2>. QED
    BY Zenon, <2>1
<1>7. Range(v) \subseteq Range(w) \cup {r}
  BY <1>6 DEF Range
<1>8. Range(w) \subseteq Range(v)
  BY <1>3 DEF Range
<1>. QED
  BY <1>2, <1>5, <1>7, <1>8, Zenon DEF IsInjective

(***************************************************************************)
(* So does a delivery by the caller, in front of q.                        *)
(***************************************************************************)
LEMMA InsertOnce ==
    ASSUME NEW S, NEW s \in Seq(S), NEW q \in Seq(S), NEW r \in S,
           IsInjective(s \o q), r \notin Range(s \o q)
    PROVE  /\ IsInjective(Append(s, r) \o q)
           /\ Range(Append(s, r) \o q) = Range(s \o q) \cup {r}
<1>1. PICK L, M, w, a : L = Len(s) /\ M = Len(q) /\ w = s \o q /\ a = Append(s, r)
  BY Zenon
<1>2. PICK v : v = a \o q
  BY Zenon
<1>3. /\ L \in Nat /\ M \in Nat
      /\ DOMAIN w = 1..(L + M)
      /\ \A i \in 1..L : w[i] = s[i]
      /\ \A i \in 1..M : w[L + i] = q[i]
  BY <1>1, ConcatShape
<1>4. /\ a \in Seq(S) /\ Len(a) = L + 1
      /\ \A i \in 1..L : a[i] = s[i]
      /\ a[L + 1] = r
  BY <1>1, AppendProperties
<1>5. /\ DOMAIN v = 1..(L + 1 + M)
      /\ \A i \in 1..(L + 1) : v[i] = a[i]
      /\ \A i \in 1..M : v[L + 1 + i] = q[i]
  <2>1. PICK K : K = L + 1
    BY Zenon
  <2>2. K = Len(a)
    BY <1>4, <2>1, Zenon
  <2>3. /\ DOMAIN v = 1..(K + M)
        /\ \A i \in 1..K : v[i] = a[i]
        /\ \A i \in 1..M : v[K + i] = q[i]
    BY ONLY SMTT(30), <1>1, <1>2, <1>4, <2>2, ConcatShape, q \in Seq(S)
  <2>. QED
    BY <2>1, <2>3, Zenon
<1>6. \A i \in 1..L : i \in 1..(L + 1)
  BY <1>3
<1>7. L + 1 \in 1..(L + 1)
  BY <1>3
<1>8. (\A i \in 1..L : v[i] = w[i]) /\ v[L + 1] = r /\ (\A i \in 1..M : v[L + 1 + i] = w[L + i])
  BY <1>3, <1>4, <1>5, <1>6, <1>7, Zenon
<1>9. InsertedAt(w, v, r, L, M)
  BY <1>3, <1>5, <1>8, Zenon DEF InsertedAt
<1>. QED
  BY <1>1, <1>2, <1>9, InsertedOnce, Zenon

(***************************************************************************)
(* And a submit(), at the end.                                             *)
(***************************************************************************)
LEMMA AppendOnce ==
    ASSUME NEW S, NEW w \in Seq(S), NEW r \in S, IsInjective(w), r \notin Range(w)
    PROVE  /\ IsInjective(Append(w, r))
           /\ Range(Append(w, r)) = Range(w) \cup {r}
<1>1. PICK L, v : L = Len(w) /\ v = Append(w, r)
  BY Zenon
<1>2. L \in Nat /\ DOMAIN w = 1..L
  BY Zenon, <1>1, LenProperties
<1>3. /\ v \in Seq(S) /\ Len(v) = L + 1
      /\ \A i \in 1..L : v[i] = w[i]
      /\ v[L + 1] = r
  BY <1>1, AppendProperties
<1>4. DOMAIN v = 1..(L + 1)
  BY Zenon, <1>3, LenProperties
<1>5. L + 0 = L /\ L + 1 + 0 = L + 1 /\ 1..0 = {} /\ 0 \in Nat
  BY <1>2
<1>6. PICK M \in Nat : L + M = L /\ L + 1 + M = L + 1 /\ 1..M = {}
  BY <1>5, Zenon
<1>7. InsertedAt(w, v, r, L, M)
  BY <1>2, <1>3, <1>4, <1>6, Zenon DEF InsertedAt
<1>. QED
  BY <1>1, <1>7, InsertedOnce, Zenon

(***************************************************************************)
(* A delivery takes nothing away.                                          *)
(***************************************************************************)
LEMMA RangeAppend ==
    ASSUME NEW S, NEW w \in Seq(S), NEW r \in S
    PROVE  Range(w) \subseteq Range(Append(w, r))
<1>1. PICK L \in Nat : L = Len(w) /\ DOMAIN w = 1..L
  BY Zenon, LenProperties
<1>2. PICK a \in Seq(S) : a = Append(w, r)
  BY Zenon, AppendProperties
<1>3. DOMAIN a = 1..(L + 1) /\ \A i \in 1..L : a[i] = w[i]
  BY <1>1, <1>2, AppendProperties, LenProperties
<1>4. \A i \in 1..L : i \in 1..(L + 1)
  BY <1>1
<1>5. Range(w) \subseteq Range(a)
  BY ONLY <1>1, <1>3, <1>4, Zenon DEF Range
<1>. QED
  BY <1>2, <1>5, Zenon

(***************************************************************************)
(* Records of a thread still ascend behind one that is higher than all.    *)
(***************************************************************************)
LEMMA AppendAscending ==
    ASSUME NEW S, NEW w \in Seq(S), NEW r \in S, Ascending(w),
           \A i \in DOMAIN w : w[i][1] = r[1] => w[i][2] < r[2]
    PROVE  Ascending(Append(w, r))
<1>1. PICK L \in Nat : L = Len(w) /\ DOMAIN w = 1..L
  BY Zenon, LenProperties
<1>2. /\ DOMAIN Append(w, r) = 1..(L + 1)
      /\ \A i \in 1..L : Append(w, r)[i] = w[i]
      /\ Append(w, r)[L + 1] = r
  BY <1>1, AppendProperties, LenProperties
<1>3. SUFFICES ASSUME NEW i \in 1..(L + 1), NEW j \in 1..(L + 1), i < j,
                      Append(w, r)[i][1] = Append(w, r)[j][1]
               PROVE  Append(w, r)[i][2] < Append(w, r)[j][2]
  BY Zenon, <1>2 DEF Ascending
<1>4. i \in 1..L /\ Append(w, r)[i] = w[i]
  BY <1>2, <1>3
<1>5. CASE j = L + 1
  BY Zenon, <1>1, <1>2, <1>3, <1>4, <1>5
<1>6. CASE j # L + 1
  <2>1. j \in 1..L /\ Append(w, r)[j] = w[j]
    BY <1>2, <1>6
  <2>. QED
    BY Zenon, <1>1, <1>3, <1>4, <2>1 DEF Ascending
<1>. QED
  BY Zenon, <1>5, <1>6

(***************************************************************************)
(* What is true of the whole way is true of its first part.                *)
(***************************************************************************)
LEMMA PrefixAscending ==
    ASSUME NEW S, NEW s \in Seq(S), NEW q \in Seq(S), Ascending(s \o q)
    PROVE  Ascending(s)
<1>1. PICK L \in Nat, M \in Nat : L = Len(s) /\ M = Len(q)
  BY Zenon, LenProperties
<1>2. /\ DOMAIN s = 1..L /\ DOMAIN (s \o q) = 1..(L + M)
      /\ \A i \in 1..L : (s \o q)[i] = s[i]
  BY <1>1, ConcatProperties, LenProperties
<1>. QED
  BY SMTT(30), <1>2 DEF Ascending

(***************************************************************************)
(* How the parts of the way move: a submit() ...                           *)
(***************************************************************************)
LEMMA WayAppend ==
    ASSUME NEW S, NEW d \in Seq(S), NEW b \in Seq(S), NEW q \in Seq(S), NEW r \in S
    PROVE  d \o b \o Append(q, r) = Append(d \o b \o q, r)
<1>1. PICK c, e : c = d \o b /\ e = <<r>>
  BY Zenon
<1>2. c \in Seq(S) /\ c \o q \in Seq(S) /\ e \in Seq(S)
  <2>1. c \in Seq(S)
    BY Zenon, <1>1, ConcatProperties
  <2>2. c \o q \in Seq(S)
    BY Zenon, <2>1, ConcatProperties
  <2>3. <<r>> \in Seq(S)
    OBVIOUS
  <2>. QED
    BY <1>1, <2>1, <2>2, <2>3, Zenon
<1>3. Append(q, r) = q \o e /\ Append(c \o q, r) = (c \o q) \o e
  BY Zenon, <1>1, <1>2, AppendIsConcat
<1>4. (c \o q) \o e = c \o (q \o e)
  <2>1. PICK x \in Seq(S), y \in Seq(S) : x = c /\ y = e
    BY <1>2, Zenon
  <2>2. (x \o q) \o y = x \o (q \o y)
    BY ONLY x \in Seq(S), q \in Seq(S), y \in Seq(S), ConcatAssociative, SMTT(30)
  <2>. QED
    BY <2>1, <2>2, Zenon
<1>. QED
  BY <1>1, <1>3, <1>4, Zenon

(***************************************************************************)
(* ... the worker that takes n records from the ring ...                   *)
(***************************************************************************)
LEMMA WayTake ==
    ASSUME NEW S, NEW d \in Seq(S), NEW q \in Seq(S), NEW n \in 0..Len(q)
    PROVE  d \o SubSeq(q, 1, n) \o SubSeq(q, n + 1, Len(q)) = d \o <<>> \o q
<1>1. PICK L \in Nat : L = Len(q)
  BY Zenon, LenProperties
<1>2. 1 \in 1..(L + 1) /\ n \in (1 - 1)..L /\ L \in n..L
  BY <1>1
<1>3. SubSeq(q, 1, n) \o SubSeq(q, n + 1, L) = SubSeq(q, 1, L)
  BY Zenon, <1>1, <1>2, ConcatAdjacentSubSeq
<1>4. SubSeq(q, 1, L) = q
  BY Zenon, <1>1, SubSeqFull
<1>5. PICK a, b : a = SubSeq(q, 1, n) /\ b = SubSeq(q, n + 1, L)
  BY Zenon
<1>6. \A i \in 1..L : q[i] \in S
  BY Zenon, <1>1, ElementOfSeq
<1>7. /\ \A i \in 1..n : i \in 1..L
      /\ \A i \in (n + 1)..L : i \in 1..L
      /\ n \in Int /\ n + 1 \in Int /\ L \in Int /\ 1 \in Int
  BY <1>1
<1>8. a \in Seq(S) /\ b \in Seq(S)
  BY Zenon, <1>5, <1>6, <1>7, SubSeqProperties
<1>9. (d \o a) \o b = d \o (a \o b)
  BY ONLY d \in Seq(S), <1>8, ConcatAssociative, SMTT(30)
<1>10. d \o <<>> = d
  BY Zenon, ConcatEmptySeq
<1>. QED
  BY <1>1, <1>3, <1>4, <1>5, <1>9, <1>10, Zenon

(***************************************************************************)
(* ... and the worker that delivers one.                                   *)
(***************************************************************************)
LEMMA WayDeliver ==
    ASSUME NEW S, NEW d \in Seq(S), NEW b \in Seq(S), NEW q \in Seq(S), b # <<>>
    PROVE  Append(d, Head(b)) \o Tail(b) \o q = d \o b \o q
<1>1. PICK L \in Nat \ {0} : L = Len(b)
  BY Zenon, EmptySeq
<1>2. 1 \in 1..L /\ L \in 1..L /\ 1 + 1 = 2
  BY <1>1
<1>3. PICK h, u : h = Head(b) /\ u = Tail(b)
  BY Zenon
<1>4. h \in S /\ u \in Seq(S)
  BY Zenon, <1>3, HeadTailProperties
<1>5. SubSeq(b, 1, L) = b
  BY Zenon, <1>1, SubSeqFull
<1>6. SubSeq(b, 1, L) = <<b[1]>> \o SubSeq(b, 1 + 1, L)
  BY Zenon, <1>1, <1>2, SubSeqRecursiveFirst
<1>7. u = SubSeq(b, 2, L)
  BY Zenon, <1>1, <1>3, TailIsSubSeq
<1>8. h = b[1]
  BY <1>3
<1>9. PICK e : e = <<h>>
  BY Zenon
<1>10. e \o u = b
  BY <1>2, <1>5, <1>6, <1>7, <1>8, <1>9, Zenon
<1>11. e \in Seq(S)
  BY <1>4, <1>9
<1>12. Append(d, h) = d \o e
  BY Zenon, <1>4, <1>9, AppendIsConcat
<1>13. (d \o e) \o u = d \o (e \o u)
  <2>1. PICK x \in Seq(S), y \in Seq(S) : x = e /\ y = u
    BY <1>4, <1>11, Zenon
  <2>2. (d \o x) \o y = d \o (x \o y)
    BY ONLY d \in Seq(S), x \in Seq(S), y \in Seq(S), ConcatAssociative, SMTT(30)
  <2>. QED
    BY <2>1, <2>2, Zenon
<1>. QED
  BY <1>3, <1>10, <1>12, <1>13, Zenon

-----------------------------------------------------------------------------
(***************************************************************************)
(* Lemmas about the ring.                                                  *)
(***************************************************************************)

\* The n records of the ring f from place h on.
RingSeq(f, h, n) == [i \in 1..n |-> f[(h + i - 1) % Capacity]]

IsRing(f, h, n) ==
    /\ f \in [Slot -> Record \cup {none}] /\ h \in Slot /\ n \in 0..Capacity
    /\ RingSeq(f, h, n) \in Seq(Record)

\* The ring g is f with r behind its n records.
IsWritten(f, g, h, n, r) ==
    /\ IsRing(f, h, n) /\ n < Capacity /\ r \in Record
    /\ g = [f EXCEPT ![(h + n) % Capacity] = r]

(***************************************************************************)
(* A function on 1..n is a sequence.                                       *)
(***************************************************************************)
LEMMA FunctionIsSeq ==
    ASSUME NEW S, NEW n \in Nat, NEW f \in [1..n -> S]
    PROVE  f \in Seq(S) /\ Len(f) = n
<1>1. f \in Seq(S)
  BY Zenon, SeqDef
<1>2. PICK L \in Nat : L = Len(f) /\ DOMAIN f = 1..L
  BY Zenon, <1>1, LenProperties
<1>3. 1..L = 1..n
  BY Zenon, <1>2
<1>4. L = n
  BY <1>3
<1>. QED
  BY <1>1, <1>2, <1>4, Zenon

(***************************************************************************)
(* Writing queue_[tail_] appends: the place is none of the others.         *)
(***************************************************************************)
LEMMA RingAppend ==
    ASSUME NEW f, NEW g, NEW h, NEW n, NEW r, IsWritten(f, g, h, n, r)
    PROVE  RingSeq(g, h, n + 1) = Append(RingSeq(f, h, n), r)
<1>. /\ IsRing(f, h, n) /\ n < Capacity /\ r \in Record
     /\ g = [f EXCEPT ![(h + n) % Capacity] = r]
  BY Zenon DEF IsWritten
<1>. Capacity \in Nat \ {0}
  BY Zenon, SinkAssumption
<1>. /\ f \in [Slot -> Record \cup {none}] /\ h \in Slot /\ n \in 0..Capacity
     /\ RingSeq(f, h, n) \in Seq(Record)
  BY Zenon DEF IsRing
<1>. h \in Nat /\ h < Capacity /\ n \in Nat
  BY DEF Slot
<1>1. PICK q : q = RingSeq(f, h, n)
  BY Zenon
<1>2. PICK v : v = RingSeq(g, h, n + 1)
  BY Zenon
<1>3. /\ (h + n) % Capacity \in Slot
      /\ \A i \in 1..n : (h + i - 1) % Capacity \in Slot
      /\ \A i \in 1..n : (h + i - 1) % Capacity # (h + n) % Capacity
  <2>1. (h + n) % Capacity = IF h + n < Capacity THEN h + n ELSE h + n - Capacity
    <3>1. PICK x \in 0..(Capacity + Capacity - 1) : x = h + n
      BY DEF Slot
    <3>2. x % Capacity = IF x < Capacity THEN x ELSE x - Capacity
      BY Wrap, Zenon
    <3>. QED
      BY <3>1, <3>2
  <2>2. ASSUME NEW i \in 1..n
        PROVE  (h + i - 1) % Capacity = IF h + i - 1 < Capacity THEN h + i - 1 ELSE h + i - 1 - Capacity
    <3>1. PICK x \in 0..(Capacity + Capacity - 1) : x = h + i - 1
      BY DEF Slot
    <3>2. x % Capacity = IF x < Capacity THEN x ELSE x - Capacity
      BY Wrap, Zenon
    <3>. QED
      BY <3>1, <3>2
  <2>3. PICK y : y = (h + n) % Capacity
    BY Zenon
  <2>4. y = IF h + n < Capacity THEN h + n ELSE h + n - Capacity
    BY <2>1, <2>3, Zenon
  <2>5. y \in Slot
    BY <2>4 DEF Slot
  <2>6. ASSUME NEW i \in 1..n
        PROVE  (h + i - 1) % Capacity \in Slot /\ (h + i - 1) % Capacity # y
    <3>1. PICK z : z = (h + i - 1) % Capacity
      BY Zenon
    <3>2. z = IF h + i - 1 < Capacity THEN h + i - 1 ELSE h + i - 1 - Capacity
      BY <2>2, <3>1, Zenon
    <3>3. z \in Slot /\ z # y
      BY <2>4, <3>2 DEF Slot
    <3>. QED
      BY <3>1, <3>3, Zenon
  <2>. QED
    BY <2>3, <2>5, <2>6, Zenon
<1>4. q \in Seq(Record) /\ DOMAIN q = 1..n /\ Len(q) = n
      /\ \A i \in 1..n : q[i] = f[(h + i - 1) % Capacity]
  <2>1. q = [i \in 1..n |-> f[(h + i - 1) % Capacity]]
    BY Zenon, <1>1 DEF RingSeq
  <2>2. DOMAIN q = 1..n /\ \A i \in 1..n : q[i] = f[(h + i - 1) % Capacity]
    BY <2>1, Zenon
  <2>3. q \in [1..n -> Record]
    BY Zenon, <1>1, <2>2, LenProperties
  <2>. QED
    BY Zenon, <1>1, <2>2, <2>3, FunctionIsSeq
<1>5. DOMAIN v = 1..(n + 1) /\ \A i \in 1..(n + 1) : v[i] = g[(h + i - 1) % Capacity]
  BY Zenon, <1>2 DEF RingSeq
<1>6. \A i \in 1..n : i \in 1..(n + 1) /\ v[i] = q[i]
  BY <1>1, <1>3, <1>4, <1>5
<1>7. v[n + 1] = r
  <2>1. n + 1 \in 1..(n + 1) /\ h + (n + 1) - 1 = h + n
    BY DEF Slot
  <2>2. g[(h + n) % Capacity] = r
    BY Zenon, <1>1, <1>3
  <2>. QED
    BY Zenon, <1>5, <2>1, <2>2
<1>8. \A i \in 1..(n + 1) : i \in 1..n \/ i = n + 1
  OBVIOUS
<1>9. v \in [1..(n + 1) -> Record]
  <2>1. \A i \in 1..n : q[i] \in Record
    BY Zenon, <1>4, ElementOfSeq
  <2>2. \A i \in 1..(n + 1) : v[i] \in Record
    BY Zenon, <1>6, <1>7, <1>8, <2>1
  <2>3. v = [i \in 1..(n + 1) |-> v[i]]
    BY Zenon, <1>2, <1>5 DEF RingSeq
  <2>. QED
    BY Zenon, <2>2, <2>3
<1>10. v \in Seq(Record) /\ Len(v) = n + 1
  BY <1>9, FunctionIsSeq
<1>11. PICK a : a = Append(q, r)
  BY Zenon
<1>12. a \in Seq(Record) /\ Len(a) = n + 1 /\ (\A i \in 1..n : a[i] = q[i]) /\ a[n + 1] = r
  BY <1>4, <1>11, AppendProperties
<1>13. \A i \in 1..(n + 1) : v[i] = a[i]
  BY <1>6, <1>7, <1>8, <1>12, Zenon
<1>14. v = a
  BY Zenon, <1>10, <1>12, <1>13, SeqEqual
<1>. QED
  BY <1>1, <1>2, <1>11, <1>14, Zenon

(***************************************************************************)
(* Moving head_ by k leaves all but the first k.                           *)
(***************************************************************************)
LEMMA RingShift ==
    ASSUME NEW f, NEW h, NEW n, IsRing(f, h, n), NEW k \in 0..n
    PROVE  /\ (h + k) % Capacity \in Slot
           /\ (((h + k) % Capacity) + (n - k)) % Capacity = (h + n) % Capacity
           /\ Len(RingSeq(f, h, n)) = n
           /\ RingSeq(f, (h + k) % Capacity, n - k) = SubSeq(RingSeq(f, h, n), k + 1, n)
           /\ SubSeq(RingSeq(f, h, n), 1, k) \in Seq(Record)
           /\ Len(SubSeq(RingSeq(f, h, n), 1, k)) = k
           /\ SubSeq(RingSeq(f, h, n), k + 1, n) \in Seq(Record)
<1>. Capacity \in Nat \ {0}
  BY Zenon, SinkAssumption
<1>. /\ f \in [Slot -> Record \cup {none}] /\ h \in Slot /\ n \in 0..Capacity
     /\ RingSeq(f, h, n) \in Seq(Record)
  BY Zenon DEF IsRing
<1>. n \in Nat /\ k \in Nat /\ k <= n /\ n <= Capacity /\ h \in Nat /\ h < Capacity
  BY DEF Slot
<1>1. PICK m : m = (h + k) % Capacity
  BY Zenon
<1>2. m = IF h + k < Capacity THEN h + k ELSE h + k - Capacity
  <2>1. PICK x \in 0..(Capacity + Capacity - 1) : x = h + k
    OBVIOUS
  <2>2. x % Capacity = IF x < Capacity THEN x ELSE x - Capacity
    BY Wrap, Zenon
  <2>. QED
    BY <1>1, <2>1, <2>2
<1>3. m \in Nat /\ m < Capacity
  BY <1>2
<1>4. (m + (n - k)) % Capacity = (h + n) % Capacity
  <2>1. CASE h + k < Capacity
    BY <1>2, <2>1
  <2>2. CASE ~(h + k < Capacity)
    <3>1. /\ m + (n - k) = h + n - Capacity
          /\ h + n - Capacity \in 0..(Capacity + Capacity - 1)
          /\ h + n \in 0..(Capacity + Capacity - 1)
          /\ h + n - Capacity < Capacity /\ ~(h + n < Capacity)
      BY <1>2, <2>2
    <3>2. (h + n) % Capacity = h + n - Capacity
      <4>1. PICK x \in 0..(Capacity + Capacity - 1) : x = h + n
        BY <3>1, Zenon
      <4>2. x % Capacity = IF x < Capacity THEN x ELSE x - Capacity
        BY Wrap, Zenon
      <4>. QED
        BY <3>1, <4>1, <4>2
    <3>3. (h + n - Capacity) % Capacity = h + n - Capacity
      BY <3>1, Wrap, Zenon
    <3>. QED
      BY Zenon, <3>1, <3>2, <3>3
  <2>. QED
    BY Zenon, <2>1, <2>2
<1>5. PICK q, v : q = RingSeq(f, h, n) /\ v = RingSeq(f, m, n - k)
  BY Zenon
<1>6. q \in Seq(Record) /\ DOMAIN q = 1..n /\ Len(q) = n
      /\ \A i \in 1..n : q[i] = f[(h + i - 1) % Capacity]
  <2>1. q = [i \in 1..n |-> f[(h + i - 1) % Capacity]]
    BY Zenon, <1>5 DEF RingSeq
  <2>2. DOMAIN q = 1..n /\ \A i \in 1..n : q[i] = f[(h + i - 1) % Capacity]
    BY <2>1, Zenon
  <2>3. q \in [1..n -> Record]
    BY Zenon, <1>5, <2>2, LenProperties
  <2>. QED
    BY Zenon, <1>5, <2>2, <2>3, FunctionIsSeq
<1>7. \A i \in 1..n : q[i] \in Record
  BY Zenon, <1>6, ElementOfSeq
<1>8. PICK u : u = SubSeq(q, k + 1, n)
  BY Zenon
<1>9. \A i \in (k + 1)..n : i \in 1..n
  OBVIOUS
<1>10. /\ u \in Seq(Record)
       /\ Len(u) = IF k + 1 <= n THEN n - (k + 1) + 1 ELSE 0
       /\ \A i \in 1..(n - (k + 1) + 1) : u[i] = q[(k + 1) + i - 1]
  BY <1>7, <1>8, <1>9, SubSeqProperties
<1>11. Len(u) = n - k /\ \A i \in 1..(n - k) : u[i] = q[k + i]
  <2>1. n - (k + 1) + 1 = n - k /\ (~(k + 1 <= n) => n - k = 0)
    OBVIOUS
  <2>2. \A i \in 1..(n - k) : (k + 1) + i - 1 = k + i
    OBVIOUS
  <2>. QED
    BY Zenon, <1>10, <2>1, <2>2
<1>12. DOMAIN v = 1..(n - k) /\ \A i \in 1..(n - k) : v[i] = f[(m + i - 1) % Capacity]
  BY Zenon, <1>5 DEF RingSeq
<1>13. ASSUME NEW i \in 1..(n - k) PROVE v[i] = u[i]
  <2>1. k + i \in 1..n
    OBVIOUS
  <2>2. (m + i - 1) % Capacity = (h + (k + i) - 1) % Capacity
    <3>1. CASE h + k < Capacity
      BY <1>2, <3>1
    <3>2. CASE ~(h + k < Capacity)
      <4>1. /\ m + i - 1 = h + (k + i) - 1 - Capacity
            /\ m + i - 1 \in 0..(Capacity + Capacity - 1)
            /\ h + (k + i) - 1 \in 0..(Capacity + Capacity - 1)
            /\ m + i - 1 < Capacity /\ ~(h + (k + i) - 1 < Capacity)
        BY <1>2, <3>2
      <4>2. (h + (k + i) - 1) % Capacity = h + (k + i) - 1 - Capacity
        <5>1. PICK x \in 0..(Capacity + Capacity - 1) : x = h + (k + i) - 1
          BY <4>1, Zenon
        <5>2. x % Capacity = IF x < Capacity THEN x ELSE x - Capacity
          BY Wrap, Zenon
        <5>. QED
          BY <4>1, <5>1, <5>2
      <4>3. (m + i - 1) % Capacity = m + i - 1
        BY <4>1, Wrap, Zenon
      <4>. QED
        BY Zenon, <4>1, <4>2, <4>3
    <3>. QED
      BY Zenon, <3>1, <3>2
  <2>. QED
    BY Zenon, <1>6, <1>11, <1>12, <2>1, <2>2
<1>14. v = u
  <2>1. \A i \in 1..(n - k) : u[i] \in Record
    BY Zenon, <1>10, <1>11, ElementOfSeq
  <2>2. v = [i \in 1..(n - k) |-> v[i]]
    BY Zenon, <1>5, <1>12 DEF RingSeq
  <2>3. v \in [1..(n - k) -> Record]
    BY Zenon, <1>13, <2>1, <2>2
  <2>4. v \in Seq(Record) /\ Len(v) = n - k
    BY <2>3, FunctionIsSeq
  <2>. QED
    BY Zenon, <1>10, <1>11, <1>13, <2>4, SeqEqual
<1>15. SubSeq(q, 1, k) \in Seq(Record) /\ Len(SubSeq(q, 1, k)) = k
  <2>1. \A i \in 1..k : i \in 1..n
    OBVIOUS
  <2>2. /\ SubSeq(q, 1, k) \in Seq(Record)
        /\ Len(SubSeq(q, 1, k)) = IF 1 <= k THEN k - 1 + 1 ELSE 0
    BY <1>7, <2>1, SubSeqProperties
  <2>. QED
    BY <2>2
<1>. QED
  BY SMTT(30), <1>1, <1>3, <1>4, <1>5, <1>6, <1>8, <1>10, <1>14, <1>15 DEF Slot

(***************************************************************************)
(* The end of submit().                                                    *)
(***************************************************************************)
LEMMA EnqueueStep ==
    ASSUME TypeOK, RingShape, NEW r \in Record, size < Capacity, Enqueue(r)
    PROVE  /\ queue' \in [Slot -> Record \cup {none}]
           /\ head' \in Slot /\ tail' \in Slot /\ size' \in 0..Capacity
           /\ RingShape'
           /\ Queued' = Append(Queued, r)
<1>. Capacity \in Nat \ {0} /\ Slot = 0..(Capacity - 1)
  BY Zenon, SinkAssumption DEF Slot
<1>1. /\ queue' = [queue EXCEPT ![tail] = r]
      /\ tail' = (tail + 1) % Capacity
      /\ size' = size + 1 /\ head' = head
  BY Zenon DEF Enqueue
<1>2. /\ queue \in [Slot -> Record \cup {none}]
      /\ head \in Slot /\ tail \in Slot /\ size \in Nat /\ size < Capacity
  BY DEF TypeOK
<1>3. tail = (head + size) % Capacity /\ Queued \in Seq(Record)
  BY Zenon DEF RingShape
<1>4. queue' \in [Slot -> Record \cup {none}]
  BY <1>1, <1>2, Zenon
<1>5. size' \in 0..Capacity
  BY <1>1, <1>2
<1>6. tail' \in Slot
  BY <1>1, <1>2
<1>7. Queued = RingSeq(queue, head, size) /\ Queued' = RingSeq(queue', head', size')
  BY Zenon DEF Queued, RingSeq
<1>8. Queued' = Append(Queued, r)
  <2>1. size \in 0..Capacity
    BY <1>2
  <2>2. IsRing(queue, head, size)
    BY <1>2, <1>3, <1>7, <2>1, Zenon DEF IsRing
  <2>3. queue' = [queue EXCEPT ![(head + size) % Capacity] = r]
    BY <1>1, <1>3, Zenon
  <2>4. IsWritten(queue, queue', head, size, r)
    BY <2>2, <2>3, Zenon DEF IsWritten
  <2>5. RingSeq(queue', head, size + 1) = Append(RingSeq(queue, head, size), r)
    BY ONLY <2>4, RingAppend
  <2>. QED
    BY <1>1, <1>7, <2>5, Zenon
<1>9. Queued' \in Seq(Record)
  BY Zenon, <1>3, <1>8, AppendProperties
<1>10. tail' = (head' + size') % Capacity
  <2>1. PICK h \in Nat, n \in Nat : h = head /\ n = size /\ h < Capacity /\ n < Capacity
    BY <1>2
  <2>2. (((h + n) % Capacity) + 1) % Capacity = (h + (n + 1)) % Capacity
    <3>1. PICK x \in 0..(Capacity + Capacity - 1) : x = h + n
      BY <2>1
    <3>2. x % Capacity = IF x < Capacity THEN x ELSE x - Capacity
      BY Wrap, Zenon
    <3>3. CASE x < Capacity
      <4>1. x % Capacity = x
        BY <3>2, <3>3, Zenon
      <4>2. (h + n) % Capacity = h + n
        BY Zenon, <3>1, <4>1
      <4>3. (h + n) + 1 = h + (n + 1)
        OBVIOUS
      <4>. QED
        BY <4>2, <4>3, Zenon
    <3>4. CASE ~(x < Capacity)
      <4>1. (h + n) % Capacity = h + n - Capacity
        BY <3>1, <3>2, <3>4
      <4>2. PICK y \in 0..(Capacity + Capacity - 1) :
              y = h + (n + 1) /\ h + n - Capacity + 1 = y - Capacity /\ ~(y < Capacity)
                /\ y - Capacity \in 0..(Capacity + Capacity - 1) /\ y - Capacity < Capacity
        BY <2>1, <3>1, <3>4
      <4>3. y % Capacity = y - Capacity
        BY <4>2, Wrap, Zenon
      <4>4. (y - Capacity) % Capacity = y - Capacity
        BY <4>2, Wrap, Zenon
      <4>. QED
        BY Zenon, <4>1, <4>2, <4>3, <4>4
    <3>. QED
      BY Zenon, <3>3, <3>4
  <2>. QED
    BY <1>1, <1>3, <2>1, <2>2, Zenon
<1>. QED
  BY <1>1, <1>2, <1>4, <1>5, <1>6, <1>8, <1>9, <1>10, Zenon DEF RingShape

(***************************************************************************)
(* The worker's copy of the first n records, and the loop of stop().       *)
(***************************************************************************)
LEMMA DequeueStep ==
    ASSUME TypeOK, RingShape, NEW n \in 0..size, Dequeue(n)
    PROVE  /\ queue' \in [Slot -> Record \cup {none}]
           /\ head' \in Slot /\ tail' \in Slot /\ size' \in 0..Capacity
           /\ RingShape'
           /\ Len(Queued) = size
           /\ Queued' = SubSeq(Queued, n + 1, size)
           /\ SubSeq(Queued, 1, n) \in Seq(Record)
           /\ Len(SubSeq(Queued, 1, n)) = n
<1>. Capacity \in Nat \ {0} /\ Slot = 0..(Capacity - 1)
  BY Zenon, SinkAssumption DEF Slot
<1>1. head' = (head + n) % Capacity /\ size' = size - n /\ queue' = queue /\ tail' = tail
  BY Zenon DEF Dequeue
<1>2. /\ queue \in [Slot -> Record \cup {none}]
      /\ head \in Slot /\ tail \in Slot /\ size \in 0..Capacity
  BY Zenon DEF TypeOK
<1>3. tail = (head + size) % Capacity /\ Queued \in Seq(Record)
  BY Zenon DEF RingShape
<1>4. Queued = RingSeq(queue, head, size) /\ Queued' = RingSeq(queue', head', size')
  BY Zenon DEF Queued, RingSeq
<1>5. size' \in 0..Capacity
  BY <1>1, <1>2
<1>6. IsRing(queue, head, size)
  BY <1>2, <1>3, <1>4, Zenon DEF IsRing
<1>7. /\ (head + n) % Capacity \in Slot
      /\ (((head + n) % Capacity) + (size - n)) % Capacity = (head + size) % Capacity
      /\ Len(RingSeq(queue, head, size)) = size
      /\ RingSeq(queue, (head + n) % Capacity, size - n)
           = SubSeq(RingSeq(queue, head, size), n + 1, size)
      /\ SubSeq(RingSeq(queue, head, size), 1, n) \in Seq(Record)
      /\ Len(SubSeq(RingSeq(queue, head, size), 1, n)) = n
      /\ SubSeq(RingSeq(queue, head, size), n + 1, size) \in Seq(Record)
  BY <1>6, RingShift, Zenon
<1>8. /\ head' \in Slot /\ tail' = (head' + size') % Capacity
      /\ Len(Queued) = size
      /\ Queued' = SubSeq(Queued, n + 1, size)
      /\ SubSeq(Queued, 1, n) \in Seq(Record)
      /\ Len(SubSeq(Queued, 1, n)) = n
      /\ Queued' \in Seq(Record)
  BY <1>1, <1>3, <1>4, <1>7, Zenon
<1>. QED
  BY <1>1, <1>2, <1>5, <1>8, Zenon DEF RingShape

-----------------------------------------------------------------------------
(***************************************************************************)
(* Records, and small facts about the steps.                               *)
(***************************************************************************)
LEMMA RecordPair ==
    /\ \A r \in Record : /\ r = <<r[1], r[2]>>
                         /\ r[1] \in Thread /\ r[2] \in 1..MaxRecords(r[1])
    /\ \A t \in Thread : \A n \in 1..MaxRecords(t) : <<t, n>> \in Record
<1>1. ASSUME NEW r \in Record
      PROVE  r = <<r[1], r[2]>> /\ r[1] \in Thread /\ r[2] \in 1..MaxRecords(r[1])
  <2>1. PICK t \in Thread : r \in {t} \X (1..MaxRecords(t))
    BY Zenon DEF Record
  <2>2. PICK n \in 1..MaxRecords(t) : r = <<t, n>>
    BY <2>1
  <2>. QED
    BY Zenon, <2>2
<1>2. ASSUME NEW t \in Thread, NEW n \in 1..MaxRecords(t) PROVE <<t, n>> \in Record
  <2>1. <<t, n>> \in {t} \X (1..MaxRecords(t))
    BY Zenon
  <2>. QED
    BY <2>1, Zenon DEF Record
<1>. QED
  BY Zenon, <1>1, <1>2

\* The smaller of two numbers: what the worker takes from the ring at once.
LEMMA MinTwo ==
    ASSUME NEW a \in Nat, NEW b \in Nat
    PROVE  Min({a, b}) \in 0..a /\ Min({a, b}) <= b
<1>1. CASE a <= b
  <2>1. a \in {a, b} /\ \A y \in {a, b} : a <= y
    BY <1>1
  <2>2. Min({a, b}) \in {a, b} /\ \A y \in {a, b} : Min({a, b}) <= y
    BY <2>1, Zenon DEF Min
  <2>. QED
    BY <2>2
<1>2. CASE ~(a <= b)
  <2>1. b \in {a, b} /\ \A y \in {a, b} : b <= y
    BY <1>2
  <2>2. Min({a, b}) \in {a, b} /\ \A y \in {a, b} : Min({a, b}) <= y
    BY <2>1, Zenon DEF Min
  <2>. QED
    BY <2>2
<1>. QED
  BY Zenon, <1>1, <1>2

\* A step that leaves the ring alone leaves what is queued alone.
LEMMA RingKept ==
    ASSUME RingShape, UNCHANGED ring
    PROVE  RingShape' /\ Queued' = Queued
<1>1. queue' = queue /\ head' = head /\ tail' = tail /\ size' = size
  BY Zenon DEF ring
<1>2. Queued' = Queued
  BY <1>1, Zenon DEF Queued
<1>. QED
  BY <1>1, <1>2, Zenon DEF RingShape

PcType == {"idle", "parking", "waiting", "woken", "inline", "flushed"}

(***************************************************************************)
(* A notification wakes those who wait and nobody else.                    *)
(***************************************************************************)
LEMMA NotifiedKeeps ==
    ASSUME pc \in [Thread -> PcType]
    PROVE  /\ Notified(pc) \in [Thread -> PcType]
           /\ \A t \in Thread : /\ Notified(pc)[t] \in {pc[t], "woken"}
                                /\ pc[t] # "waiting" => Notified(pc)[t] = pc[t]
  BY Zenon DEF Notified, PcType

(***************************************************************************)
(* The next record of a thread is new.                                     *)
(***************************************************************************)
LEMMA SubmitsNext ==
    ASSUME TypeOK, Holding, NEW t \in Thread, NEW r \in Record, Submits(t, r)
    PROVE  /\ count' \in [Thread -> Nat]
           /\ \A u \in Thread : count'[u] <= MaxRecords(u)
           /\ count'[t] = count[t] + 1 /\ \A u \in Thread \ {t} : count'[u] = count[u]
           /\ r = <<t, count'[t]>> /\ rec[t] = none
           /\ r \notin Submitted /\ Submitted' = Submitted \cup {r}
<1>1. /\ pc[t] = "idle" /\ count[t] < MaxRecords(t) /\ r = <<t, count[t] + 1>>
      /\ count' = [count EXCEPT ![t] = @ + 1]
  BY Zenon DEF Submits
<1>2. count \in [Thread -> Nat] /\ \A u \in Thread : count[u] <= MaxRecords(u)
  BY Zenon DEF TypeOK
<1>3. MaxRecords(t) \in Nat
  BY Zenon, SinkAssumption
<1>4. /\ count' \in [Thread -> Nat]
      /\ count'[t] = count[t] + 1 /\ \A u \in Thread \ {t} : count'[u] = count[u]
  BY <1>1, <1>2
<1>5. \A u \in Thread : count'[u] <= MaxRecords(u)
  BY <1>1, <1>2, <1>3, <1>4
<1>6. rec[t] = none
  BY Zenon, <1>1 DEF Holding
<1>7. r[1] = t /\ r[2] = count[t] + 1
  BY Zenon, <1>1
<1>8. r \notin Submitted
  BY <1>2, <1>7 DEF Submitted
<1>9. ASSUME NEW s \in Record
      PROVE  s[2] <= count'[s[1]] <=> s[2] <= count[s[1]] \/ s = r
  <2>1. s = <<s[1], s[2]>> /\ s[1] \in Thread /\ s[2] \in 1..MaxRecords(s[1])
    BY RecordPair, Zenon
  <2>2. CASE s[1] # t
    BY Zenon, <1>4, <1>7, <2>1, <2>2
  <2>3. CASE s[1] = t
    <3>1. s[2] \in Nat
      BY <1>3, <2>1, <2>3
    <3>2. count[t] \in Nat
      BY Zenon, <1>2
    <3>3. s = r <=> s[2] = count[t] + 1
      BY Zenon, <1>1, <1>7, <2>1, <2>3
    <3>4. count'[s[1]] = count[t] + 1 /\ count[s[1]] = count[t]
      BY Zenon, <1>4, <2>3
    <3>. QED
      BY <3>1, <3>2, <3>3, <3>4
  <2>. QED
    BY Zenon, <2>2, <2>3
<1>10. Submitted' = Submitted \cup {r}
  BY Zenon, <1>9 DEF Submitted
<1>. QED
  BY Zenon, <1>1, <1>4, <1>5, <1>6, <1>8, <1>10

-----------------------------------------------------------------------------
(***************************************************************************)
(* The steps keep the shape.                                               *)
(***************************************************************************)

(***************************************************************************)
(* The facts about one thread that Holding states.                         *)
(***************************************************************************)
HoldingOf(p, r, c, b, t) ==
    /\ r # none => r = <<t, c>> /\ p \in {"parking", "waiting", "woken", "inline"}
    /\ p = "inline" => r # none /\ ~b

\* Holding, thread by thread.
LEMMA HoldingPointwise ==
    /\ Holding <=> \A t \in Thread : HoldingOf(pc[t], rec[t], count[t], running, t)
    /\ Holding' <=> \A t \in Thread : HoldingOf(pc'[t], rec'[t], count'[t], running', t)
  BY Zenon DEF Holding, HoldingOf

(***************************************************************************)
(* submit().                                                               *)
(***************************************************************************)
LEMMA SubmitShape ==
    ASSUME Shape, NEW t \in Thread, NEW r \in Record, Submits(t, r),
           UNCHANGED <<inflight, running, batch, stopper, owed, delivered>>,
           \/ UNCHANGED <<ring, worker, pc, rec>> /\ dropped' = dropped \cup {r}
           \/ UNCHANGED <<pc, rec, dropped>> /\ running /\ size < Capacity /\ Enqueue(r)
           \/ /\ UNCHANGED <<ring, worker, dropped>>
              /\ rec' = [rec EXCEPT ![t] = r]
              /\ \/ pc' = [pc EXCEPT ![t] = "parking"]
                 \/ pc' = [pc EXCEPT ![t] = "inline"] /\ ~running
    PROVE  Shape'
<1>. TypeOK /\ RingShape /\ BatchShape /\ Holding /\ Stranding
  BY Zenon DEF Shape
<1>1. /\ count' \in [Thread -> Nat]
      /\ \A u \in Thread : count'[u] <= MaxRecords(u)
      /\ count'[t] = count[t] + 1 /\ \A u \in Thread \ {t} : count'[u] = count[u]
      /\ r = <<t, count'[t]>> /\ rec[t] = none /\ pc[t] = "idle"
  BY SubmitsNext, Zenon DEF Submits
<1>2. r # none
  BY Zenon, SinkAssumption
<1>3. /\ queue' \in [Slot -> Record \cup {none}]
      /\ head' \in Slot /\ tail' \in Slot /\ size' \in 0..Capacity
      /\ RingShape'
  <2>1. CASE UNCHANGED ring
    <3>1. queue' = queue /\ head' = head /\ tail' = tail /\ size' = size
      BY Zenon, <2>1 DEF ring
    <3>. QED
      BY <2>1, <3>1, RingKept, Zenon DEF TypeOK
  <2>2. CASE size < Capacity /\ Enqueue(r)
    BY <2>2, EnqueueStep, Zenon
  <2>. QED
    BY <2>1, <2>2, Zenon
<1>4. worker' \in {worker, "woken"} /\ (worker # "waiting" => worker' = worker)
      /\ (worker' = "exited" => ~running /\ size' = size)
  <2>1. CASE UNCHANGED <<ring, worker>>
    BY Zenon, <2>1 DEF Stranding, ring
  <2>2. CASE running /\ Enqueue(r)
    BY Zenon, <2>2 DEF Enqueue, WorkerNotified, Stranding
  <2>. QED
    BY <2>1, <2>2, Zenon
<1>5. /\ pc' \in [Thread -> PcType] /\ rec' \in [Thread -> Record \cup {none}]
      /\ \A u \in Thread \ {t} : pc'[u] = pc[u] /\ rec'[u] = rec[u]
      /\ \/ pc'[t] = "idle" /\ rec'[t] = none
         \/ pc'[t] = "parking" /\ rec'[t] = r
         \/ pc'[t] = "inline" /\ rec'[t] = r /\ ~running
  <2>1. pc \in [Thread -> PcType] /\ rec \in [Thread -> Record \cup {none}]
    BY Zenon DEF TypeOK, PcType
  <2>. QED
    BY <1>1, <2>1 DEF PcType
<1>6. dropped' \subseteq Record
  BY Zenon DEF TypeOK
<1>7. worker' \in {"top", "parking", "waiting", "woken", "deliver", "exited"}
  BY Zenon, <1>4 DEF TypeOK
<1>8. TypeOK'
  BY Zenon, <1>1, <1>3, <1>5, <1>6, <1>7 DEF TypeOK, PcType
<1>9. BatchShape'
  BY Zenon, <1>4 DEF BatchShape
<1>10. Stranding'
  BY Zenon, <1>4 DEF Stranding
<1>11. Holding'
  <2>1. ASSUME NEW u \in Thread
        PROVE  HoldingOf(pc'[u], rec'[u], count'[u], running', u)
    <3>1. HoldingOf(pc[u], rec[u], count[u], running, u)
      BY Zenon, HoldingPointwise
    <3>2. CASE u # t
      BY <1>1, <1>5, <3>1, <3>2, Zenon
    <3>3. CASE u = t
      BY Zenon, <1>1, <1>2, <1>5, <3>3 DEF HoldingOf
    <3>. QED
      BY <3>2, <3>3, Zenon
  <2>. QED
    BY Zenon, <2>1, HoldingPointwise
<1>. QED
  BY <1>3, <1>8, <1>9, <1>10, <1>11, Zenon DEF Shape

(***************************************************************************)
(* A step of a thread that touches neither the ring nor a record, and the  *)
(* notifications.                                                          *)
(***************************************************************************)
LEMMA CallShape ==
    ASSUME Shape,
           UNCHANGED <<ring, inflight, batch, rec, count, sinks>>,
           running' \in BOOLEAN, running' => running,
           pc' \in [Thread -> PcType],
           \A t \in Thread : /\ rec[t] # none => pc'[t] \in {"parking", "waiting", "woken", "inline"}
                             /\ pc'[t] = "inline" => rec[t] # none /\ ~running',
           stopper' \in {"none", "notify", "join", "returned"},
           owed' \in [Thread -> SUBSET Record],
           worker' \in {"top", "parking", "waiting", "woken", "deliver", "exited"},
           worker' # "deliver" => batch = <<>> /\ inflight = 0,
           worker' = "exited" => ~running' /\ size = 0
    PROVE  Shape'
<1>. TypeOK /\ RingShape /\ BatchShape /\ Holding /\ Stranding
  BY Zenon DEF Shape
<1>1. RingShape'
  BY Zenon, RingKept
<1>2. TypeOK'
  BY Zenon DEF TypeOK, PcType, ring, sinks
<1>3. BatchShape'
  BY Zenon DEF BatchShape
<1>4. Stranding'
  BY Zenon DEF Stranding, ring
<1>5. Holding'
  BY Zenon DEF Holding
<1>. QED
  BY <1>1, <1>2, <1>3, <1>4, <1>5, Zenon DEF Shape

(***************************************************************************)
(* A submit() that waited ends: its record is in the ring, or delivered.   *)
(***************************************************************************)
LEMMA ReleaseShape ==
    ASSUME Shape, NEW t \in Thread, rec[t] # none,
           pc' = [pc EXCEPT ![t] = "idle"], rec' = [rec EXCEPT ![t] = none],
           UNCHANGED <<inflight, running, batch, stopper, count, owed, dropped>>,
           \/ UNCHANGED delivered /\ running /\ size < Capacity /\ Enqueue(rec[t])
           \/ UNCHANGED <<ring, worker>> /\ delivered' = Append(delivered, rec[t])
    PROVE  Shape'
<1>. TypeOK /\ RingShape /\ BatchShape /\ Holding /\ Stranding
  BY Zenon DEF Shape
<1>1. rec[t] \in Record
  BY Zenon DEF TypeOK
<1>2. /\ queue' \in [Slot -> Record \cup {none}]
      /\ head' \in Slot /\ tail' \in Slot /\ size' \in 0..Capacity
      /\ RingShape'
  <2>1. CASE UNCHANGED ring
    <3>1. queue' = queue /\ head' = head /\ tail' = tail /\ size' = size
      BY Zenon, <2>1 DEF ring
    <3>. QED
      BY <2>1, <3>1, RingKept, Zenon DEF TypeOK
  <2>2. CASE size < Capacity /\ Enqueue(rec[t])
    BY <1>1, <2>2, EnqueueStep, Zenon
  <2>. QED
    BY <2>1, <2>2, Zenon
<1>3. worker' \in {worker, "woken"} /\ (worker # "waiting" => worker' = worker)
      /\ (worker' = "exited" => ~running /\ size' = size)
  <2>1. CASE UNCHANGED <<ring, worker>>
    BY Zenon, <2>1 DEF Stranding, ring
  <2>2. CASE running /\ Enqueue(rec[t])
    BY Zenon, <2>2 DEF Enqueue, WorkerNotified, Stranding
  <2>. QED
    BY <2>1, <2>2, Zenon
<1>4. /\ pc' \in [Thread -> PcType] /\ rec' \in [Thread -> Record \cup {none}]
      /\ \A u \in Thread \ {t} : pc'[u] = pc[u] /\ rec'[u] = rec[u]
      /\ pc'[t] = "idle" /\ rec'[t] = none
  <2>1. pc \in [Thread -> PcType] /\ rec \in [Thread -> Record \cup {none}]
    BY Zenon DEF TypeOK, PcType
  <2>. QED
    BY Zenon, <2>1 DEF PcType
<1>5. delivered' \in Seq(Record)
  <2>1. delivered \in Seq(Record)
    BY Zenon DEF TypeOK
  <2>2. Append(delivered, rec[t]) \in Seq(Record)
    BY Zenon, <1>1, <2>1, AppendProperties
  <2>. QED
    BY <2>1, <2>2, Zenon
<1>6. worker' \in {"top", "parking", "waiting", "woken", "deliver", "exited"}
  BY Zenon, <1>3 DEF TypeOK
<1>7. TypeOK'
  BY Zenon, <1>2, <1>4, <1>5, <1>6 DEF TypeOK, PcType
<1>8. BatchShape'
  BY Zenon, <1>3 DEF BatchShape
<1>9. Stranding'
  BY Zenon, <1>3 DEF Stranding
<1>10. Holding'
  <2>1. ASSUME NEW u \in Thread
        PROVE  HoldingOf(pc'[u], rec'[u], count'[u], running', u)
    <3>1. HoldingOf(pc[u], rec[u], count[u], running, u)
      BY Zenon, HoldingPointwise
    <3>2. CASE u # t
      BY <1>4, <3>1, <3>2, Zenon
    <3>3. CASE u = t
      BY Zenon, <1>4, <3>3 DEF HoldingOf
    <3>. QED
      BY <3>2, <3>3, Zenon
  <2>. QED
    BY Zenon, <2>1, HoldingPointwise
<1>. QED
  BY <1>2, <1>7, <1>8, <1>9, <1>10, Zenon DEF Shape

(***************************************************************************)
(* Only those who wait are notified, so Holding stays.                     *)
(***************************************************************************)
LEMMA NotifiedHolding ==
    ASSUME TypeOK, Holding, pc' \in {pc, Notified(pc)}, UNCHANGED <<rec, count, running>>
    PROVE  Holding' /\ pc' \in [Thread -> PcType]
<1>1. pc \in [Thread -> PcType]
  BY Zenon DEF TypeOK, PcType
<1>2. \A t \in Thread : pc'[t] \in {pc[t], "woken"} /\ (pc[t] # "waiting" => pc'[t] = pc[t])
  BY Zenon, <1>1, NotifiedKeeps
<1>3. pc' \in [Thread -> PcType]
  BY <1>1, NotifiedKeeps, Zenon
<1>4. Holding'
  BY Zenon, <1>2 DEF Holding
<1>. QED
  BY <1>3, <1>4, Zenon

(***************************************************************************)
(* worker_loop() takes a batch.                                            *)
(***************************************************************************)
LEMMA TakeShape ==
    ASSUME Shape, WorkerTake
    PROVE  Shape' /\ OnItsWay' = OnItsWay
<1>. TypeOK /\ RingShape /\ BatchShape /\ Holding /\ Stranding
  BY Zenon DEF Shape
<1>1. size \in Nat /\ MaxBatch \in Nat /\ Capacity \in Nat
  BY SinkAssumption DEF TypeOK
<1>2. PICK n : n = Min({size, MaxBatch})
  BY Zenon
<1>3. n \in 0..size /\ n <= MaxBatch
  BY Zenon, <1>1, <1>2, MinTwo
<1>4. /\ Dequeue(n) /\ batch' = SubSeq(Queued, 1, n) /\ inflight' = n
      /\ pc' \in {pc, Notified(pc)}
      /\ worker' = "deliver" /\ worker # "deliver"
      /\ UNCHANGED <<running, stopper, rec, count, owed, delivered, dropped>>
  BY Zenon, <1>2 DEF WorkerTake, sinks
<1>5. /\ queue' \in [Slot -> Record \cup {none}]
      /\ head' \in Slot /\ tail' \in Slot /\ size' \in 0..Capacity
      /\ RingShape'
      /\ Len(Queued) = size
      /\ Queued' = SubSeq(Queued, n + 1, size)
      /\ batch' \in Seq(Record) /\ Len(batch') = n
  BY <1>3, <1>4, DequeueStep, Zenon
<1>6. Holding' /\ pc' \in [Thread -> PcType]
  BY <1>4, NotifiedHolding, Zenon
<1>7. inflight' \in 0..MaxBatch /\ Len(batch') <= inflight'
  BY <1>1, <1>3, <1>4, <1>5
<1>8. TypeOK'
  BY Zenon, <1>4, <1>5, <1>6, <1>7 DEF TypeOK, PcType
<1>9. BatchShape' /\ Stranding'
  BY Zenon, <1>4 DEF BatchShape, Stranding
<1>10. OnItsWay' = OnItsWay
  <2>1. batch = <<>>
    BY <1>4, Zenon DEF BatchShape
  <2>2. PICK d \in Seq(Record), q \in Seq(Record) : d = delivered /\ q = Queued
    BY Zenon DEF TypeOK, RingShape
  <2>3. n \in 0..Len(q)
    BY <1>3, <1>5, <2>2, Zenon
  <2>4. d \o SubSeq(q, 1, n) \o SubSeq(q, n + 1, Len(q)) = d \o <<>> \o q
    BY Zenon, <2>3, WayTake
  <2>. QED
    BY <1>4, <1>5, <2>1, <2>2, <2>4, Zenon DEF OnItsWay
<1>. QED
  BY <1>5, <1>6, <1>8, <1>9, <1>10, Zenon DEF Shape

(***************************************************************************)
(* worker_loop() delivers a record of its batch.                           *)
(***************************************************************************)
LEMMA DeliverShape ==
    ASSUME Shape, WorkerDeliver
    PROVE  Shape' /\ OnItsWay' = OnItsWay /\ Range(delivered) \subseteq Range(delivered')
<1>. TypeOK /\ RingShape /\ BatchShape /\ Holding /\ Stranding
  BY Zenon DEF Shape
<1>1. /\ worker = "deliver" /\ batch # <<>>
      /\ delivered' = Append(delivered, Head(batch)) /\ batch' = Tail(batch)
      /\ UNCHANGED <<ring, inflight, running, worker, stopper, calls, dropped>>
  BY Zenon DEF WorkerDeliver
<1>2. PICK d \in Seq(Record), b \in Seq(Record), q \in Seq(Record) :
        d = delivered /\ b = batch /\ q = Queued
  BY Zenon DEF TypeOK, RingShape
<1>3. b # <<>>
  BY <1>1, <1>2, Zenon
<1>4. Head(b) \in Record /\ Tail(b) \in Seq(Record) /\ Len(Tail(b)) = Len(b) - 1
  BY Zenon, <1>3, HeadTailProperties
<1>5. PICK h \in Record : h = Head(b)
  BY <1>4, Zenon
<1>6. Append(d, h) \in Seq(Record)
  BY Zenon, AppendProperties
<1>7. RingShape' /\ Queued' = Queued
  BY Zenon, <1>1, RingKept
<1>8. delivered' \in Seq(Record) /\ batch' \in Seq(Record)
  BY <1>1, <1>2, <1>4, <1>5, <1>6, Zenon
<1>9. Len(batch') <= inflight
  <2>1. Len(b) \in Nat /\ Len(b) <= inflight
    BY Zenon, <1>2, LenProperties DEF TypeOK
  <2>2. inflight \in Nat
    BY SinkAssumption DEF TypeOK
  <2>3. Len(batch') = Len(b) - 1
    BY <1>1, <1>2, <1>4, Zenon
  <2>. QED
    BY <2>1, <2>2, <2>3
<1>10. TypeOK'
  BY Zenon, <1>1, <1>8, <1>9 DEF TypeOK, ring, calls
<1>11. BatchShape' /\ Stranding'
  BY Zenon, <1>1 DEF BatchShape, Stranding, ring
<1>12. Holding'
  BY Zenon, <1>1 DEF Holding, calls
<1>13. OnItsWay' = OnItsWay
  <2>1. Append(d, Head(b)) \o Tail(b) \o q = d \o b \o q
    BY SMTT(30), <1>3, WayDeliver
  <2>. QED
    BY <1>1, <1>2, <1>7, <2>1, Zenon DEF OnItsWay
<1>14. Range(delivered) \subseteq Range(delivered')
  <2>1. Range(d) \subseteq Range(Append(d, h))
    BY Zenon, RangeAppend
  <2>. QED
    BY <1>1, <1>2, <1>5, <2>1, Zenon
<1>. QED
  BY <1>7, <1>10, <1>11, <1>12, <1>13, <1>14, Zenon DEF Shape

(***************************************************************************)
(* worker_loop() has delivered its batch.                                  *)
(***************************************************************************)
LEMMA DoneShape ==
    ASSUME Shape, WorkerDone
    PROVE  Shape' /\ OnItsWay' = OnItsWay
<1>. TypeOK /\ RingShape /\ BatchShape /\ Holding /\ Stranding
  BY Zenon DEF Shape
<1>1. /\ batch = <<>> /\ inflight' = 0 /\ pc' = Notified(pc) /\ worker' = "top"
      /\ UNCHANGED <<ring, running, batch, stopper, rec, count, owed, delivered, dropped>>
  BY Zenon DEF WorkerDone, sinks
<1>2. RingShape' /\ Queued' = Queued
  BY Zenon, <1>1, RingKept
<1>3. Holding' /\ pc' \in [Thread -> PcType]
  BY <1>1, NotifiedHolding, Zenon
<1>4. inflight' \in 0..MaxBatch /\ Len(batch') <= inflight'
  BY <1>1, SinkAssumption, EmptySeq
<1>5. TypeOK'
  BY Zenon, <1>1, <1>3, <1>4 DEF TypeOK, PcType, ring
<1>6. BatchShape' /\ Stranding'
  BY Zenon, <1>1 DEF BatchShape, Stranding
<1>7. OnItsWay' = OnItsWay
  BY <1>1, <1>2, Zenon DEF OnItsWay
<1>. QED
  BY <1>2, <1>3, <1>5, <1>6, <1>7, Zenon DEF Shape

(***************************************************************************)
(* stop() has joined the worker: the loop that delivers what is left finds *)
(* an empty ring.                                                          *)
(***************************************************************************)
LEMMA JoinShape ==
    ASSUME Shape, StopJoin
    PROVE  Shape' /\ OnItsWay' = OnItsWay /\ delivered' = delivered
<1>. TypeOK /\ RingShape /\ BatchShape /\ Holding /\ Stranding
  BY Zenon DEF Shape
<1>1. /\ worker = "exited" /\ Dequeue(size) /\ delivered' = delivered \o Queued
      /\ pc' = Notified(pc) /\ stopper' = "returned"
      /\ UNCHANGED <<inflight, running, batch, worker, rec, count, owed, dropped>>
  BY Zenon DEF StopJoin
<1>2. size = 0
  BY Zenon, <1>1 DEF Stranding
<1>3. size \in 0..size
  BY <1>2
<1>4. /\ queue' \in [Slot -> Record \cup {none}]
      /\ head' \in Slot /\ tail' \in Slot /\ size' \in 0..Capacity
      /\ RingShape'
      /\ Len(Queued) = size
      /\ Queued' = SubSeq(Queued, size + 1, size)
  BY <1>1, <1>3, DequeueStep, Zenon
<1>5. Queued = <<>>
  BY Zenon, <1>2, <1>4, EmptySeq DEF RingShape
<1>6. Queued' = <<>>
  BY <1>2, <1>4, SubSeqEmpty
<1>7. delivered' = delivered
  <2>1. delivered \in Seq(Record)
    BY Zenon DEF TypeOK
  <2>2. delivered \o <<>> = delivered
    BY Zenon, <2>1, ConcatEmptySeq
  <2>. QED
    BY <1>1, <1>5, <2>2, Zenon
<1>8. Holding' /\ pc' \in [Thread -> PcType]
  BY <1>1, NotifiedHolding, Zenon
<1>9. TypeOK'
  BY Zenon, <1>1, <1>4, <1>7, <1>8 DEF TypeOK, PcType
<1>10. size' = 0
  BY <1>1, <1>2 DEF Dequeue
<1>11. BatchShape' /\ Stranding'
  BY Zenon, <1>1, <1>10 DEF BatchShape, Stranding
<1>12. OnItsWay' = OnItsWay
  BY <1>1, <1>5, <1>6, <1>7, Zenon DEF OnItsWay
<1>. QED
  BY <1>4, <1>7, <1>8, <1>9, <1>11, <1>12, Zenon DEF Shape

-----------------------------------------------------------------------------
(***************************************************************************)
(* The steps keep the records.                                             *)
(***************************************************************************)

\* EachRecordOnce, of the way, what is held, what was dropped, and all.
Once(w, h, d, s) ==
    /\ IsInjective(w)
    /\ s = Range(w) \cup h \cup d
    /\ Range(w) \cap (h \cup d) = {}
    /\ h \cap d = {}

\* EachRecordOnce, of the four places a record may be in.
LEMMA OnceIs ==
    /\ EachRecordOnce <=> Once(OnItsWay, Held, dropped, Submitted)
    /\ EachRecordOnce' <=> Once(OnItsWay', Held', dropped', Submitted')
  BY Zenon DEF EachRecordOnce, Once, OnItsWay, Held

\* What is on its way is a sequence of records, in the order of delivery.
LEMMA WayTypes ==
    ASSUME Shape
    PROVE  /\ delivered \in Seq(Record) /\ batch \in Seq(Record) /\ Queued \in Seq(Record)
           /\ batch \o Queued \in Seq(Record) /\ OnItsWay \in Seq(Record)
           /\ OnItsWay = delivered \o (batch \o Queued)
<1>1. PICK d \in Seq(Record), b \in Seq(Record), q \in Seq(Record) :
        d = delivered /\ b = batch /\ q = Queued
  BY Zenon DEF Shape, TypeOK, RingShape
<1>2. d \o b \in Seq(Record) /\ b \o q \in Seq(Record)
  BY Zenon, ConcatProperties
<1>3. PICK c \in Seq(Record) : c = d \o b
  BY <1>2, Zenon
<1>4. c \o q \in Seq(Record)
  BY Zenon, ConcatProperties
<1>5. (d \o b) \o q = d \o (b \o q)
  BY SMTT(30), ConcatAssociative
<1>. QED
  BY <1>1, <1>2, <1>3, <1>4, <1>5, Zenon DEF OnItsWay

(***************************************************************************)
(* A submit() takes hold of a record.                                      *)
(***************************************************************************)
LEMMA HeldGrows ==
    ASSUME rec \in [Thread -> Record \cup {none}], NEW t \in Thread, rec[t] = none,
           NEW r \in Record, rec' = [rec EXCEPT ![t] = r]
    PROVE  Held' = Held \cup {r}
<1>1. r # none
  BY Zenon, SinkAssumption
<1>2. rec'[t] = r /\ \A u \in Thread \ {t} : rec'[u] = rec[u]
  BY Zenon
<1>. QED
  BY <1>1, <1>2, Zenon DEF Held

(***************************************************************************)
(* A submit() lets go of its record, which no other one has.               *)
(***************************************************************************)
LEMMA HeldShrinks ==
    ASSUME rec \in [Thread -> Record \cup {none}], Holding, NEW t \in Thread,
           rec[t] # none, rec' = [rec EXCEPT ![t] = none]
    PROVE  Held' = Held \ {rec[t]} /\ rec[t] \in Held
<1>1. \A u \in Thread : rec[u] = rec[t] => u = t
  <2>1. \A u \in Thread : rec[u] # none => rec[u] = <<u, count[u]>>
    BY Zenon DEF Holding
  <2>. QED
    BY <2>1
<1>2. rec'[t] = none /\ \A u \in Thread \ {t} : rec'[u] = rec[u]
  BY Zenon
<1>. QED
  BY <1>1, <1>2, Zenon DEF Held

(***************************************************************************)
(* Every accepted record is on its way.                                    *)
(***************************************************************************)
LEMMA AcceptedOnItsWay ==
    ASSUME Holding, EachRecordOnce
    PROVE  Accepted \subseteq Range(OnItsWay) /\ Accepted \subseteq Record
<1>1. Submitted = Range(OnItsWay) \cup Held \cup dropped
  BY OnceIs, Zenon DEF Once
<1>2. ASSUME NEW r \in Accepted PROVE r \in Range(OnItsWay) /\ r \in Record
  <2>1. r \in Record /\ r \in Submitted /\ r # rec[r[1]] /\ r \notin dropped
    BY Zenon DEF Accepted, Submitted
  <2>2. r \notin Held
    <3>1. ASSUME NEW u \in Thread, rec[u] # none PROVE rec[u][1] = u
      BY <3>1 DEF Holding
    <3>. QED
      BY <2>1, <3>1, Zenon DEF Held
  <2>. QED
    BY <1>1, <2>1, <2>2, Zenon
<1>. QED
  BY <1>2, Zenon

(***************************************************************************)
(* When flush() finds nothing in the ring and nothing in flight, all that  *)
(* was on its way has arrived.                                             *)
(***************************************************************************)
LEMMA DrainedArrived ==
    ASSUME Shape, Drained
    PROVE  OnItsWay = delivered
<1>1. size = 0 /\ inflight = 0
  BY Zenon DEF Drained
<1>2. delivered \in Seq(Record) /\ batch \in Seq(Record) /\ Queued \in Seq(Record)
  BY WayTypes, Zenon
<1>3. batch = <<>>
  <2>1. Len(batch) <= 0
    BY Zenon, <1>1 DEF Shape, TypeOK
  <2>. QED
    BY <1>2, <2>1, EmptySeq
<1>4. Queued = <<>>
  <2>1. Queued = [i \in 1..0 |-> queue[(head + i - 1) % Capacity]]
    BY <1>1, Zenon DEF Queued
  <2>. QED
    BY <2>1
<1>5. delivered \o <<>> = delivered
  BY Zenon, <1>2, ConcatEmptySeq
<1>. QED
  BY <1>3, <1>4, <1>5, Zenon DEF OnItsWay

(***************************************************************************)
(* A new record that is held or dropped, one that joins the way, and one   *)
(* that was held and joins it.                                             *)
(***************************************************************************)
LEMMA OnceSteps ==
    ASSUME NEW w, NEW h, NEW d, NEW s, Once(w, h, d, s), NEW r
    PROVE  /\ r \notin s => Once(w, h \cup {r}, d, s \cup {r})
           /\ r \notin s => Once(w, h, d \cup {r}, s \cup {r})
           /\ \A v : IsInjective(v) /\ Range(v) = Range(w) \cup {r} =>
                /\ r \notin s => Once(v, h, d, s \cup {r})
                /\ r \in h => Once(v, h \ {r}, d, s)
           /\ r \notin s \/ r \in h => r \notin Range(w)
<1>. /\ IsInjective(w) /\ s = Range(w) \cup h \cup d
     /\ Range(w) \cap (h \cup d) = {} /\ h \cap d = {}
  BY Zenon DEF Once
<1>1. r \notin s => Once(w, h \cup {r}, d, s \cup {r})
  BY Zenon DEF Once
<1>2. r \notin s => Once(w, h, d \cup {r}, s \cup {r})
  BY Zenon DEF Once
<1>3. ASSUME NEW v, IsInjective(v), Range(v) = Range(w) \cup {r}
      PROVE  /\ r \notin s => Once(v, h, d, s \cup {r})
             /\ r \in h => Once(v, h \ {r}, d, s)
  BY <1>3, Zenon DEF Once
<1>. QED
  BY <1>1, <1>2, <1>3, Zenon

(***************************************************************************)
(* FlushCoversAccepted holds on when no flush() ends.                      *)
(***************************************************************************)
LEMMA FlushedKept ==
    ASSUME FlushCoversAccepted, Range(delivered) \subseteq Range(delivered'),
           \A t \in Thread : pc'[t] = "flushed" => pc[t] = "flushed" /\ owed'[t] = owed[t]
    PROVE  FlushCoversAccepted'
  BY Zenon DEF FlushCoversAccepted

(***************************************************************************)
(* The steps that move no record, and those of the worker.                 *)
(***************************************************************************)
LEMMA KeepStep ==
    ASSUME SinkInv, Shape', OnItsWay' = OnItsWay, UNCHANGED <<rec, count, dropped>>,
           running' => running, FlushCoversAccepted',
           \A t \in Thread : owed'[t] \subseteq Range(OnItsWay)
    PROVE  SinkInv'
<1>1. Held' = Held /\ Submitted' = Submitted
  BY Zenon DEF Held, Submitted
<1>2. EachRecordOnce'
  BY <1>1, OnceIs, Zenon DEF SinkInv
<1>3. Owing'
  BY Zenon DEF Owing
<1>4. InOrder'
  BY Zenon DEF SinkInv, InOrder
<1>. QED
  BY <1>2, <1>3, <1>4, Zenon DEF SinkInv

(***************************************************************************)
(* A submit() that does not reach the ring at once.                        *)
(***************************************************************************)
LEMMA SubmitStep ==
    ASSUME SinkInv, Shape', NEW t \in Thread, NEW r \in Record, Submits(t, r),
           UNCHANGED <<ring, running, batch, owed, delivered>>,
           \/ rec' = [rec EXCEPT ![t] = r] /\ UNCHANGED dropped
           \/ dropped' = dropped \cup {r} /\ UNCHANGED rec,
           \A u \in Thread : pc'[u] = "flushed" => pc[u] = "flushed"
    PROVE  SinkInv'
<1>. /\ Shape /\ TypeOK /\ RingShape /\ Holding /\ EachRecordOnce
     /\ Owing /\ InOrder /\ FlushCoversAccepted
  BY Zenon DEF SinkInv, Shape
<1>1. rec[t] = none /\ r \notin Submitted /\ Submitted' = Submitted \cup {r}
  BY SubmitsNext, Zenon
<1>2. Queued' = Queued
  BY Zenon, RingKept
<1>3. OnItsWay' = OnItsWay
  BY <1>2, Zenon DEF OnItsWay
<1>4. Once(OnItsWay, Held, dropped, Submitted)
  BY OnceIs, Zenon
<1>5. Once(OnItsWay', Held', dropped', Submitted')
  <2>1. CASE rec' = [rec EXCEPT ![t] = r] /\ UNCHANGED dropped
    <3>1. Held' = Held \cup {r}
      BY <1>1, <2>1, HeldGrows, Zenon DEF TypeOK
    <3>2. Once(OnItsWay, Held \cup {r}, dropped, Submitted \cup {r})
      BY <1>1, <1>4, OnceSteps, Zenon
    <3>. QED
      BY <1>1, <1>3, <2>1, <3>1, <3>2, Zenon
  <2>2. CASE dropped' = dropped \cup {r} /\ UNCHANGED rec
    <3>1. Held' = Held
      BY <2>2, Zenon DEF Held
    <3>2. Once(OnItsWay, Held, dropped \cup {r}, Submitted \cup {r})
      BY <1>1, <1>4, OnceSteps, Zenon
    <3>. QED
      BY <1>1, <1>3, <2>2, <3>1, <3>2, Zenon
  <2>. QED
    BY <2>1, <2>2, Zenon
<1>6. EachRecordOnce'
  BY <1>5, OnceIs, Zenon
<1>7. Owing' /\ InOrder'
  BY <1>3, Zenon DEF Owing, InOrder
<1>8. FlushCoversAccepted'
  BY FlushedKept, Zenon
<1>. QED
  BY <1>6, <1>7, <1>8, Zenon DEF SinkInv

(***************************************************************************)
(* A record joins the way: at the end, from a submit() that found space,   *)
(* or behind what was delivered, after stop() began.                       *)
(***************************************************************************)
LEMMA JoinWay ==
    ASSUME SinkInv, Shape', NEW r \in Record,
           IsInjective(OnItsWay'), Range(OnItsWay') = Range(OnItsWay) \cup {r},
           \/ /\ r \notin Submitted /\ Submitted' = Submitted \cup {r} /\ Held' = Held
           \/ /\ r \in Held /\ Held' = Held \ {r} /\ Submitted' = Submitted,
           UNCHANGED <<owed, dropped>>,
           InOrder', Range(delivered) \subseteq Range(delivered'),
           \A u \in Thread : pc'[u] = "flushed" => pc[u] = "flushed"
    PROVE  SinkInv'
<1>. EachRecordOnce /\ Owing /\ FlushCoversAccepted
  BY Zenon DEF SinkInv
<1>1. Once(OnItsWay, Held, dropped, Submitted)
  BY OnceIs, Zenon
<1>2. Once(OnItsWay', Held', dropped', Submitted')
  <2>1. /\ r \notin Submitted => Once(OnItsWay', Held, dropped, Submitted \cup {r})
        /\ r \in Held => Once(OnItsWay', Held \ {r}, dropped, Submitted)
    BY ONLY <1>1, OnceSteps, IsInjective(OnItsWay'),
            Range(OnItsWay') = Range(OnItsWay) \cup {r}, Zenon
  <2>. QED
    BY <2>1, Zenon
<1>3. EachRecordOnce'
  BY <1>2, OnceIs, Zenon
<1>4. Owing'
  BY Zenon DEF Owing
<1>5. FlushCoversAccepted'
  BY FlushedKept, Zenon
<1>. QED
  BY <1>3, <1>4, <1>5, Zenon DEF SinkInv

(***************************************************************************)
(* submit() puts r into the ring: the way grows at its end, and stays      *)
(* ascending, since all records of r's thread on it are older.             *)
(***************************************************************************)
LEMMA EnqueueWay ==
    ASSUME SinkInv, NEW r \in Record, size < Capacity, Enqueue(r),
           UNCHANGED <<batch, delivered>>,
           r \notin Range(OnItsWay),
           \A s \in Range(OnItsWay) : s[1] = r[1] => s[2] < r[2],
           running
    PROVE  /\ IsInjective(OnItsWay') /\ Range(OnItsWay') = Range(OnItsWay) \cup {r}
           /\ InOrder' /\ Range(delivered) \subseteq Range(delivered')
<1>. /\ Shape /\ TypeOK /\ RingShape /\ EachRecordOnce /\ InOrder
  BY Zenon DEF SinkInv, Shape
<1>1. PICK d \in Seq(Record), b \in Seq(Record), q \in Seq(Record), w \in Seq(Record) :
        d = delivered /\ b = batch /\ q = Queued /\ w = OnItsWay
  BY WayTypes, Zenon
<1>2. Queued' = Append(Queued, r)
  BY EnqueueStep, Zenon
<1>3. d \o b \o Append(q, r) = Append(d \o b \o q, r)
  BY WayAppend, SMTT(30)
<1>4. OnItsWay' = Append(w, r)
  BY <1>1, <1>2, <1>3, Zenon DEF OnItsWay
<1>5. IsInjective(w) /\ r \notin Range(w)
  BY <1>1, OnceIs, Zenon DEF Once
<1>6. IsInjective(Append(w, r)) /\ Range(Append(w, r)) = Range(w) \cup {r}
  BY <1>5, AppendOnce
<1>7. Ascending(w) /\ \A i \in DOMAIN w : w[i][1] = r[1] => w[i][2] < r[2]
  BY <1>1, Zenon DEF InOrder, Range
<1>8. Ascending(Append(w, r))
  BY Zenon, <1>7, AppendAscending
<1>. QED
  BY <1>1, <1>4, <1>6, <1>8, Zenon DEF InOrder

(***************************************************************************)
(* submit() with space in the ring.                                        *)
(***************************************************************************)
LEMMA SubmitEnqueueStep ==
    ASSUME SinkInv, NEW t \in Thread, SubmitEnqueue(t)
    PROVE  SinkInv'
<1>. Shape /\ TypeOK /\ Holding /\ EachRecordOnce
  BY Zenon DEF SinkInv, Shape
<1>1. PICK r \in Record :
        /\ Submits(t, r) /\ running /\ size < Capacity /\ Enqueue(r)
        /\ UNCHANGED <<inflight, running, batch, stopper, pc, rec, owed, delivered, dropped>>
  BY Zenon DEF SubmitEnqueue, sinks
<1>2. Shape'
  BY <1>1, SubmitShape, Zenon
<1>3. r \notin Submitted /\ Submitted' = Submitted \cup {r}
  BY <1>1, SubmitsNext, Zenon
<1>4. Submitted = Range(OnItsWay) \cup Held \cup dropped
  BY OnceIs, Zenon DEF Once
<1>5. r[1] = t /\ r[2] = count[t] + 1
  BY Zenon, <1>1 DEF Submits
<1>6. ASSUME NEW s \in Range(OnItsWay), s[1] = r[1] PROVE s[2] < r[2]
  <2>1. s \in Record /\ s[2] <= count[s[1]]
    BY <1>4, Zenon DEF Submitted
  <2>2. s[2] \in 1..MaxRecords(s[1])
    BY <2>1, RecordPair, Zenon
  <2>3. s[1] = t /\ MaxRecords(t) \in Nat /\ count[t] \in Nat
    BY Zenon, <1>5, <1>6, SinkAssumption DEF TypeOK
  <2>. QED
    BY <1>5, <2>1, <2>2, <2>3
<1>7. Held' = Held
  BY <1>1, Zenon DEF Held
<1>8. /\ IsInjective(OnItsWay') /\ Range(OnItsWay') = Range(OnItsWay) \cup {r}
      /\ InOrder' /\ Range(delivered) \subseteq Range(delivered')
  BY <1>1, <1>3, <1>4, <1>6, EnqueueWay, Zenon
<1>. QED
  BY <1>1, <1>2, <1>3, <1>7, <1>8, JoinWay, Zenon

(***************************************************************************)
(* A submit() that waited for space.                                       *)
(***************************************************************************)
LEMMA SubmitWokenStep ==
    ASSUME SinkInv, NEW t \in Thread, SubmitWoken(t)
    PROVE  SinkInv'
<1>. Shape /\ TypeOK /\ RingShape /\ BatchShape /\ Holding /\ Stranding
     /\ EachRecordOnce /\ Owing /\ FlushCoversAccepted
  BY Zenon DEF SinkInv, Shape
<1>1. pc[t] = "woken" /\ rec[t] # none
  BY Zenon DEF SubmitWoken
<1>2. pc \in [Thread -> PcType] /\ rec \in [Thread -> Record \cup {none}]
  BY Zenon DEF TypeOK, PcType
<1>3. UNCHANGED <<inflight, running, batch, stopper, count, owed, delivered, dropped>>
  BY Zenon DEF SubmitWoken, sinks
<1>4. CASE /\ UNCHANGED <<ring, worker, rec>>
           /\ \/ pc' = [pc EXCEPT ![t] = "parking"]
              \/ pc' = [pc EXCEPT ![t] = "inline"] /\ ~running
  <2>1. /\ pc' \in [Thread -> PcType]
        /\ \A u \in Thread \ {t} : pc'[u] = pc[u]
        /\ pc'[t] = "parking" \/ (pc'[t] = "inline" /\ ~running)
    BY Zenon, <1>2, <1>4 DEF PcType
  <2>2. \A u \in Thread :
          /\ rec[u] # none => pc'[u] \in {"parking", "waiting", "woken", "inline"}
          /\ pc'[u] = "inline" => rec[u] # none /\ ~running'
    BY Zenon, <1>1, <1>3, <2>1 DEF Holding
  <2>3. Shape'
    <3>1. /\ stopper' \in {"none", "notify", "join", "returned"}
          /\ owed' \in [Thread -> SUBSET Record] /\ running' \in BOOLEAN
          /\ worker' \in {"top", "parking", "waiting", "woken", "deliver", "exited"}
          /\ worker' # "deliver" => batch = <<>> /\ inflight = 0
          /\ worker' = "exited" => ~running' /\ size = 0
      BY Zenon, <1>3, <1>4 DEF TypeOK, BatchShape, Stranding
    <3>2. UNCHANGED <<ring, inflight, batch, rec, count, sinks>> /\ (running' => running)
      BY Zenon, <1>3, <1>4 DEF sinks
    <3>. QED
      BY <2>1, <2>2, <3>1, <3>2, CallShape, Zenon
  <2>4. Queued' = Queued
    BY Zenon, <1>4, RingKept
  <2>5. OnItsWay' = OnItsWay
    BY <1>3, <2>4, Zenon DEF OnItsWay
  <2>6. \A u \in Thread : pc'[u] = "flushed" => pc[u] = "flushed"
    BY Zenon, <2>1
  <2>7. FlushCoversAccepted'
    BY <1>3, <2>6, FlushedKept, Zenon
  <2>8. \A u \in Thread : owed'[u] \subseteq Range(OnItsWay)
    BY <1>3, Zenon DEF Owing
  <2>. QED
    BY <1>3, <1>4, <2>3, <2>5, <2>7, <2>8, KeepStep, Zenon
<1>5. CASE /\ running /\ size < Capacity /\ Enqueue(rec[t])
           /\ pc' = [pc EXCEPT ![t] = "idle"] /\ rec' = [rec EXCEPT ![t] = none]
  <2>1. Shape'
    BY <1>1, <1>3, <1>5, ReleaseShape, Zenon
  <2>2. PICK r \in Record : r = rec[t]
    BY Zenon, <1>1, <1>2
  <2>3. Held' = Held \ {r} /\ r \in Held
    BY <1>1, <1>2, <1>5, <2>2, HeldShrinks, Zenon
  <2>4. Submitted' = Submitted
    BY <1>3, Zenon DEF Submitted
  <2>5. Submitted = Range(OnItsWay) \cup Held \cup dropped /\ r \notin Range(OnItsWay)
    BY <2>3, OnceIs, Zenon DEF Once
  <2>6. r = <<t, count[t]>>
    BY <1>1, <2>2, Zenon DEF Holding
  <2>7. ASSUME NEW s \in Range(OnItsWay), s[1] = r[1] PROVE s[2] < r[2]
    <3>1. s \in Record /\ s[2] <= count[s[1]]
      BY <2>5, Zenon DEF Submitted
    <3>2. s = <<s[1], s[2]>> /\ s[2] \in 1..MaxRecords(s[1])
      BY <3>1, RecordPair, Zenon
    <3>3. r[1] = t /\ r[2] = count[t]
      BY Zenon, <2>6
    <3>4. s[1] = t /\ MaxRecords(t) \in Nat /\ count[t] \in Nat
      BY Zenon, <2>7, <3>3, SinkAssumption DEF TypeOK
    <3>5. s[2] # count[t]
      BY Zenon, <2>5, <2>6, <3>2, <3>4
    <3>. QED
      BY <3>1, <3>2, <3>3, <3>4, <3>5
  <2>8. /\ IsInjective(OnItsWay') /\ Range(OnItsWay') = Range(OnItsWay) \cup {r}
        /\ InOrder' /\ Range(delivered) \subseteq Range(delivered')
    BY <1>3, <1>5, <2>2, <2>5, <2>7, EnqueueWay, Zenon
  <2>9. \A u \in Thread : pc'[u] = "flushed" => pc[u] = "flushed"
    BY Zenon, <1>2, <1>5
  <2>. QED
    BY <1>3, <2>1, <2>3, <2>4, <2>8, <2>9, JoinWay, Zenon
<1>. QED
  BY <1>4, <1>5, Zenon DEF SubmitWoken

(***************************************************************************)
(* A submit() that delivers by itself: the record overtakes what is in the *)
(* batch and in the ring, but the sink no longer runs.                     *)
(***************************************************************************)
LEMMA DeliverInlineStep ==
    ASSUME SinkInv, NEW t \in Thread, DeliverInline(t)
    PROVE  SinkInv'
<1>. Shape /\ TypeOK /\ RingShape /\ Holding /\ EachRecordOnce
  BY Zenon DEF SinkInv, Shape
<1>1. /\ pc[t] = "inline" /\ delivered' = Append(delivered, rec[t])
      /\ pc' = [pc EXCEPT ![t] = "idle"] /\ rec' = [rec EXCEPT ![t] = none]
      /\ UNCHANGED <<ring, inflight, running, batch, worker, stopper, count, owed, dropped>>
  BY Zenon DEF DeliverInline
<1>2. rec[t] # none /\ ~running
  BY Zenon, <1>1 DEF Holding
<1>3. Shape'
  BY <1>1, <1>2, ReleaseShape, Zenon
<1>4. rec \in [Thread -> Record \cup {none}] /\ pc \in [Thread -> PcType]
  BY Zenon DEF TypeOK, PcType
<1>5. PICK r \in Record : r = rec[t]
  BY Zenon, <1>2, <1>4
<1>6. Held' = Held \ {r} /\ r \in Held
  BY <1>1, <1>2, <1>4, <1>5, HeldShrinks, Zenon
<1>7. Submitted' = Submitted
  BY <1>1, Zenon DEF Submitted
<1>8. IsInjective(OnItsWay) /\ r \notin Range(OnItsWay)
  BY <1>6, OnceIs, Zenon DEF Once
<1>9. PICK d \in Seq(Record), q \in Seq(Record) : d = delivered /\ q = batch \o Queued
  BY WayTypes, Zenon
<1>10. OnItsWay = d \o q
  BY <1>9, WayTypes, Zenon
<1>11. OnItsWay' = Append(d, r) \o q
  <2>1. PICK a \in Seq(Record) : a = Append(d, r)
    BY Zenon, AppendProperties
  <2>2. PICK b \in Seq(Record), p \in Seq(Record) : b = batch /\ p = Queued
    BY WayTypes, Zenon
  <2>3. (a \o b) \o p = a \o (b \o p)
    BY ONLY a \in Seq(Record), b \in Seq(Record), p \in Seq(Record), ConcatAssociative, SMTT(30)
  <2>4. Queued' = Queued
    BY Zenon, <1>1, RingKept
  <2>5. delivered' = a /\ batch' = b /\ Queued' = p
    BY <1>1, <1>5, <1>9, <2>1, <2>2, <2>4, Zenon
  <2>6. OnItsWay' = (a \o b) \o p
    BY <2>5, Zenon DEF OnItsWay
  <2>7. q = b \o p
    BY <1>9, <2>2, Zenon
  <2>. QED
    BY ONLY <2>1, <2>3, <2>6, <2>7, Zenon
<1>12. IsInjective(d \o q) /\ r \notin Range(d \o q)
  BY <1>8, <1>10, Zenon
<1>13. IsInjective(Append(d, r) \o q) /\ Range(Append(d, r) \o q) = Range(d \o q) \cup {r}
  BY <1>12, InsertOnce
<1>14. Range(delivered) \subseteq Range(delivered')
  <2>1. Range(d) \subseteq Range(Append(d, r))
    BY Zenon, RangeAppend
  <2>. QED
    BY <1>1, <1>5, <1>9, <2>1, Zenon
<1>15. InOrder'
  BY Zenon, <1>1, <1>2 DEF InOrder
<1>16. \A u \in Thread : pc'[u] = "flushed" => pc[u] = "flushed"
  BY Zenon, <1>1, <1>4
<1>17. IsInjective(OnItsWay') /\ Range(OnItsWay') = Range(OnItsWay) \cup {r}
  BY <1>10, <1>11, <1>13, Zenon
<1>. QED
  BY <1>1, <1>3, <1>6, <1>7, <1>14, <1>15, <1>16, <1>17, JoinWay, Zenon

-----------------------------------------------------------------------------
(***************************************************************************)
(* The theorems.                                                           *)
(***************************************************************************)

(***************************************************************************)
(* A sink without records.                                                 *)
(***************************************************************************)
LEMMA InitSink == Init => SinkInv
<1>. SUFFICES ASSUME Init PROVE SinkInv
  BY Zenon
<1>. Capacity \in Nat \ {0} /\ MaxBatch \in Nat /\ \A t \in Thread : MaxRecords(t) \in Nat
  BY Zenon, SinkAssumption
<1>1. Queued = <<>>
  <2>1. Queued = [i \in 1..0 |-> queue[(head + i - 1) % Capacity]]
    BY Zenon DEF Queued, Init
  <2>. QED
    BY <2>1
<1>2. <<>> \in Seq(Record) /\ Len(<<>>) = 0
  BY Zenon, EmptySeq
<1>3. OnItsWay = <<>>
  <2>1. <<>> \o <<>> = <<>>
    BY Zenon, <1>2, ConcatEmptySeq
  <2>. QED
    BY <1>1, <2>1, Zenon DEF OnItsWay, Init
<1>4. TypeOK
  BY <1>2 DEF Init, TypeOK, Slot
<1>5. RingShape
  <2>1. (0 + 0) % Capacity = 0
    OBVIOUS
  <2>. QED
    BY Zenon, <1>1, <1>2, <2>1 DEF Init, RingShape
<1>6. BatchShape /\ Stranding /\ Holding
  BY Zenon DEF Init, BatchShape, Stranding, Holding
<1>7. Range(<<>>) = {} /\ IsInjective(<<>>) /\ Ascending(<<>>)
  BY DEF Range, IsInjective, Ascending
<1>8. Held = {} /\ dropped = {}
  BY Zenon DEF Init, Held
<1>9. Submitted = {}
  <2>1. ASSUME NEW r \in Record PROVE ~(r[2] <= count[r[1]])
    <3>1. r[1] \in Thread /\ r[2] \in 1..MaxRecords(r[1])
      BY RecordPair, Zenon
    <3>2. count[r[1]] = 0
      BY Zenon, <3>1 DEF Init
    <3>. QED
      BY <3>1, <3>2
  <2>. QED
    BY <2>1, Zenon DEF Submitted
<1>10. EachRecordOnce
  BY <1>3, <1>7, <1>8, <1>9, OnceIs, Zenon DEF Once
<1>11. Owing /\ InOrder /\ FlushCoversAccepted
  BY Zenon, <1>3, <1>7 DEF Init, Owing, InOrder, FlushCoversAccepted
<1>. QED
  BY <1>4, <1>5, <1>6, <1>10, <1>11, Zenon DEF SinkInv, Shape

(***************************************************************************)
(* The calls that move no record: flush(), and a thread that goes to       *)
(* sleep.                                                                  *)
(***************************************************************************)
LEMMA FlushStep ==
    ASSUME SinkInv, NEW t \in Thread,
           Park(t) \/ FlushCall(t) \/ FlushWoken(t) \/ FlushReturn(t)
    PROVE  SinkInv'
<1>. Shape /\ TypeOK /\ RingShape /\ BatchShape /\ Holding /\ Stranding
     /\ EachRecordOnce /\ Owing /\ FlushCoversAccepted
  BY Zenon DEF SinkInv, Shape
<1>1. pc \in [Thread -> PcType] /\ owed \in [Thread -> SUBSET Record]
  BY Zenon DEF TypeOK, PcType
<1>2. UNCHANGED <<ring, inflight, running, batch, worker, stopper, rec, count, delivered, dropped>>
  BY Zenon DEF Park, FlushCall, FlushWoken, FlushReturn, sinks
<1>3. /\ pc' \in [Thread -> PcType] /\ \A u \in Thread \ {t} : pc'[u] = pc[u]
      /\ pc'[t] \in {"idle", "parking", "waiting", "flushed"}
      /\ rec[t] # none => pc'[t] = "waiting"
  <2>1. pc[t] \notin {"parking", "waiting", "woken", "inline"} => rec[t] = none
    BY Zenon DEF Holding
  <2>. QED
    BY Zenon, <1>1, <2>1 DEF Park, FlushCall, FlushWoken, FlushReturn, PcType
<1>4. \A u \in Thread :
        /\ rec[u] # none => pc'[u] \in {"parking", "waiting", "woken", "inline"}
        /\ pc'[u] = "inline" => rec[u] # none /\ ~running'
  BY Zenon, <1>2, <1>3 DEF Holding
<1>5. Accepted \subseteq Range(OnItsWay) /\ Accepted \subseteq Record
  BY AcceptedOnItsWay, Zenon
<1>6. /\ owed' \in [Thread -> SUBSET Record] /\ \A u \in Thread \ {t} : owed'[u] = owed[u]
      /\ owed'[t] \in {owed[t], Accepted, {}}
      /\ pc'[t] = "flushed" => Drained
  BY Zenon, <1>1, <1>5 DEF Park, FlushCall, FlushWoken, FlushReturn
<1>7. Shape'
  <2>1. /\ stopper' \in {"none", "notify", "join", "returned"} /\ running' \in BOOLEAN
        /\ worker' \in {"top", "parking", "waiting", "woken", "deliver", "exited"}
        /\ worker' # "deliver" => batch = <<>> /\ inflight = 0
        /\ worker' = "exited" => ~running' /\ size = 0
    BY Zenon, <1>2 DEF TypeOK, BatchShape, Stranding
  <2>2. UNCHANGED <<ring, inflight, batch, rec, count, sinks>> /\ (running' => running)
    BY Zenon, <1>2 DEF sinks
  <2>. QED
    BY <1>3, <1>4, <1>6, <2>1, <2>2, CallShape, Zenon
<1>8. Queued' = Queued
  BY Zenon, <1>2, RingKept
<1>9. OnItsWay' = OnItsWay
  BY <1>2, <1>8, Zenon DEF OnItsWay
<1>10. \A u \in Thread : owed'[u] \subseteq Range(OnItsWay)
  BY <1>5, <1>6, Zenon DEF Owing
<1>11. FlushCoversAccepted'
  <2>1. ASSUME NEW u \in Thread, pc'[u] = "flushed"
        PROVE  owed'[u] \subseteq Range(delivered')
    <3>1. CASE u = t
      <4>1. OnItsWay = delivered
        BY <1>6, <2>1, <3>1, DrainedArrived, Zenon
      <4>. QED
        BY <1>2, <1>10, <4>1, Zenon
    <3>2. CASE u # t
      BY <1>2, <1>3, <1>6, <2>1, <3>2, Zenon DEF FlushCoversAccepted
    <3>. QED
      BY <3>1, <3>2, Zenon
  <2>. QED
    BY <2>1, Zenon DEF FlushCoversAccepted
<1>. QED
  BY <1>2, <1>7, <1>9, <1>10, <1>11, KeepStep, Zenon

(***************************************************************************)
(* The worker's waits, stop() up to the join, and stuttering.              *)
(***************************************************************************)
LEMMA WaitStep ==
    ASSUME SinkInv,
           \/ WorkerExit \/ WorkerWait \/ WorkerPark \/ WorkerTimeout
           \/ Stop \/ StopNotify \/ UNCHANGED vars
    PROVE  SinkInv'
<1>. Shape /\ TypeOK /\ RingShape /\ BatchShape /\ Holding /\ Stranding
     /\ EachRecordOnce /\ Owing /\ FlushCoversAccepted
  BY Zenon DEF SinkInv, Shape
<1>1. pc \in [Thread -> PcType]
  BY Zenon DEF TypeOK, PcType
<1>2. UNCHANGED <<ring, inflight, batch, rec, count, owed, delivered, dropped>>
  BY Zenon DEF WorkerExit, WorkerWait, WorkerPark, WorkerTimeout, Stop, StopNotify, vars, calls, sinks
<1>3. /\ running' \in BOOLEAN /\ (running' => running)
      /\ stopper' \in {"none", "notify", "join", "returned"}
      /\ worker' \in {"top", "parking", "waiting", "woken", "deliver", "exited"}
      /\ worker' # "deliver" => worker # "deliver"
      /\ worker' = "exited" => ~running' /\ size = 0
  <2>1. running' \in BOOLEAN /\ (running' => running)
    <3>1. running' = running \/ running' = FALSE
      BY Zenon DEF WorkerExit, WorkerWait, WorkerPark, WorkerTimeout, Stop, StopNotify, vars
    <3>2. running \in BOOLEAN
      BY Zenon DEF TypeOK
    <3>3. CASE running' = running
      BY <3>2, <3>3, Zenon
    <3>4. CASE running' = FALSE
      BY <3>4, Zenon
    <3>. QED
      BY <3>1, <3>3, <3>4, Zenon
  <2>2. stopper' \in {"none", "notify", "join", "returned"}
    BY Zenon DEF WorkerExit, WorkerWait, WorkerPark, WorkerTimeout, Stop, StopNotify, vars, TypeOK
  <2>3. /\ worker' \in {"top", "parking", "waiting", "woken", "deliver", "exited"}
        /\ worker' # "deliver" => worker # "deliver"
        /\ worker' = "exited" => worker = "exited" \/ WorkerExit
    BY Zenon DEF WorkerExit, WorkerWait, WorkerPark, WorkerTimeout, Stop, StopNotify, vars,
           WorkerNotified, TypeOK
  <2>4. WorkerExit => ~running' /\ size = 0
    <3>1. WorkerExit => running' = running
      BY Zenon DEF WorkerExit
    <3>2. WorkerExit => ~running /\ size = 0
      BY Zenon DEF WorkerExit
    <3>. QED
      BY <3>1, <3>2, Zenon
  <2>. QED
    BY <2>1, <2>2, <2>3, <2>4, Zenon DEF Stranding
<1>4. pc' \in {pc, Notified(pc)}
  BY Zenon DEF WorkerExit, WorkerWait, WorkerPark, WorkerTimeout, Stop, StopNotify, vars, calls
<1>5. /\ pc' \in [Thread -> PcType]
      /\ \A u \in Thread : pc'[u] \in {pc[u], "woken"} /\ (pc[u] # "waiting" => pc'[u] = pc[u])
  BY Zenon, <1>1, <1>4, NotifiedKeeps
<1>6. \A u \in Thread :
        /\ rec[u] # none => pc'[u] \in {"parking", "waiting", "woken", "inline"}
        /\ pc'[u] = "inline" => rec[u] # none /\ ~running'
        /\ pc'[u] = "flushed" => pc[u] = "flushed"
  BY Zenon, <1>3, <1>5 DEF Holding
<1>7. Shape'
  <2>1. UNCHANGED <<ring, inflight, batch, rec, count, sinks>>
    BY Zenon, <1>2 DEF sinks
  <2>2. worker' # "deliver" => batch = <<>> /\ inflight = 0
    BY <1>3, Zenon DEF BatchShape
  <2>3. owed' \in [Thread -> SUBSET Record]
    BY Zenon, <1>2 DEF TypeOK
  <2>. QED
    BY <1>3, <1>5, <1>6, <2>1, <2>2, <2>3, CallShape, Zenon
<1>8. Queued' = Queued
  BY Zenon, <1>2, RingKept
<1>9. OnItsWay' = OnItsWay
  BY <1>2, <1>8, Zenon DEF OnItsWay
<1>10. FlushCoversAccepted'
  BY <1>2, <1>6, FlushedKept, Zenon
<1>11. \A u \in Thread : owed'[u] \subseteq Range(OnItsWay)
  BY <1>2, Zenon DEF Owing
<1>. QED
  BY <1>2, <1>3, <1>7, <1>9, <1>10, <1>11, KeepStep, Zenon

(***************************************************************************)
(* The worker moves records, or stop() has joined it.                      *)
(***************************************************************************)
LEMMA MoveStep ==
    ASSUME SinkInv, WorkerTake \/ WorkerDeliver \/ WorkerDone \/ StopJoin
    PROVE  SinkInv'
<1>. Shape /\ TypeOK /\ Owing /\ FlushCoversAccepted
  BY Zenon DEF SinkInv, Shape
<1>1. Shape' /\ OnItsWay' = OnItsWay
  BY TakeShape, DeliverShape, DoneShape, JoinShape, Zenon
<1>2. UNCHANGED <<running, rec, count, owed, dropped>>
  BY Zenon DEF WorkerTake, WorkerDeliver, WorkerDone, StopJoin, calls, sinks
<1>3. Range(delivered) \subseteq Range(delivered')
  <2>1. CASE WorkerTake \/ WorkerDone
    BY <2>1, Zenon DEF WorkerTake, WorkerDone, sinks
  <2>2. CASE WorkerDeliver
    BY <2>2, DeliverShape, Zenon
  <2>3. CASE StopJoin
    BY <2>3, JoinShape, Zenon
  <2>. QED
    BY <2>1, <2>2, <2>3, Zenon
<1>4. pc' \in {pc, Notified(pc)}
  BY Zenon DEF WorkerTake, WorkerDeliver, WorkerDone, StopJoin, calls
<1>5. \A u \in Thread : pc'[u] = "flushed" => pc[u] = "flushed"
  <2>1. pc \in [Thread -> PcType]
    BY Zenon DEF TypeOK, PcType
  <2>. QED
    BY Zenon, <1>4, <2>1, NotifiedKeeps
<1>6. FlushCoversAccepted'
  BY <1>2, <1>3, <1>5, FlushedKept, Zenon
<1>7. \A u \in Thread : owed'[u] \subseteq Range(OnItsWay)
  BY <1>2, Zenon DEF Owing
<1>. QED
  BY <1>1, <1>2, <1>6, <1>7, KeepStep, Zenon

(***************************************************************************)
(* A submit() that stops short of the ring.                                *)
(***************************************************************************)
LEMMA SubmitAsideStep ==
    ASSUME SinkInv, NEW t \in Thread, SubmitStopped(t) \/ SubmitDrop(t) \/ SubmitWait(t)
    PROVE  SinkInv'
<1>. Shape /\ TypeOK
  BY Zenon DEF SinkInv, Shape
<1>1. pc \in [Thread -> PcType]
  BY Zenon DEF TypeOK, PcType
<1>2. PICK r \in Record :
        /\ Submits(t, r)
        /\ UNCHANGED <<ring, inflight, running, batch, worker, stopper, owed, delivered>>
        /\ \/ UNCHANGED <<pc, rec>> /\ dropped' = dropped \cup {r}
           \/ /\ UNCHANGED dropped /\ rec' = [rec EXCEPT ![t] = r]
              /\ \/ pc' = [pc EXCEPT ![t] = "parking"]
                 \/ pc' = [pc EXCEPT ![t] = "inline"] /\ ~running
  BY Zenon DEF SubmitStopped, SubmitDrop, SubmitWait, sinks
<1>3. Shape'
  BY <1>2, SubmitShape, Zenon
<1>4. \A u \in Thread : pc'[u] = "flushed" => pc[u] = "flushed"
  BY Zenon, <1>1, <1>2
<1>. QED
  BY <1>2, <1>3, <1>4, SubmitStep, Zenon

\* The invariant is inductive: every action keeps it.
LEMMA SinkStep == SinkInv /\ [Next]_vars => SinkInv'
<1>. SUFFICES ASSUME SinkInv, [Next]_vars PROVE SinkInv'
  BY Zenon
<1>1. ASSUME NEW t \in Thread, ThreadStep(t) PROVE SinkInv'
  <2>1. CASE SubmitStopped(t) \/ SubmitDrop(t) \/ SubmitWait(t)
    BY <2>1, SubmitAsideStep, Zenon
  <2>2. CASE SubmitEnqueue(t)
    BY <2>2, SubmitEnqueueStep, Zenon
  <2>3. CASE SubmitWoken(t)
    BY <2>3, SubmitWokenStep, Zenon
  <2>4. CASE DeliverInline(t)
    BY <2>4, DeliverInlineStep, Zenon
  <2>5. CASE Park(t) \/ FlushCall(t) \/ FlushWoken(t) \/ FlushReturn(t)
    BY <2>5, FlushStep, Zenon
  <2>. QED
    BY <1>1, <2>1, <2>2, <2>3, <2>4, <2>5, Zenon DEF ThreadStep
<1>2. CASE WorkerTake \/ WorkerDeliver \/ WorkerDone \/ StopJoin
  BY <1>2, MoveStep, Zenon
<1>3. CASE \/ WorkerExit \/ WorkerWait \/ WorkerPark \/ WorkerTimeout
           \/ Stop \/ StopNotify \/ UNCHANGED vars
  BY <1>3, WaitStep, Zenon
<1>. QED
  BY <1>1, <1>2, <1>3, Zenon DEF Next, WorkerStep

\* It holds in every reachable state.
LEMMA SinkInvariant == Spec => []SinkInv
  BY InitSink, SinkStep, PTL DEF Spec

(***************************************************************************)
(* The indices of the ring stay in it, size_ within the capacity, and the  *)
(* rest of AsyncSink's state in its type.                                  *)
(***************************************************************************)
THEOREM SinkTypeCorrect == Spec => []TypeOK
<1>1. SinkInv => TypeOK
  BY Zenon DEF SinkInv, Shape
<1>. QED
  BY <1>1, SinkInvariant, PTL

(***************************************************************************)
(* No record is lost, duplicated or overwritten between submit() and the   *)
(* downstream sinks, whatever stop() and the overflow policy do.           *)
(***************************************************************************)
THEOREM SinkKeepsEachRecord == Spec => []EachRecordOnce
<1>1. SinkInv => EachRecordOnce
  BY Zenon DEF SinkInv
<1>. QED
  BY <1>1, SinkInvariant, PTL

(***************************************************************************)
(* flush() returns only when the downstream sinks have every record whose  *)
(* submit() returned before flush() was called.                            *)
(***************************************************************************)
THEOREM FlushCovers == Spec => []FlushCoversAccepted
<1>1. SinkInv => FlushCoversAccepted
  BY Zenon DEF SinkInv
<1>. QED
  BY <1>1, SinkInvariant, PTL

(***************************************************************************)
(* The worker leaves its loop with an empty ring, and it stays empty.      *)
(***************************************************************************)
THEOREM WorkerStrandsNothing == Spec => []NothingStranded
<1>1. SinkInv => NothingStranded
  BY Zenon DEF SinkInv, Shape, Stranding, NothingStranded
<1>. QED
  BY <1>1, SinkInvariant, PTL

(***************************************************************************)
(* While running_ is true the downstream sinks get the records of each     *)
(* thread in the order of its submit() calls.                              *)
(***************************************************************************)
THEOREM DeliveryInOrder == Spec => []InOrderWhileRunning
<1>1. SinkInv => InOrderWhileRunning
  <2>. SUFFICES ASSUME SinkInv, running PROVE Ascending(delivered)
    BY Zenon DEF InOrderWhileRunning, Ascending
  <2>1. PICK d \in Seq(Record), q \in Seq(Record) :
          d = delivered /\ q = batch \o Queued /\ OnItsWay = d \o q
    BY WayTypes, Zenon DEF SinkInv
  <2>2. Ascending(d \o q)
    BY <2>1, Zenon DEF SinkInv, InOrder
  <2>3. Ascending(d)
    BY Zenon, <2>2, PrefixAscending
  <2>. QED
    BY <2>1, <2>3, Zenon
<1>. QED
  BY <1>1, SinkInvariant, PTL
=============================================================================
