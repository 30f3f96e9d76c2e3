--------------------------- MODULE LRUCacheProofs ---------------------------
(***************************************************************************)
(* The table cache, proved for any number of threads, ids and handles, any *)
(* charges and any capacity.                                               *)
(*                                                                         *)
(* Sound(c, p, k, n) is said of a cache value c, the number p[h] of        *)
(* threads that hold each handle, the keys k and the next handle n: each   *)
(* reference is a thread's or the cache's own, the two lists split the     *)
(* cached handles by whether a thread holds them, and usage is the sum of  *)
(* the charges.  Ref, Unref and FinishErase keep it, up to the one         *)
(* reference they move; the loops of Insert and Prune keep it by induction *)
(* over their rounds; and the actions are put together from these.         *)
(***************************************************************************)
EXTENDS LRUCache, SequenceTheorems, FiniteSetTheorems, WellFoundedInduction, TLAPS

\* Steps without a prover of their own get more than the default time.
USE SMTT(30)

(***************************************************************************)
(* A non-empty set of numbers has a least element, and Min returns it.     *)
(***************************************************************************)
LEMMA MinProperties ==
    ASSUME NEW S \in SUBSET Nat, S # {}
    PROVE  /\ Min(S) \in S
           /\ Min(S) \in Nat
           /\ \A y \in S : Min(S) <= y
<1>1. \E x \in S : \A y \in S : ~(<<y, x>> \in OpToRel(<, Nat))
  BY WFMin, NatLessThanWellFounded, Zenon
<1>2. PICK x \in S : \A y \in S : ~(<<y, x>> \in OpToRel(<, Nat))
  BY Zenon, <1>1
<1>3. \A y \in S : ~(y < x)
  BY <1>2, Zenon DEF OpToRel
<1>4. \A y \in S : x =< y
  BY <1>3
<1>. QED
  BY Zenon, <1>4 DEF Min

(***************************************************************************)
(* Induction up to a bound, on a set instead of a predicate.               *)
(***************************************************************************)
LEMMA UpTo ==
    ASSUME NEW N \in Nat, NEW G,
           0 \in G, \A n \in 0..(N - 1) : n \in G => n + 1 \in G
    PROVE  \A n \in 0..N : n \in G
<1>. DEFINE B == {n \in 0..N : n \notin G}
<1>1. SUFFICES ASSUME B # {} PROVE FALSE
  OBVIOUS
<1>2. B \in SUBSET Nat
  OBVIOUS
<1>3. PICK m \in B : \A y \in B : m <= y
  BY <1>1, <1>2, MinProperties, Zenon
<1>4. m # 0 /\ m - 1 \in 0..(N - 1) /\ m - 1 \notin B
  BY <1>3
<1>5. m - 1 \in G
  BY <1>4
<1>6. m \in G
  BY <1>4, <1>5
<1>. QED
  BY <1>3, <1>6

-----------------------------------------------------------------------------
(***************************************************************************)
(* The charge of a set of handles, with k the keys of the handles.         *)
(***************************************************************************)
Total(S, k) == MapThenSumSet(LAMBDA h : Charge(k[h]), S)

\* T is the sum of the charges, for every subset of S.
Sums(T, S, k) ==
    /\ T \in [SUBSET S -> Nat]
    /\ T[{}] = 0
    /\ \A s \in SUBSET S : \A x \in s : T[s] = Charge(k[x]) + T[s \ {x}]

(***************************************************************************)
(* There is such a sum for the handles up to any n.                        *)
(***************************************************************************)
LEMMA SumsUpTo ==
    ASSUME NEW S \in SUBSET Handle, NEW k, \A h \in S : Charge(k[h]) \in Nat
    PROVE  \E T : Sums(T, S, k)
<1>. DEFINE P(n) == S \cap (1..n)
            G == {n \in Nat : \E T : Sums(T, P(n), k)}
<1>0. MaxHandle \in Nat
  BY CacheAssumption
<1>1. 0 \in G
  <2>1. P(0) = {}
    OBVIOUS
  <2>2. Sums([s \in SUBSET {} |-> 0], {}, k)
    BY DEF Sums
  <2>. QED
    BY <2>1, <2>2
<1>2. ASSUME NEW n \in 0..(MaxHandle - 1), n \in G PROVE n + 1 \in G
  <2>1. PICK T : Sums(T, P(n), k)
    BY <1>2
  <2>. DEFINE m == n + 1
              D(s) == IF m \in s THEN Charge(k[m]) ELSE 0
              U == [s \in SUBSET P(m) |-> T[s \ {m}] + D(s)]
  <2>2. /\ T \in [SUBSET P(n) -> Nat] /\ T[{}] = 0
        /\ \A s \in SUBSET P(n) : \A x \in s : T[s] = Charge(k[x]) + T[s \ {x}]
    BY <2>1, Zenon DEF Sums
  <2>3. \A s \in SUBSET P(m) : s \ {m} \in SUBSET P(n)
    OBVIOUS
  <2>4. \A s \in SUBSET P(m) : D(s) \in Nat
    OBVIOUS
  <2>5. \A s \in SUBSET P(m) : T[s \ {m}] \in Nat
    BY <2>2, <2>3
  <2>6. U \in [SUBSET P(m) -> Nat]
    <3>1. \A a, b \in Nat : a + b \in Nat
      OBVIOUS
    <3>2. \A s \in SUBSET P(m) : T[s \ {m}] + D(s) \in Nat
      BY <2>4, <2>5, <3>1, Zenon
    <3>. QED
      BY <3>2, Zenon
  <2>7. U[{}] = 0
    <3>1. {} \in SUBSET P(m) /\ {} \ {m} = {} /\ D({}) = 0
      OBVIOUS
    <3>2. U[{}] = T[{}] + 0
      BY <3>1
    <3>. QED
      BY <3>2, <2>2
  <2>8. ASSUME NEW s \in SUBSET P(m), NEW x \in s
        PROVE  U[s] = Charge(k[x]) + U[s \ {x}]
    <3>1. s \ {x} \in SUBSET P(m)
      OBVIOUS
    <3>2. U[s] = T[s \ {m}] + D(s) /\ U[s \ {x}] = T[(s \ {x}) \ {m}] + D(s \ {x})
      BY <3>1
    <3>3. Charge(k[x]) \in Nat
      OBVIOUS
    <3>4. CASE x = m
      <4>1. (s \ {x}) \ {m} = s \ {m} /\ D(s) = Charge(k[x]) /\ D(s \ {x}) = 0
        BY <3>4
      <4>2. \A a, b \in Nat : a + b = b + (a + 0)
        OBVIOUS
      <4>3. T[s \ {m}] \in Nat
        BY <2>5, Zenon
      <4>. HIDE DEF D, U
      <4>. QED
        BY <4>1, <4>2, <4>3, <3>2, <3>3, ZenonT(30)
    <3>5. CASE x # m
      <4>1. D(s \ {x}) = D(s)
        BY <3>5
      <4>2. x \in s \ {m} /\ (s \ {m}) \ {x} = (s \ {x}) \ {m}
        BY <3>5
      <4>3. T[s \ {m}] = Charge(k[x]) + T[(s \ {m}) \ {x}]
        BY <4>2, <2>2, <2>3, Zenon
      <4>4. T[(s \ {x}) \ {m}] \in Nat /\ D(s) \in Nat
        BY <3>1, <2>4, <2>5, Zenon
      <4>5. \A a, b, d \in Nat : (a + b) + d = a + (b + d)
        OBVIOUS
      <4>. HIDE DEF D, U
      <4>6. U[s] = (Charge(k[x]) + T[(s \ {x}) \ {m}]) + D(s)
        BY <4>2, <4>3, <3>2, Zenon
      <4>7. U[s \ {x}] = T[(s \ {x}) \ {m}] + D(s)
        BY <4>1, <3>2, Zenon
      <4>8. U[s] = Charge(k[x]) + (T[(s \ {x}) \ {m}] + D(s))
        BY <4>4, <4>5, <4>6, <3>3, Zenon
      <4>. QED
        BY <4>7, <4>8, Zenon
    <3>. QED
      BY <3>4, <3>5
  <2>9. Sums(U, P(m), k)
    <3>. HIDE DEF U
    <3>. QED
      BY <2>6, <2>7, <2>8, Zenon DEF Sums
  <2>. QED
    BY <2>9
<1>3. MaxHandle \in G
  <2>. HIDE DEF G
  <2>. QED
    BY <1>0, <1>1, <1>2, UpTo
<1>4. P(MaxHandle) = S
  BY <1>0, Zenon DEF Handle
<1>. QED
  BY <1>3, <1>4

(***************************************************************************)
(* The fold of MapThenSumSet computes it, whichever element it takes next. *)
(***************************************************************************)
LEMMA TotalIsSum ==
    ASSUME NEW S \in SUBSET Handle, NEW k, NEW T, Sums(T, S, k)
    PROVE  Total(S, k) = T[S]
<1>. DEFINE pick(s) == CHOOSE x \in s : TRUE
            E(f, s) == IF s = {} THEN 0 ELSE Charge(k[pick(s)]) + f[s \ {pick(s)}]
            iter == CHOOSE f : f = [s \in SUBSET S |-> E(f, s)]
<1>1. Total(S, k) = iter[S]
  BY DEF Total, MapThenSumSet, MapThenFoldSet
<1>2. \A s \in SUBSET S : s # {} => pick(s) \in s
  BY Zenon
<1>3. T = [s \in SUBSET S |-> E(T, s)]
  <2>1. T = [s \in SUBSET S |-> T[s]]
    BY DEF Sums
  <2>2. \A s \in SUBSET S : T[s] = E(T, s)
    BY <1>2, Zenon DEF Sums
  <2>. QED
    BY <2>1, <2>2, Zenon
<1>4. iter = [s \in SUBSET S |-> E(iter, s)]
  BY <1>3, Zenon
<1>. HIDE DEF iter
<1>5. \A s \in SUBSET S : iter[s] = E(iter, s)
  BY <1>4, Zenon
<1>6. MaxHandle \in Nat /\ IsFiniteSet(Handle) /\ Cardinality(Handle) = MaxHandle
  BY CacheAssumption, FS_Interval DEF Handle
<1>7. \A s \in SUBSET S : IsFiniteSet(s) /\ Cardinality(s) \in 0..MaxHandle
  BY <1>6, FS_Subset, FS_CardinalityType
<1>. DEFINE G == {n \in Nat : \A s \in SUBSET S : Cardinality(s) = n => iter[s] = T[s]}
<1>8. 0 \in G
  <2>1. \A s \in SUBSET S : Cardinality(s) = 0 => s = {}
    BY <1>7, FS_EmptySet
  <2>2. iter[{}] = T[{}]
    BY <1>5, Zenon DEF Sums
  <2>. QED
    BY <2>1, <2>2
<1>9. ASSUME NEW n \in 0..(MaxHandle - 1), n \in G PROVE n + 1 \in G
  <2>1. SUFFICES ASSUME NEW s \in SUBSET S, Cardinality(s) = n + 1
                 PROVE  iter[s] = T[s]
    OBVIOUS
  <2>2. s # {}
    BY <2>1, FS_EmptySet
  <2>3. PICK x \in s : x = pick(s)
    BY <2>2, <1>2
  <2>4. s \ {x} \in SUBSET S /\ Cardinality(s \ {x}) = n
    BY SMTT(30), <2>1, <1>7, FS_RemoveElement
  <2>5. iter[s \ {x}] = T[s \ {x}]
    BY <1>9, <2>4
  <2>6. iter[s] = Charge(k[x]) + iter[s \ {x}]
    BY <2>2, <2>3, <1>5, Zenon
  <2>7. T[s] = Charge(k[x]) + T[s \ {x}]
    BY Zenon DEF Sums
  <2>. QED
    BY <2>5, <2>6, <2>7, Zenon
<1>10. \A n \in 0..MaxHandle : n \in G
  <2>. HIDE DEF G
  <2>. QED
    BY <1>6, <1>8, <1>9, UpTo
<1>11. iter[S] = T[S]
  BY <1>7, <1>10
<1>. QED
  BY <1>1, <1>11, Zenon

(***************************************************************************)
(* A handle's charge is a part of the total; the total does not depend on  *)
(* the keys of other handles.                                              *)
(***************************************************************************)
LEMMA TotalEmpty ==
    ASSUME NEW k
    PROVE  Total({}, k) = 0
<1>1. {} \in SUBSET Handle
  OBVIOUS
<1>2. Sums([s \in SUBSET {} |-> 0], {}, k)
  BY DEF Sums
<1>. QED
  BY <1>1, <1>2, TotalIsSum

\* A handle joins a set: its charge is added.
LEMMA TotalSplit ==
    ASSUME NEW S \in SUBSET Handle, NEW k, \A h \in S : Charge(k[h]) \in Nat,
           NEW x \in S
    PROVE  /\ Total(S, k) = Charge(k[x]) + Total(S \ {x}, k)
           /\ Total(S, k) \in Nat /\ Total(S \ {x}, k) \in Nat
<1>1. PICK T : Sums(T, S, k)
  BY SumsUpTo, Zenon
<1>. DEFINE R == S \ {x}
            U == [s \in SUBSET R |-> T[s]]
<1>2. R \in SUBSET Handle /\ SUBSET R \subseteq SUBSET S /\ {} \in SUBSET R
  OBVIOUS
<1>3. Sums(U, R, k)
  <2>1. U \in [SUBSET R -> Nat] /\ U[{}] = 0
    BY <1>1, <1>2 DEF Sums
  <2>2. \A s \in SUBSET R : \A y \in s : s \ {y} \in SUBSET R
    OBVIOUS
  <2>3. \A s \in SUBSET R : \A y \in s : U[s] = Charge(k[y]) + U[s \ {y}]
    BY <1>1, <1>2, <2>2, Zenon DEF Sums
  <2>. QED
    BY <2>1, <2>3, Zenon DEF Sums
<1>4. Total(S, k) = T[S] /\ Total(R, k) = U[R]
  BY <1>1, <1>2, <1>3, TotalIsSum, Zenon
<1>5. U[R] = T[R] /\ T[S] = Charge(k[x]) + T[R]
  BY <1>1, Zenon DEF Sums
<1>6. T[S] \in Nat /\ T[R] \in Nat
  BY <1>1, <1>2 DEF Sums
<1>. QED
  BY <1>4, <1>5, <1>6, Zenon

\* The total depends only on the keys of the handles in the set.
LEMMA TotalSame ==
    ASSUME NEW S \in SUBSET Handle, NEW k, NEW l,
           \A h \in S : Charge(k[h]) \in Nat /\ l[h] = k[h]
    PROVE  Total(S, l) = Total(S, k) /\ Total(S, k) \in Nat
<1>1. PICK T : Sums(T, S, k)
  BY SumsUpTo, Zenon
<1>2. Sums(T, S, l)
  <2>1. \A s \in SUBSET S : \A x \in s : x \in S
    OBVIOUS
  <2>2. \A s \in SUBSET S : \A x \in s : T[s] = Charge(l[x]) + T[s \ {x}]
    BY <1>1, <2>1, Zenon DEF Sums
  <2>. QED
    BY <1>1, <2>2, Zenon DEF Sums
<1>3. T[S] \in Nat
  BY <1>1 DEF Sums
<1>. QED
  BY <1>1, <1>2, <1>3, TotalIsSum, Zenon

-----------------------------------------------------------------------------
(***************************************************************************)
(* LRU_remove unlinks one entry and keeps the order of the others.         *)
(***************************************************************************)
LEMMA Unlinked ==
    ASSUME NEW s \in Seq(Handle), NEW h, IsInjective(s)
    PROVE  /\ Unlink(s, h) \in Seq(Handle)
           /\ Range(Unlink(s, h)) = Range(s) \ {h}
           /\ IsInjective(Unlink(s, h))
           /\ s # <<>> /\ h = Head(s) => Unlink(s, h) = Tail(s)
<1>0. Len(s) \in Nat /\ DOMAIN s = 1..Len(s) /\ \A j \in 1..Len(s) : s[j] \in Handle
  OBVIOUS
<1>1. CASE h \notin Range(s)
  <2>1. Unlink(s, h) = s
    BY <1>1, Zenon DEF Unlink
  <2>2. s # <<>> => h # Head(s)
    BY <1>0, <1>1 DEF Range
  <2>. QED
    BY <1>1, <2>1, <2>2
<1>2. CASE h \in Range(s)
  <2>1. \E i \in DOMAIN s : s[i] = h
    BY <1>2, Zenon DEF Range
  <2>2. PICK i : i = CHOOSE j \in DOMAIN s : s[j] = h
    OBVIOUS
  <2>3. i \in DOMAIN s /\ s[i] = h
    BY <2>1, <2>2, Zenon
  <2>4. Unlink(s, h) = SubSeq(s, 1, i - 1) \o SubSeq(s, i + 1, Len(s))
    BY <1>2, <2>2, Zenon DEF Unlink
  <2>5. i \in 1..Len(s) /\ s[i] = h
    BY <2>3, <1>0, Zenon
  <2>6. PICK a \in Seq(Handle) : a = SubSeq(s, 1, i - 1)
    <3>1. SubSeq(s, 1, i - 1) \in Seq(Handle)
      BY <2>5, <1>0, SubSeqProperties
    <3>. QED
      BY <3>1, Zenon
  <2>7. PICK b \in Seq(Handle) : b = SubSeq(s, i + 1, Len(s))
    <3>1. SubSeq(s, i + 1, Len(s)) \in Seq(Handle)
      BY <2>5, <1>0, SubSeqProperties
    <3>. QED
      BY <3>1, Zenon
  <2>8. Len(a) = i - 1 /\ \A j \in 1..(i - 1) : a[j] = s[j]
    BY <2>5, <2>6
  <2>9. Len(b) = Len(s) - i /\ \A j \in 1..(Len(s) - i) : b[j] = s[j + i]
    BY <2>5, <2>7
  <2>10. PICK r \in Seq(Handle) : r = a \o b
    BY ConcatProperties, Zenon
  <2>11. Len(r) = Len(s) - 1 /\ DOMAIN r = 1..(Len(s) - 1)
    BY <2>5, <2>8, <2>9, <2>10
  <2>12. \A j \in 1..(Len(s) - 1) : r[j] = IF j < i THEN s[j] ELSE s[j + 1]
    BY <2>5, <2>8, <2>9, <2>10
  <2>13. Unlink(s, h) = r
    BY <2>4, <2>6, <2>7, <2>10, Zenon
  <2>14. \A j, l \in 1..Len(s) : s[j] = s[l] => j = l
    BY <1>0, Zenon DEF IsInjective
  <2>15. Range(r) = Range(s) \ {h}
    <3>1. ASSUME NEW x \in Range(r) PROVE x \in Range(s) /\ x # h
      <4>1. PICK j \in 1..(Len(s) - 1) : r[j] = x
        BY <3>1, <2>11 DEF Range
      <4>2. PICK l \in 1..Len(s) : s[l] = x /\ l # i
        <5>1. CASE j < i
          <6>1. j \in 1..Len(s) /\ j # i
            BY <5>1, <2>5
          <6>2. s[j] = x
            BY <5>1, <4>1, <2>12, Zenon
          <6>. QED
            BY <6>1, <6>2, Zenon
        <5>2. CASE ~(j < i)
          <6>1. j + 1 \in 1..Len(s) /\ j + 1 # i
            BY <5>2, <4>1, <2>5
          <6>. QED
            BY <5>2, <6>1, <4>1, <2>12, Zenon
        <5>. QED
          BY <5>1, <5>2, Zenon
      <4>. QED
        BY <4>2, <2>5, <2>14, <1>0, Zenon DEF Range
    <3>2. ASSUME NEW x \in Range(s), x # h PROVE x \in Range(r)
      <4>1. PICK l \in 1..Len(s) : s[l] = x /\ l # i
        BY <3>2, <1>0, <2>5 DEF Range
      <4>2. PICK j \in 1..(Len(s) - 1) : r[j] = x
        <5>1. CASE l < i
          <6>1. l \in 1..(Len(s) - 1)
            BY <5>1, <2>5
          <6>. QED
            BY <5>1, <6>1, <4>1, <2>12, Zenon
        <5>2. CASE l > i
          <6>1. l - 1 \in 1..(Len(s) - 1) /\ ~(l - 1 < i) /\ (l - 1) + 1 = l
            BY <5>2, <4>1, <2>5
          <6>. QED
            BY <6>1, <4>1, <2>12, Zenon
        <5>3. l < i \/ l > i
          BY ONLY <4>1, <2>5, Len(s) \in Nat
        <5>. QED
          BY <5>1, <5>2, <5>3, Zenon
      <4>. QED
        BY <4>2, <2>11, Zenon DEF Range
    <3>. QED
      BY <3>1, <3>2, Zenon
  <2>16. IsInjective(r)
    <3>1. SUFFICES ASSUME NEW j \in 1..(Len(s) - 1), NEW l \in 1..(Len(s) - 1), r[j] = r[l]
                   PROVE  j = l
      BY <2>11, Zenon DEF IsInjective
    <3>. DEFINE f(x) == IF x < i THEN x ELSE x + 1
    <3>2. f(j) \in 1..Len(s) /\ f(l) \in 1..Len(s)
      BY <2>5
    <3>3. r[j] = s[f(j)] /\ r[l] = s[f(l)]
      BY <2>12
    <3>4. f(j) = f(l)
      <4>. HIDE DEF f
      <4>. QED
        BY <3>1, <3>2, <3>3, <2>14, Zenon
    <3>. QED
      BY <3>4, <2>5
  <2>17. ASSUME s # <<>>, h = Head(s) PROVE r = Tail(s)
    <3>1. i = 1
      BY <2>17, <2>5, <2>14
    <3>2. Tail(s) \in Seq(Handle) /\ Len(Tail(s)) = Len(s) - 1
      BY <2>17
    <3>3. \A j \in 1..(Len(s) - 1) : Tail(s)[j] = s[j + 1]
      BY <2>17
    <3>4. \A j \in 1..(Len(s) - 1) : r[j] = s[j + 1]
      BY <3>1, <2>12
    <3>. QED
      BY <3>2, <3>3, <3>4, <2>11, SeqEqual
  <2>. QED
    BY <2>13, <2>15, <2>16, <2>17, Zenon
<1>. QED
  BY <1>1, <1>2, Zenon

(***************************************************************************)
(* LRU_append puts an entry at the newest end.                             *)
(***************************************************************************)
LEMMA Linked ==
    ASSUME NEW s \in Seq(Handle), NEW h \in Handle, IsInjective(s), h \notin Range(s)
    PROVE  /\ Append(s, h) \in Seq(Handle)
           /\ Range(Append(s, h)) = Range(s) \cup {h}
           /\ IsInjective(Append(s, h))
<1>1. Len(s) \in Nat /\ DOMAIN s = 1..Len(s)
  OBVIOUS
<1>2. PICK r \in Seq(Handle) : r = Append(s, h)
  BY AppendProperties, Zenon
<1>3. DOMAIN r = 1..(Len(s) + 1) /\ r[Len(s) + 1] = h
  BY <1>2
<1>4. \A j \in 1..Len(s) : r[j] = s[j]
  BY <1>2
<1>5. \A j \in 1..(Len(s) + 1) : j = Len(s) + 1 \/ j \in 1..Len(s)
  BY <1>1
<1>6. Range(r) = Range(s) \cup {h}
  BY <1>1, <1>3, <1>4, <1>5 DEF Range
<1>7. IsInjective(r)
  BY <1>1, <1>3, <1>4, <1>5 DEF IsInjective, Range
<1>. QED
  BY <1>2, <1>6, <1>7, Zenon

-----------------------------------------------------------------------------
(***************************************************************************)
(* What the private operations do to each field of the cache.              *)
(***************************************************************************)
LEMMA CacheFields ==
    ASSUME NEW c \in Cache
    PROVE  /\ c.table \in [Id -> Handle \cup {none}]
           /\ c.lru \in Seq(Handle)
           /\ c.in_use \in SUBSET Handle
           /\ c.usage \in Nat
           /\ c.refs \in [Handle -> Nat]
           /\ c.in_cache \in SUBSET Handle
           /\ c.deleted \in [Handle -> Nat]
  BY DEF Cache

\* Ref(h): one reference more, and an idle entry leaves the LRU list.
LEMMA RefEffect ==
    ASSUME NEW c \in Cache, NEW h \in Handle, IsInjective(c.lru)
    PROVE  LET pins == c.refs[h] = 1 /\ h \in c.in_cache
               d == Ref(c, h)
           IN  /\ d \in Cache
               /\ d.table = c.table /\ d.usage = c.usage
               /\ d.in_cache = c.in_cache /\ d.deleted = c.deleted
               /\ d.refs = [c.refs EXCEPT ![h] = @ + 1]
               /\ d.lru = IF pins THEN Unlink(c.lru, h) ELSE c.lru
               /\ d.in_use = IF pins THEN c.in_use \cup {h} ELSE c.in_use
<1>1. Unlink(c.lru, h) \in Seq(Handle)
  BY CacheFields, Unlinked, Zenon
<1>2. PICK r \in Seq(Handle) : r = Unlink(c.lru, h)
  BY <1>1, Zenon
<1>3. c.refs[h] \in Nat
  BY CacheFields
<1>4. PICK f \in [Handle -> Nat] : f = [c.refs EXCEPT ![h] = @ + 1]
  <2>1. [c.refs EXCEPT ![h] = @ + 1] \in [Handle -> Nat]
    BY CacheFields
  <2>. QED
    BY <2>1, Zenon
<1>5. CASE c.refs[h] = 1 /\ h \in c.in_cache
  <2>1. PICK u \in SUBSET Handle : u = c.in_use \cup {h} /\ u = (c.in_use \ {h}) \cup {h}
    <3>1. c.in_use \cup {h} \in SUBSET Handle
      BY CacheFields
    <3>2. c.in_use \cup {h} = (c.in_use \ {h}) \cup {h}
      BY Zenon
    <3>. QED
      BY <3>1, <3>2, Zenon
  <2>2. Ref(c, h) = [c EXCEPT !.lru = r, !.in_use = u, !.refs = f]
    BY <1>2, <1>4, <1>5, <2>1, Zenon DEF Cache, Ref, LRU_remove
  <2>. QED
    BY <1>2, <1>4, <1>5, <2>1, <2>2, Zenon DEF Cache
<1>6. CASE ~(c.refs[h] = 1 /\ h \in c.in_cache)
  <2>1. Ref(c, h) = [c EXCEPT !.refs = f]
    BY <1>4, <1>6, Zenon DEF Cache, Ref
  <2>. QED
    BY <1>4, <1>6, <2>1, Zenon DEF Cache
<1>. QED
  BY <1>5, <1>6, Zenon

\* Unref(h): one reference less; the last one deletes, the one before last
\* puts a cached entry at the young end of the LRU list.
LEMMA UnrefEffect ==
    ASSUME NEW c \in Cache, NEW h \in Handle, IsInjective(c.lru), c.refs[h] > 0
    PROVE  LET unpins == c.refs[h] = 2 /\ h \in c.in_cache
               d == Unref(c, h)
           IN  /\ d \in Cache
               /\ d.table = c.table /\ d.usage = c.usage
               /\ d.in_cache = c.in_cache
               /\ d.deleted = IF c.refs[h] = 1 THEN [c.deleted EXCEPT ![h] = @ + 1]
                              ELSE c.deleted
               /\ d.refs = [c.refs EXCEPT ![h] = @ - 1]
               /\ d.lru = IF unpins THEN Append(Unlink(c.lru, h), h) ELSE c.lru
               /\ d.in_use = IF unpins THEN c.in_use \ {h} ELSE c.in_use
<1>1. Unlink(c.lru, h) \in Seq(Handle)
  BY CacheFields, Unlinked, Zenon
<1>2. PICK r \in Seq(Handle) : r = Unlink(c.lru, h)
  BY <1>1, Zenon
<1>3. c.refs[h] \in Nat
  BY CacheFields
<1>4. PICK f \in [Handle -> Nat] : f = [c.refs EXCEPT ![h] = @ - 1] /\ f[h] = c.refs[h] - 1
  <2>1. [c.refs EXCEPT ![h] = @ - 1] \in [Handle -> Nat]
    BY CacheFields
  <2>2. [c.refs EXCEPT ![h] = @ - 1][h] = c.refs[h] - 1
    BY CacheFields
  <2>. QED
    BY <2>1, <2>2, Zenon
<1>. DEFINE less == [c EXCEPT !.refs[h] = @ - 1]
<1>5. less = [c EXCEPT !.refs = f] /\ less \in Cache /\ less.refs = f
  BY <1>4, Zenon DEF Cache
<1>6. CASE c.refs[h] = 1
  <2>1. less.refs[h] = 0 /\ c.refs[h] # 2
    BY <1>4, <1>5, <1>6
  <2>2. PICK g \in [Handle -> Nat] : g = [c.deleted EXCEPT ![h] = @ + 1]
    <3>1. [c.deleted EXCEPT ![h] = @ + 1] \in [Handle -> Nat]
      BY CacheFields
    <3>. QED
      BY <3>1, Zenon
  <2>3. Unref(c, h) = [c EXCEPT !.refs = f, !.deleted = g]
    BY <1>4, <2>1, <2>2, Zenon DEF Cache, Unref
  <2>. QED
    BY <1>4, <1>6, <2>1, <2>2, <2>3, Zenon DEF Cache
<1>7. CASE c.refs[h] = 2 /\ h \in c.in_cache
  <2>1. less.refs[h] # 0 /\ less.refs[h] = 1 /\ c.refs[h] # 1
    BY <1>4, <1>5, <1>7
  <2>2. PICK a \in Seq(Handle) : a = Append(r, h)
    BY AppendProperties, Zenon
  <2>3. PICK u \in SUBSET Handle : u = c.in_use \ {h}
    <3>1. c.in_use \ {h} \in SUBSET Handle
      BY CacheFields
    <3>. QED
      BY <3>1, Zenon
  <2>4. Unref(c, h) = [c EXCEPT !.refs = f, !.lru = a, !.in_use = u]
    BY <1>2, <1>4, <1>7, <2>1, <2>2, <2>3, Zenon DEF Cache, Unref, LRU_remove
  <2>. QED
    BY <1>2, <1>4, <1>7, <2>1, <2>2, <2>3, <2>4, Zenon DEF Cache
<1>8. CASE c.refs[h] # 1 /\ ~(c.refs[h] = 2 /\ h \in c.in_cache)
  <2>1. less.refs[h] # 0 /\ ~(less.refs[h] = 1 /\ h \in c.in_cache)
    BY <1>3, <1>4, <1>5, <1>8
  <2>2. Unref(c, h) = [c EXCEPT !.refs = f]
    BY <1>4, <2>1, Zenon DEF Cache, Unref
  <2>. QED
    BY <1>4, <1>8, <2>2, Zenon DEF Cache
<1>. QED
  BY <1>6, <1>7, <1>8, Zenon

\* FinishErase(h): out of the cache and its charge, then unreferenced.
LEMMA FinishEraseEffect ==
    ASSUME NEW c \in Cache, NEW h \in Handle, IsInjective(c.lru), c.refs[h] > 0,
           c.usage - Charge(key[h]) \in Nat
    PROVE  LET d == FinishErase(c, h)
           IN  /\ d \in Cache
               /\ d.table = c.table /\ d.usage = c.usage - Charge(key[h])
               /\ d.in_cache = c.in_cache \ {h}
               /\ d.deleted = IF c.refs[h] = 1 THEN [c.deleted EXCEPT ![h] = @ + 1]
                              ELSE c.deleted
               /\ d.refs = [c.refs EXCEPT ![h] = @ - 1]
               /\ d.lru = Unlink(c.lru, h)
               /\ d.in_use = c.in_use \ {h}
<1>. DEFINE b == [LRU_remove(c, h) EXCEPT !.in_cache = @ \ {h},
                                          !.usage = @ - Charge(key[h])]
<1>1. Unlink(c.lru, h) \in Seq(Handle) /\ IsInjective(Unlink(c.lru, h))
  BY CacheFields, Unlinked, Zenon
<1>2. PICK r \in Seq(Handle) : r = Unlink(c.lru, h)
  BY <1>1, Zenon
<1>3. PICK u \in Nat : u = c.usage - Charge(key[h])
  OBVIOUS
<1>4. /\ b \in Cache
      /\ b.table = c.table /\ b.lru = r /\ b.in_use = c.in_use \ {h} /\ b.usage = u
      /\ b.refs = c.refs /\ b.in_cache = c.in_cache \ {h} /\ b.deleted = c.deleted
  BY <1>2, <1>3, Zenon DEF Cache, LRU_remove
<1>5. FinishErase(c, h) = Unref(b, h)
  BY DEF FinishErase
<1>. HIDE DEF b
<1>6. PICK d : d = Unref(b, h)
  OBVIOUS
<1>7. h \notin b.in_cache /\ IsInjective(b.lru) /\ b.refs[h] > 0
  BY <1>1, <1>2, <1>4
<1>8. /\ d \in Cache
      /\ d.table = b.table /\ d.usage = b.usage
      /\ d.in_cache = b.in_cache
      /\ d.deleted = IF b.refs[h] = 1 THEN [b.deleted EXCEPT ![h] = @ + 1]
                     ELSE b.deleted
      /\ d.refs = [b.refs EXCEPT ![h] = @ - 1]
      /\ d.lru = b.lru /\ d.in_use = b.in_use
  <2>1. b \in Cache
    BY <1>4, Zenon
  <2>2. /\ d \in Cache
        /\ d.table = b.table /\ d.usage = b.usage
        /\ d.in_cache = b.in_cache
        /\ d.deleted = IF b.refs[h] = 1 THEN [b.deleted EXCEPT ![h] = @ + 1]
                       ELSE b.deleted
        /\ d.refs = [b.refs EXCEPT ![h] = @ - 1]
        /\ d.lru = IF b.refs[h] = 2 /\ h \in b.in_cache
                   THEN Append(Unlink(b.lru, h), h) ELSE b.lru
        /\ d.in_use = IF b.refs[h] = 2 /\ h \in b.in_cache
                      THEN b.in_use \ {h} ELSE b.in_use
    BY ONLY h \in Handle, <2>1, <1>6, <1>7, UnrefEffect, ZenonT(30)
  <2>. QED
    BY <2>2, <1>7, Zenon
<1>. QED
  BY <1>2, <1>3, <1>4, <1>5, <1>6, <1>8, Zenon

-----------------------------------------------------------------------------
(***************************************************************************)
(* What holds of a cache object c when h is pinned p[h] times, has the key *)
(* k[h], and the handles below n were allocated.                           *)
(***************************************************************************)
Typed(c, p, k, n) ==
    /\ c \in Cache
    /\ p \in [Handle -> Nat]
    /\ k \in [Handle -> Id \cup {none}]
    /\ n \in 1..MaxHandle + 1

\* A reference for each pin, and one for the table.
Counted(c, p) ==
    \A h \in Handle : c.refs[h] = IF h \in c.in_cache THEN p[h] + 1 ELSE p[h]

\* Deleted once, when neither the table nor a thread has the handle.
Freed(c, p, n) ==
    \A h \in Handle :
        c.deleted[h] = IF h < n /\ h \notin c.in_cache /\ p[h] = 0 THEN 1 ELSE 0

\* Nobody knows a handle that was not allocated.
Fresh(c, p, n) ==
    \A h \in Handle : h >= n => h \notin c.in_cache /\ p[h] = 0

\* The unpinned entries are on lru_, the pinned ones on in_use_.
Listed(c, p) ==
    /\ IsInjective(c.lru)
    /\ \A h \in Handle : h \in Range(c.lru) <=> h \in c.in_cache /\ p[h] = 0
    /\ \A h \in Handle : h \in c.in_use <=> h \in c.in_cache /\ p[h] # 0

\* usage_ is the charge of the entries.
Charged(c, k) ==
    /\ \A h \in c.in_cache : k[h] \in Id
    /\ c.usage = Total(c.in_cache, k)

\* The table has the entries and nothing else, each under its key.
Indexed(c, k) ==
    /\ \A h \in c.in_cache : c.table[k[h]] = h
    /\ \A i \in Id : c.table[i] # none => c.table[i] \in c.in_cache /\ k[c.table[i]] = i

\* All but the table.
Kept(c, p, k, n) ==
    /\ Typed(c, p, k, n)
    /\ Counted(c, p) /\ Freed(c, p, n) /\ Fresh(c, p, n) /\ Listed(c, p)
    /\ Charged(c, k)

Sound(c, p, k, n) == Kept(c, p, k, n) /\ Indexed(c, k)

(***************************************************************************)
(* The charges of the entries are numbers.                                 *)
(***************************************************************************)
LEMMA ChargeNat ==
    ASSUME NEW c, NEW k, Charged(c, k)
    PROVE  \A h \in c.in_cache : Charge(k[h]) \in Nat
  BY CacheAssumption, Zenon DEF Charged

(***************************************************************************)
(* ref() on an entry of the table: one pin more, and it leaves lru_.       *)
(***************************************************************************)
LEMMA RefSound ==
    ASSUME NEW c, NEW p, NEW k, NEW n, Sound(c, p, k, n), NEW h \in c.in_cache
    PROVE  Sound(Ref(c, h), [p EXCEPT ![h] = @ + 1], k, n)
<1>1. c \in Cache /\ p \in [Handle -> Nat] /\ k \in [Handle -> Id \cup {none}] /\ n \in 1..MaxHandle + 1
  BY Zenon DEF Sound, Kept, Typed
<1>2. c.in_cache \subseteq Handle /\ h \in Handle /\ c.lru \in Seq(Handle) /\ c.refs \in [Handle -> Nat]
  BY <1>1, CacheFields, Zenon
<1>3. Counted(c, p) /\ Freed(c, p, n) /\ Fresh(c, p, n) /\ Listed(c, p) /\ Charged(c, k) /\ Indexed(c, k)
  BY Zenon DEF Sound, Kept
<1>4. IsInjective(c.lru)
  BY <1>3, Zenon DEF Listed
<1>5. PICK d : d = Ref(c, h)
  OBVIOUS
<1>6. /\ d \in Cache
      /\ d.table = c.table /\ d.usage = c.usage
      /\ d.in_cache = c.in_cache /\ d.deleted = c.deleted
      /\ d.refs = [c.refs EXCEPT ![h] = @ + 1]
      /\ d.lru = IF c.refs[h] = 1 /\ h \in c.in_cache THEN Unlink(c.lru, h) ELSE c.lru
      /\ d.in_use = IF c.refs[h] = 1 /\ h \in c.in_cache THEN c.in_use \cup {h} ELSE c.in_use
  BY ONLY <1>1, <1>2, <1>4, <1>5, RefEffect, Zenon
<1>7. p[h] \in Nat /\ (c.refs[h] = 1 <=> p[h] = 0)
  BY <1>1, <1>2, <1>3 DEF Counted
<1>8. PICK q \in [Handle -> Nat] : q = [p EXCEPT ![h] = @ + 1]
  <2>1. [p EXCEPT ![h] = @ + 1] \in [Handle -> Nat]
    BY <1>1, <1>2
  <2>. QED
    BY <2>1, Zenon
<1>9. q[h] = p[h] + 1 /\ q[h] # 0 /\ \A g \in Handle : g # h => q[g] = p[g]
  BY <1>1, <1>2, <1>7, <1>8
<1>10. Typed(d, q, k, n)
  BY <1>1, <1>6, Zenon DEF Typed
<1>11. Counted(d, q)
  BY <1>2, <1>3, <1>6, <1>7, <1>9 DEF Counted
<1>12. Freed(d, q, n)
  BY <1>2, <1>3, <1>6, <1>9, ZenonT(30) DEF Freed
<1>13. Fresh(d, q, n)
  BY <1>2, <1>3, <1>6, <1>9, Zenon DEF Fresh
<1>14. Charged(d, k) /\ Indexed(d, k)
  BY <1>3, <1>6, Zenon DEF Charged, Indexed
<1>15. Listed(d, q)
  <2>1. CASE p[h] = 0
    <3>1. d.lru = Unlink(c.lru, h) /\ d.in_use = c.in_use \cup {h}
      BY <2>1, <1>6, <1>7, Zenon
    <3>2. Range(d.lru) = Range(c.lru) \ {h} /\ IsInjective(d.lru)
      BY <3>1, <1>2, <1>4, Unlinked, Zenon
    <3>. QED
      BY <3>1, <3>2, <1>2, <1>3, <1>6, <1>9, Zenon DEF Listed
  <2>2. CASE p[h] # 0
    <3>1. d.lru = c.lru /\ d.in_use = c.in_use
      BY <2>2, <1>6, <1>7, Zenon
    <3>. QED
      BY <2>2, <3>1, <1>2, <1>3, <1>6, <1>9, ZenonT(30) DEF Listed
  <2>. QED
    BY <2>1, <2>2, Zenon
<1>. QED
  BY <1>5, <1>8, <1>10, <1>11, <1>12, <1>13, <1>14, <1>15, Zenon DEF Sound, Kept

(***************************************************************************)
(* unref() of a pinned handle: one pin less.  The last one returns an      *)
(* entry of the table to lru_, and frees a handle that is not in it.       *)
(***************************************************************************)
LEMMA UnrefSound ==
    ASSUME NEW c, NEW p, NEW k, NEW n, Sound(c, p, k, n), NEW h \in Handle, p[h] # 0
    PROVE  Sound(Unref(c, h), [p EXCEPT ![h] = @ - 1], k, n)
<1>1. c \in Cache /\ p \in [Handle -> Nat] /\ k \in [Handle -> Id \cup {none}] /\ n \in 1..MaxHandle + 1
  BY Zenon DEF Sound, Kept, Typed
<1>2. c.in_cache \subseteq Handle /\ c.lru \in Seq(Handle) /\ c.refs \in [Handle -> Nat]
      /\ c.deleted \in [Handle -> Nat]
  BY <1>1, CacheFields, Zenon
<1>3. Counted(c, p) /\ Freed(c, p, n) /\ Fresh(c, p, n) /\ Listed(c, p) /\ Charged(c, k) /\ Indexed(c, k)
  BY Zenon DEF Sound, Kept
<1>4. IsInjective(c.lru)
  BY <1>3, Zenon DEF Listed
<1>5. PICK d : d = Unref(c, h)
  OBVIOUS
<1>7. /\ p[h] \in Nat /\ c.refs[h] \in Nat /\ c.refs[h] > 0
      /\ (c.refs[h] = 1 <=> p[h] = 1 /\ h \notin c.in_cache)
      /\ (c.refs[h] = 2 /\ h \in c.in_cache <=> p[h] = 1 /\ h \in c.in_cache)
  BY <1>1, <1>2, <1>3 DEF Counted
<1>6. /\ d \in Cache
      /\ d.table = c.table /\ d.usage = c.usage
      /\ d.in_cache = c.in_cache
      /\ d.deleted = IF c.refs[h] = 1 THEN [c.deleted EXCEPT ![h] = @ + 1] ELSE c.deleted
      /\ d.refs = [c.refs EXCEPT ![h] = @ - 1]
      /\ d.lru = IF c.refs[h] = 2 /\ h \in c.in_cache
                 THEN Append(Unlink(c.lru, h), h) ELSE c.lru
      /\ d.in_use = IF c.refs[h] = 2 /\ h \in c.in_cache THEN c.in_use \ {h} ELSE c.in_use
  BY ONLY <1>1, <1>4, <1>5, <1>7, h \in Handle, UnrefEffect, ZenonT(30)
<1>8. PICK q \in [Handle -> Nat] : q = [p EXCEPT ![h] = @ - 1]
  <2>1. [p EXCEPT ![h] = @ - 1] \in [Handle -> Nat]
    BY <1>1, <1>7
  <2>. QED
    BY <2>1, Zenon
<1>9. q[h] = p[h] - 1 /\ (q[h] = 0 <=> p[h] = 1) /\ \A g \in Handle : g # h => q[g] = p[g]
  BY <1>1, <1>7, <1>8
<1>10. Typed(d, q, k, n)
  BY <1>1, <1>6, Zenon DEF Typed
<1>11. Counted(d, q)
  <2>1. d.refs[h] = c.refs[h] - 1 /\ \A g \in Handle : g # h => d.refs[g] = c.refs[g]
    BY <1>2, <1>6
  <2>2. c.refs[h] = IF h \in c.in_cache THEN p[h] + 1 ELSE p[h]
    BY <1>3, Zenon DEF Counted
  <2>3. d.refs[h] = IF h \in d.in_cache THEN q[h] + 1 ELSE q[h]
    <3>1. CASE h \in c.in_cache
      BY SMTT(30), <3>1, <2>1, <2>2, <1>6, <1>7, <1>9
    <3>2. CASE h \notin c.in_cache
      BY <3>2, <2>1, <2>2, <1>6, <1>7, <1>9
    <3>. QED
      BY <3>1, <3>2, Zenon
  <2>4. ASSUME NEW g \in Handle, g # h
        PROVE  d.refs[g] = IF g \in d.in_cache THEN q[g] + 1 ELSE q[g]
    BY <2>1, <2>4, <1>3, <1>6, <1>9, ZenonT(30) DEF Counted
  <2>. QED
    BY <2>3, <2>4, Zenon DEF Counted
<1>12. Freed(d, q, n)
  <2>1. h < n
    BY <1>1, <1>3 DEF Fresh, Handle
  <2>2. c.deleted[h] = 0
    BY <1>3, <1>7, Zenon DEF Freed
  <2>3. \A g \in Handle : g # h => d.deleted[g] = c.deleted[g]
    BY <1>2, <1>6
  <2>4. d.deleted[h] = IF h \notin c.in_cache /\ p[h] = 1 THEN 1 ELSE 0
    BY <1>2, <1>6, <1>7, <2>2
  <2>5. d.deleted[h] = IF h < n /\ h \notin d.in_cache /\ q[h] = 0 THEN 1 ELSE 0
    BY <2>1, <2>4, <1>6, <1>9, Zenon
  <2>6. ASSUME NEW g \in Handle, g # h
        PROVE  d.deleted[g] = IF g < n /\ g \notin d.in_cache /\ q[g] = 0 THEN 1 ELSE 0
    <3>1. d.deleted[g] = IF g < n /\ g \notin c.in_cache /\ p[g] = 0 THEN 1 ELSE 0
      BY <2>3, <2>6, <1>3, Zenon DEF Freed
    <3>. QED
      BY <3>1, <2>6, <1>6, <1>9, Zenon
  <2>. QED
    BY <2>5, <2>6, Zenon DEF Freed
<1>13. Fresh(d, q, n)
  <2>1. \A g \in Handle : g >= n => g # h
    BY <1>3, Zenon DEF Fresh
  <2>. QED
    BY <2>1, <1>3, <1>6, <1>9, Zenon DEF Fresh
<1>14. Charged(d, k) /\ Indexed(d, k)
  BY <1>3, <1>6, Zenon DEF Charged, Indexed
<1>15. Listed(d, q)
  <2>1. CASE p[h] = 1 /\ h \in c.in_cache
    <3>1. d.lru = Append(Unlink(c.lru, h), h) /\ d.in_use = c.in_use \ {h}
      BY <2>1, <1>6, <1>7, Zenon
    <3>2. PICK r \in Seq(Handle) : r = Unlink(c.lru, h) /\ Range(r) = Range(c.lru) \ {h}
                                   /\ IsInjective(r)
      <4>1. /\ Unlink(c.lru, h) \in Seq(Handle)
            /\ Range(Unlink(c.lru, h)) = Range(c.lru) \ {h}
            /\ IsInjective(Unlink(c.lru, h))
        BY ONLY <1>2, <1>4, Unlinked, Zenon
      <4>. QED
        BY <4>1, Zenon
    <3>3. h \notin Range(r)
      BY <3>2, Zenon
    <3>4. Range(d.lru) = Range(r) \cup {h} /\ IsInjective(d.lru)
      <4>1. Range(Append(r, h)) = Range(r) \cup {h} /\ IsInjective(Append(r, h))
        BY ONLY r \in Seq(Handle), h \in Handle, <3>2, <3>3, Linked, Zenon
      <4>. QED
        BY <4>1, <3>1, <3>2, Zenon
    <3>5. Range(d.lru) = Range(c.lru) \cup {h}
      BY <3>2, <3>4, Zenon
    <3>6. q[h] = 0 /\ h \in d.in_cache
      BY <2>1, <1>6, <1>9, Zenon
    <3>7. \A g \in Handle : g \in Range(d.lru) <=> g \in d.in_cache /\ q[g] = 0
      BY <3>5, <3>6, <1>3, <1>6, <1>9, Zenon DEF Listed
    <3>8. \A g \in Handle : g \in d.in_use <=> g \in d.in_cache /\ q[g] # 0
      BY <3>1, <3>6, <1>3, <1>6, <1>9, ZenonT(30) DEF Listed
    <3>. QED
      BY <3>4, <3>7, <3>8, Zenon DEF Listed
  <2>2. CASE ~(p[h] = 1 /\ h \in c.in_cache)
    <3>1. d.lru = c.lru /\ d.in_use = c.in_use
      BY <2>2, <1>6, <1>7, Zenon
    <3>2. \A g \in Handle : g \in c.in_cache => (q[g] = 0 <=> p[g] = 0)
      BY <2>2, <1>9, Zenon
    <3>. QED
      BY <3>1, <3>2, <1>3, <1>6, Zenon DEF Listed
  <2>. QED
    BY <2>1, <2>2, Zenon
<1>. QED
  BY <1>5, <1>8, <1>10, <1>11, <1>12, <1>13, <1>14, <1>15, Zenon DEF Sound, Kept

(***************************************************************************)
(* finish_erase() of an entry: it is charged no more, and freed unless     *)
(* somebody holds it.                                                      *)
(***************************************************************************)
LEMMA FinishEraseKept ==
    ASSUME NEW c, NEW p, NEW k, NEW n, Kept(c, p, k, n), NEW h \in c.in_cache,
           key[h] = k[h]
    PROVE  LET d == FinishErase(c, h)
           IN  /\ Kept(d, p, k, n)
               /\ d.table = c.table
               /\ d.in_cache = c.in_cache \ {h}
               /\ d.lru = Unlink(c.lru, h)
<1>1. c \in Cache /\ p \in [Handle -> Nat] /\ k \in [Handle -> Id \cup {none}] /\ n \in 1..MaxHandle + 1
  BY Zenon DEF Kept, Typed
<1>2. c.in_cache \in SUBSET Handle /\ h \in Handle /\ c.lru \in Seq(Handle)
      /\ c.refs \in [Handle -> Nat] /\ c.deleted \in [Handle -> Nat]
  BY <1>1, CacheFields, Zenon
<1>3. Counted(c, p) /\ Freed(c, p, n) /\ Fresh(c, p, n) /\ Listed(c, p) /\ Charged(c, k)
  BY Zenon DEF Kept
<1>4. IsInjective(c.lru)
  BY <1>3, Zenon DEF Listed
<1>5. PICK d : d = FinishErase(c, h)
  OBVIOUS
<1>6. p[h] \in Nat /\ c.refs[h] = p[h] + 1 /\ c.refs[h] > 0 /\ (c.refs[h] = 1 <=> p[h] = 0)
  BY <1>1, <1>2, <1>3 DEF Counted
<1>7. /\ c.usage - Charge(key[h]) = Total(c.in_cache \ {h}, k)
      /\ Total(c.in_cache \ {h}, k) \in Nat
  <2>1. Total(c.in_cache, k) = Charge(k[h]) + Total(c.in_cache \ {h}, k)
        /\ Total(c.in_cache \ {h}, k) \in Nat
    BY <1>2, <1>3, ChargeNat, TotalSplit, Zenon
  <2>2. Charge(k[h]) \in Nat /\ c.usage = Total(c.in_cache, k)
    BY <1>3, ChargeNat, Zenon DEF Charged
  <2>. QED
    BY <2>1, <2>2
<1>8. /\ d \in Cache
      /\ d.table = c.table /\ d.usage = c.usage - Charge(key[h])
      /\ d.in_cache = c.in_cache \ {h}
      /\ d.deleted = IF c.refs[h] = 1 THEN [c.deleted EXCEPT ![h] = @ + 1] ELSE c.deleted
      /\ d.refs = [c.refs EXCEPT ![h] = @ - 1]
      /\ d.lru = Unlink(c.lru, h)
      /\ d.in_use = c.in_use \ {h}
  <2>1. c.usage - Charge(key[h]) \in Nat
    BY <1>7, Zenon
  <2>2. c \in Cache /\ h \in Handle /\ c.refs[h] > 0
    BY <1>1, <1>2, <1>6, Zenon
  <2>3. /\ FinishErase(c, h) \in Cache
        /\ FinishErase(c, h).table = c.table
        /\ FinishErase(c, h).usage = c.usage - Charge(key[h])
        /\ FinishErase(c, h).in_cache = c.in_cache \ {h}
        /\ FinishErase(c, h).deleted = IF c.refs[h] = 1 THEN [c.deleted EXCEPT ![h] = @ + 1]
                                       ELSE c.deleted
        /\ FinishErase(c, h).refs = [c.refs EXCEPT ![h] = @ - 1]
        /\ FinishErase(c, h).lru = Unlink(c.lru, h)
        /\ FinishErase(c, h).in_use = c.in_use \ {h}
    BY ONLY <2>1, <2>2, <1>4, FinishEraseEffect
  <2>. QED
    BY <2>3, <1>5, Zenon
<1>9. Typed(d, p, k, n)
  BY <1>1, <1>8, Zenon DEF Typed
<1>10. Counted(d, p)
  <2>1. d.refs[h] = p[h] /\ \A g \in Handle : g # h => d.refs[g] = c.refs[g]
    BY <1>2, <1>6, <1>8
  <2>2. h \notin d.in_cache /\ \A g \in Handle : g # h => (g \in d.in_cache <=> g \in c.in_cache)
    BY <1>8, Zenon
  <2>3. ASSUME NEW g \in Handle, g # h
        PROVE  d.refs[g] = IF g \in d.in_cache THEN p[g] + 1 ELSE p[g]
    BY <2>1, <2>2, <2>3, <1>3, Zenon DEF Counted
  <2>. QED
    BY <2>1, <2>2, <2>3, Zenon DEF Counted
<1>11. Freed(d, p, n)
  <2>1. h < n
    BY <1>1, <1>2, <1>3 DEF Fresh, Handle
  <2>2. c.deleted[h] = 0
    BY <1>2, <1>3, Zenon DEF Freed
  <2>3. \A g \in Handle : g # h => d.deleted[g] = c.deleted[g]
    BY <1>2, <1>8
  <2>4. d.deleted[h] = IF p[h] = 0 THEN 1 ELSE 0
    BY <1>2, <1>6, <1>8, <2>2
  <2>5. h \notin d.in_cache /\ \A g \in Handle : g # h => (g \in d.in_cache <=> g \in c.in_cache)
    BY <1>8, Zenon
  <2>6. d.deleted[h] = IF h < n /\ h \notin d.in_cache /\ p[h] = 0 THEN 1 ELSE 0
    BY <2>1, <2>4, <2>5, Zenon
  <2>7. ASSUME NEW g \in Handle, g # h
        PROVE  d.deleted[g] = IF g < n /\ g \notin d.in_cache /\ p[g] = 0 THEN 1 ELSE 0
    <3>1. d.deleted[g] = IF g < n /\ g \notin c.in_cache /\ p[g] = 0 THEN 1 ELSE 0
      BY <2>3, <2>7, <1>3, Zenon DEF Freed
    <3>. QED
      BY <3>1, <2>5, <2>7, Zenon
  <2>. QED
    BY <2>6, <2>7, Zenon DEF Freed
<1>12. Fresh(d, p, n)
  BY <1>3, <1>8, Zenon DEF Fresh
<1>13. Listed(d, p)
  <2>0. Range(Unlink(c.lru, h)) = Range(c.lru) \ {h} /\ IsInjective(Unlink(c.lru, h))
    BY ONLY <1>2, <1>4, Unlinked, Zenon
  <2>1. Range(d.lru) = Range(c.lru) \ {h} /\ IsInjective(d.lru)
    BY <2>0, <1>8, Zenon
  <2>. QED
    BY <2>1, <1>3, <1>8, Zenon DEF Listed
<1>14. Charged(d, k)
  BY <1>3, <1>7, <1>8, Zenon DEF Charged
<1>. QED
  BY <1>5, <1>8, <1>9, <1>10, <1>11, <1>12, <1>13, <1>14, Zenon DEF Kept

(***************************************************************************)
(* Taking a key out of the table changes only the table.                   *)
(***************************************************************************)
LEMMA KeptAnyTable ==
    ASSUME NEW c, NEW p, NEW k, NEW n, Kept(c, p, k, n),
           NEW b \in Cache,
           b.lru = c.lru, b.in_use = c.in_use, b.usage = c.usage, b.refs = c.refs,
           b.in_cache = c.in_cache, b.deleted = c.deleted
    PROVE  Kept(b, p, k, n)
<1>1. Typed(b, p, k, n)
  BY Zenon DEF Kept, Typed
<1>2. Counted(b, p) /\ Freed(b, p, n) /\ Fresh(b, p, n)
  BY Zenon DEF Kept, Counted, Freed, Fresh
<1>3. Listed(b, p) /\ Charged(b, k)
  BY Zenon DEF Kept, Listed, Charged
<1>. QED
  BY <1>1, <1>2, <1>3, Zenon DEF Kept

(***************************************************************************)
(* erase(): the entry of a key leaves the table and the lists.             *)
(***************************************************************************)
LEMMA EraseKeySound ==
    ASSUME NEW c, NEW p, NEW k, NEW n, Sound(c, p, k, n),
           NEW i \in Id, c.table[i] # none, key[c.table[i]] = i
    PROVE  /\ Sound(EraseKey(c, i), p, k, n)
           /\ EraseKey(c, i).lru = Unlink(c.lru, c.table[i])
<1>1. c \in Cache /\ Kept(c, p, k, n) /\ Indexed(c, k)
  BY Zenon DEF Sound, Kept, Typed
<1>2. PICK h : h = c.table[i] /\ h \in c.in_cache /\ k[h] = i
  BY <1>1, Zenon DEF Indexed
<1>3. c.table \in [Id -> Handle \cup {none}] /\ h \in Handle
  BY <1>1, <1>2, CacheFields, Zenon
<1>4. PICK t \in [Id -> Handle \cup {none}] : t = [c.table EXCEPT ![i] = none]
  <2>1. [c.table EXCEPT ![i] = none] \in [Id -> Handle \cup {none}]
    BY <1>3
  <2>. QED
    BY <2>1, Zenon
<1>5. PICK b : b = [c EXCEPT !.table[i] = none]
  BY Zenon
<1>6. /\ b \in Cache /\ b.table = t
      /\ b.lru = c.lru /\ b.in_use = c.in_use /\ b.usage = c.usage /\ b.refs = c.refs
      /\ b.in_cache = c.in_cache /\ b.deleted = c.deleted
  BY <1>1, <1>4, <1>5, Zenon DEF Cache
<1>7. Kept(b, p, k, n)
  BY ONLY <1>1, <1>6, KeptAnyTable, Zenon
<1>8. PICK d : d = FinishErase(b, h)
  OBVIOUS
<1>9. EraseKey(c, i) = d
  BY <1>2, <1>5, <1>8, Zenon DEF EraseKey
<1>10. h \in b.in_cache /\ key[h] = k[h]
  BY <1>2, <1>6, Zenon
<1>11. /\ Kept(d, p, k, n) /\ d.table = b.table
       /\ d.in_cache = b.in_cache \ {h} /\ d.lru = Unlink(b.lru, h)
  <2>1. /\ Kept(FinishErase(b, h), p, k, n) /\ FinishErase(b, h).table = b.table
        /\ FinishErase(b, h).in_cache = b.in_cache \ {h}
        /\ FinishErase(b, h).lru = Unlink(b.lru, h)
    BY ONLY <1>7, <1>10, FinishEraseKept
  <2>. QED
    BY <2>1, <1>8, Zenon
<1>12. t[i] = none /\ \A j \in Id : j # i => t[j] = c.table[j]
  BY <1>3, <1>4
<1>13. \A g \in c.in_cache : k[g] \in Id
  BY <1>1, Zenon DEF Kept, Charged
<1>14. Indexed(d, k)
  <2>1. ASSUME NEW g \in d.in_cache PROVE d.table[k[g]] = g
    <3>1. g \in c.in_cache /\ g # h
      BY <1>6, <1>11, Zenon
    <3>2. c.table[k[g]] = g /\ k[g] \in Id
      BY <3>1, <1>1, <1>13, Zenon DEF Indexed
    <3>3. k[g] # i
      BY <3>1, <3>2, <1>2, Zenon
    <3>. QED
      BY <3>2, <3>3, <1>6, <1>11, <1>12, Zenon
  <2>2. ASSUME NEW j \in Id, d.table[j] # none
        PROVE  d.table[j] \in d.in_cache /\ k[d.table[j]] = j
    <3>1. j # i /\ d.table[j] = c.table[j]
      BY <2>2, <1>6, <1>11, <1>12, Zenon
    <3>2. c.table[j] \in c.in_cache /\ k[c.table[j]] = j
      BY <2>2, <3>1, <1>1, Zenon DEF Indexed
    <3>3. c.table[j] # h
      BY <3>1, <3>2, <1>2, Zenon
    <3>. QED
      BY <3>1, <3>2, <3>3, <1>6, <1>11, Zenon
  <2>. QED
    BY <2>1, <2>2, Zenon DEF Indexed
<1>. QED
  BY <1>2, <1>6, <1>9, <1>11, <1>14, Zenon DEF Sound

(***************************************************************************)
(* The loops' body erases the oldest unpinned entry, and no other.         *)
(***************************************************************************)
LEMMA EraseNextSound ==
    ASSUME NEW c, NEW p, NEW k, NEW n, Sound(c, p, k, n), c.lru # <<>>,
           \A h \in Range(c.lru) : key[h] = k[h]
    PROVE  Sound(EraseNext(c), p, k, n) /\ EraseNext(c).lru = Tail(c.lru)
<1>1. c \in Cache /\ Listed(c, p) /\ Charged(c, k) /\ Indexed(c, k)
  BY Zenon DEF Sound, Kept, Typed
<1>2. c.lru \in Seq(Handle) /\ c.in_cache \in SUBSET Handle
  BY <1>1, CacheFields, Zenon
<1>3. PICK h : h = Head(c.lru)
  OBVIOUS
<1>4. h \in Range(c.lru) /\ h \in Handle
  BY <1>2, <1>3 DEF Range
<1>5. h \in c.in_cache /\ key[h] = k[h]
  BY <1>1, <1>4, Zenon DEF Listed
<1>6. k[h] \in Id /\ c.table[k[h]] = h
  BY <1>1, <1>5, Zenon DEF Charged, Indexed
<1>7. h # none
  BY <1>4, CacheAssumption, Zenon
<1>8. Sound(EraseKey(c, k[h]), p, k, n) /\ EraseKey(c, k[h]).lru = Unlink(c.lru, h)
  <2>1. PICK i \in Id : i = k[h]
    BY <1>6, Zenon
  <2>2. c.table[i] # none /\ key[c.table[i]] = i /\ c.table[i] = h
    BY <2>1, <1>5, <1>6, <1>7, Zenon
  <2>3. Sound(EraseKey(c, i), p, k, n) /\ EraseKey(c, i).lru = Unlink(c.lru, c.table[i])
    BY <2>2, EraseKeySound, Zenon
  <2>. QED
    BY <2>1, <2>2, <2>3, Zenon
<1>9. Unlink(c.lru, h) = Tail(c.lru)
  BY <1>1, <1>2, <1>3, Unlinked, Zenon DEF Listed
<1>10. EraseNext(c) = EraseKey(c, k[h])
  BY <1>3, <1>5, Zenon DEF EraseNext
<1>. QED
  BY <1>8, <1>9, <1>10, Zenon

(***************************************************************************)
(* The loop has a course: the body applied again and again.                *)
(***************************************************************************)
LEMMA EraseOldestCourse ==
    ASSUME NEW c, NEW m \in Nat
    PROVE  \E f : /\ f[0] = c
                  /\ \A j \in 0..(m - 1) : f[j + 1] = EraseNext(f[j])
                  /\ EraseOldest(c, m) = f[m]
<1>. DEFINE E(f, j) == IF j = 0 THEN c ELSE EraseNext(f[j - 1])
            G == {x \in Nat : \E f : f = [j \in 0..x |-> E(f, j)]}
            after == CHOOSE f : f = [j \in 0..m |-> E(f, j)]
<1>1. EraseOldest(c, m) = after[m]
  BY DEF EraseOldest
<1>2. 0 \in G
  <2>1. [j \in 0..0 |-> c] = [j \in 0..0 |-> E([i \in 0..0 |-> c], j)]
    OBVIOUS
  <2>. QED
    BY <2>1, Zenon
<1>3. ASSUME NEW x \in 0..(m - 1), x \in G PROVE x + 1 \in G
  <2>1. PICK f : f = [j \in 0..x |-> E(f, j)]
    BY <1>3, Zenon
  <2>. DEFINE g == [j \in 0..(x + 1) |-> IF j <= x THEN f[j] ELSE EraseNext(f[x])]
  <2>2. ASSUME NEW j \in 0..(x + 1) PROVE g[j] = E(g, j)
    <3>1. CASE j = 0
      <4>1. 0 \in 0..(x + 1) /\ 0 <= x /\ 0 \in 0..x
        OBVIOUS
      <4>2. g[j] = f[0]
        BY <3>1, <4>1
      <4>3. f[0] = c
        BY <2>1, <4>1, Zenon
      <4>. QED
        BY <3>1, <4>2, <4>3, Zenon
    <3>2. CASE j # 0 /\ j <= x
      <4>1. j \in 0..x /\ j - 1 \in 0..(x + 1) /\ j - 1 <= x
        BY <3>2
      <4>2. g[j] = f[j] /\ g[j - 1] = f[j - 1]
        BY <3>2, <4>1
      <4>3. f[j] = EraseNext(f[j - 1])
        BY <2>1, <3>2, <4>1, Zenon
      <4>. HIDE DEF g
      <4>. QED
        BY <3>2, <4>2, <4>3, Zenon
    <3>3. CASE j = x + 1
      <4>1. j - 1 = x /\ ~(j <= x) /\ j # 0 /\ x \in 0..(x + 1) /\ x <= x
        BY <3>3
      <4>2. g[j] = EraseNext(f[x])
        BY <4>1, Zenon
      <4>3. g[x] = f[x]
        BY <4>1, Zenon
      <4>. HIDE DEF g
      <4>. QED
        BY <4>1, <4>2, <4>3, Zenon
    <3>. QED
      BY <3>1, <3>2, <3>3
  <2>3. g = [j \in 0..(x + 1) |-> g[j]]
    BY Zenon
  <2>4. g = [j \in 0..(x + 1) |-> E(g, j)]
    <3>. HIDE DEF g
    <3>. QED
      BY <2>2, <2>3, Zenon
  <2>5. x + 1 \in Nat
    OBVIOUS
  <2>. HIDE DEF g
  <2>. QED
    BY <2>4, <2>5, Zenon
<1>4. m \in G
  <2>1. m \in 0..m
    OBVIOUS
  <2>. HIDE DEF G
  <2>. QED
    BY <1>2, <1>3, <2>1, UpTo, Zenon
<1>5. after = [j \in 0..m |-> E(after, j)]
  BY <1>4, Zenon
<1>. HIDE DEF after
<1>6. 0 \in 0..m /\ \A j \in 0..(m - 1) : j + 1 \in 0..m /\ j + 1 # 0 /\ (j + 1) - 1 = j
  OBVIOUS
<1>7. after[0] = c
  BY <1>5, <1>6, Zenon
<1>8. ASSUME NEW j \in 0..(m - 1) PROVE after[j + 1] = EraseNext(after[j])
  <2>1. after[j + 1] = EraseNext(after[(j + 1) - 1])
    BY <1>5, <1>6, Zenon
  <2>. QED
    BY <2>1, <1>6, Zenon
<1>. QED
  BY <1>1, <1>7, <1>8, Zenon

(***************************************************************************)
(* The loops erase the unpinned entries from the oldest on and keep the    *)
(* cache sound, however many there are.                                    *)
(***************************************************************************)
LEMMA EraseOldestSound ==
    ASSUME NEW c, NEW p, NEW k, NEW n, Sound(c, p, k, n),
           \A h \in Range(c.lru) : key[h] = k[h],
           NEW m \in 0..Len(c.lru)
    PROVE  /\ Sound(EraseOldest(c, m), p, k, n)
           /\ Len(EraseOldest(c, m).lru) = Len(c.lru) - m
<1>. DEFINE Good(d, j) == /\ Sound(d, p, k, n)
                          /\ \A h \in Range(d.lru) : key[h] = k[h]
                          /\ Len(d.lru) = Len(c.lru) - j
<1>1. c \in Cache
  BY Zenon DEF Sound, Kept, Typed
<1>2. Len(c.lru) \in Nat /\ m \in Nat
  BY <1>1, CacheFields
<1>3. PICK f : /\ f[0] = c
               /\ \A j \in 0..(m - 1) : f[j + 1] = EraseNext(f[j])
               /\ EraseOldest(c, m) = f[m]
  BY <1>2, EraseOldestCourse, Zenon
<1>. DEFINE G == {j \in Nat : Good(f[j], j)}
<1>4. 0 \in G
  BY <1>2, <1>3
<1>5. ASSUME NEW j \in 0..(m - 1), j \in G PROVE j + 1 \in G
  <2>1. PICK d : d = f[j]
    OBVIOUS
  <2>2. Sound(d, p, k, n) /\ (\A h \in Range(d.lru) : key[h] = k[h]) /\ Len(d.lru) = Len(c.lru) - j
    BY <1>5, <2>1
  <2>3. d.lru \in Seq(Handle)
    BY <2>2, CacheFields, Zenon DEF Sound, Kept, Typed
  <2>4. d.lru # <<>>
    BY <1>2, <2>2, <2>3
  <2>5. Sound(EraseNext(d), p, k, n) /\ EraseNext(d).lru = Tail(d.lru)
    BY <2>2, <2>4, EraseNextSound, Zenon
  <2>6. Len(Tail(d.lru)) = Len(c.lru) - (j + 1)
    BY <1>2, <2>2, <2>3, <2>4
  <2>7. Range(Tail(d.lru)) \subseteq Range(d.lru)
    BY <2>3, <2>4 DEF Range
  <2>8. f[j + 1] = EraseNext(d) /\ j + 1 \in Nat
    BY <1>3, <2>1
  <2>. QED
    BY <2>2, <2>5, <2>6, <2>7, <2>8, Zenon
<1>6. m \in G
  <2>1. m \in 0..m
    BY <1>2
  <2>. HIDE DEF G
  <2>. QED
    BY <1>2, <1>4, <1>5, <2>1, UpTo, Zenon
<1>. QED
  BY <1>3, <1>6, Zenon

(***************************************************************************)
(* insert's eviction ends with the charge within the capacity, or with     *)
(* nothing left to evict.                                                  *)
(***************************************************************************)
LEMMA EvictedSound ==
    ASSUME NEW c, NEW p, NEW k, NEW n, Sound(c, p, k, n),
           \A h \in Range(c.lru) : key[h] = k[h]
    PROVE  /\ Sound(Evicted(c), p, k, n)
           /\ Evicted(c).usage <= capacity \/ Evicted(c).lru = <<>>
<1>. DEFINE N == {m \in 0..Len(c.lru) : \/ EraseOldest(c, m).usage <= capacity
                                        \/ m = Len(c.lru)}
<1>1. c.lru \in Seq(Handle)
  BY CacheFields, Zenon DEF Sound, Kept, Typed
<1>2. Len(c.lru) \in Nat /\ Len(c.lru) \in 0..Len(c.lru)
  BY <1>1
<1>3. N \in SUBSET Nat /\ N # {}
  BY <1>2
<1>4. PICK m \in N : m = Min(N)
  BY <1>3, MinProperties, Zenon
<1>5. PICK d : d = EraseOldest(c, m)
  OBVIOUS
<1>6. Evicted(c) = d
  BY <1>4, <1>5, Zenon DEF Evicted
<1>7. m \in 0..Len(c.lru) /\ (d.usage <= capacity \/ m = Len(c.lru))
  BY <1>5, Zenon
<1>8. Sound(d, p, k, n) /\ Len(d.lru) = Len(c.lru) - m
  BY <1>5, <1>7, EraseOldestSound, Zenon
<1>9. d.lru \in Seq(Handle)
  BY <1>8, CacheFields, Zenon DEF Sound, Kept, Typed
<1>10. m = Len(c.lru) => d.lru = <<>>
  BY <1>2, <1>8, <1>9
<1>. QED
  BY <1>6, <1>7, <1>8, <1>10, Zenon

(***************************************************************************)
(* A new handle, pinned once by the caller of insert().                    *)
(***************************************************************************)
LEMMA NewHandle ==
    ASSUME NEW c, NEW p, NEW n, NEW i \in Id, Sound(c, p, key, n), n \in Handle
    PROVE  LET q == [p EXCEPT ![n] = 1]
               l == [key EXCEPT ![n] = i]
           IN  /\ q \in [Handle -> Nat] /\ l \in [Handle -> Id \cup {none}]
               /\ n + 1 \in 1..MaxHandle + 1
               /\ q[n] = 1 /\ l[n] = i
               /\ \A h \in Handle : h # n => q[h] = p[h] /\ l[h] = key[h]
               /\ n \notin c.in_cache /\ p[n] = 0 /\ c.deleted[n] = 0
               /\ \A h \in Handle : h # n => (h < n + 1 <=> h < n) /\ (h >= n + 1 => h >= n)
               /\ n < n + 1 /\ ~(n >= n + 1)
<1>1. p \in [Handle -> Nat] /\ key \in [Handle -> Id \cup {none}] /\ n \in 1..MaxHandle + 1
      /\ Fresh(c, p, n) /\ Freed(c, p, n)
  BY Zenon DEF Sound, Kept, Typed
<1>2. /\ n + 1 \in 1..MaxHandle + 1 /\ n >= n /\ ~(n < n) /\ n < n + 1 /\ ~(n >= n + 1)
      /\ \A h \in Handle : h # n => (h < n + 1 <=> h < n) /\ (h >= n + 1 => h >= n)
  BY CacheAssumption DEF Handle
<1>3. n \notin c.in_cache /\ p[n] = 0 /\ c.deleted[n] = 0
  BY <1>1, <1>2, Zenon DEF Fresh, Freed
<1>4. [p EXCEPT ![n] = 1] \in [Handle -> Nat] /\ [p EXCEPT ![n] = 1][n] = 1
      /\ \A h \in Handle : h # n => [p EXCEPT ![n] = 1][h] = p[h]
  BY <1>1
<1>5. [key EXCEPT ![n] = i] \in [Handle -> Id \cup {none}] /\ [key EXCEPT ![n] = i][n] = i
      /\ \A h \in Handle : h # n => [key EXCEPT ![n] = i][h] = key[h]
  BY <1>1
<1>. QED
  BY <1>2, <1>3, <1>4, <1>5, Zenon

(***************************************************************************)
(* insert() with caching turned off: a handle that only its caller has.    *)
(***************************************************************************)
LEMMA UncachedSound ==
    ASSUME NEW c, NEW p, NEW n, NEW i \in Id, Sound(c, p, key, n), n \in Handle
    PROVE  Sound([c EXCEPT !.refs[n] = 1], [p EXCEPT ![n] = 1], [key EXCEPT ![n] = i], n + 1)
<1>1. /\ c \in Cache
      /\ Counted(c, p) /\ Freed(c, p, n) /\ Fresh(c, p, n) /\ Listed(c, p)
      /\ Charged(c, key) /\ Indexed(c, key)
  BY Zenon DEF Sound, Kept, Typed
<1>2. c.refs \in [Handle -> Nat] /\ c.in_cache \in SUBSET Handle /\ c.in_use \in SUBSET Handle
  BY <1>1, CacheFields, Zenon
<1>3. PICK q, l : q = [p EXCEPT ![n] = 1] /\ l = [key EXCEPT ![n] = i]
  BY Zenon
<1>4. /\ q \in [Handle -> Nat] /\ l \in [Handle -> Id \cup {none}]
      /\ n + 1 \in 1..MaxHandle + 1
      /\ q[n] = 1 /\ l[n] = i
      /\ \A h \in Handle : h # n => q[h] = p[h] /\ l[h] = key[h]
      /\ n \notin c.in_cache /\ p[n] = 0 /\ c.deleted[n] = 0
      /\ \A h \in Handle : h # n => (h < n + 1 <=> h < n) /\ (h >= n + 1 => h >= n)
      /\ n < n + 1 /\ ~(n >= n + 1)
  BY <1>3, NewHandle
<1>5. PICK f \in [Handle -> Nat] : /\ f = [c.refs EXCEPT ![n] = 1] /\ f[n] = 1
                                   /\ \A h \in Handle : h # n => f[h] = c.refs[h]
  <2>1. [c.refs EXCEPT ![n] = 1] \in [Handle -> Nat] /\ [c.refs EXCEPT ![n] = 1][n] = 1
        /\ \A h \in Handle : h # n => [c.refs EXCEPT ![n] = 1][h] = c.refs[h]
    BY <1>2
  <2>. QED
    BY <2>1, Zenon
<1>6. PICK d : d = [c EXCEPT !.refs[n] = 1]
  BY Zenon
<1>7. /\ d \in Cache /\ d.table = c.table /\ d.lru = c.lru /\ d.in_use = c.in_use
      /\ d.usage = c.usage /\ d.refs = f /\ d.in_cache = c.in_cache /\ d.deleted = c.deleted
  <2>1. d = [c EXCEPT !.refs = f]
    BY ONLY <1>1, <1>5, <1>6, Zenon DEF Cache
  <2>. QED
    BY ONLY <1>1, f \in [Handle -> Nat], <2>1, Zenon DEF Cache
<1>8. Typed(d, q, l, n + 1)
  BY <1>4, <1>7, Zenon DEF Typed
<1>9. Counted(d, q)
  <2>1. ASSUME NEW h \in Handle, h # n
        PROVE  d.refs[h] = IF h \in d.in_cache THEN q[h] + 1 ELSE q[h]
    <3>1. d.refs[h] = IF h \in c.in_cache THEN p[h] + 1 ELSE p[h]
      BY <2>1, <1>1, <1>5, <1>7, Zenon DEF Counted
    <3>. QED
      BY <2>1, <3>1, <1>4, <1>7, Zenon
  <2>2. d.refs[n] = q[n] /\ n \notin d.in_cache
    BY <1>4, <1>5, <1>7, Zenon
  <2>. QED
    BY <2>1, <2>2, Zenon DEF Counted
<1>10. Freed(d, q, n + 1)
  <2>1. ASSUME NEW h \in Handle, h # n
        PROVE  d.deleted[h] = IF h < n + 1 /\ h \notin d.in_cache /\ q[h] = 0 THEN 1 ELSE 0
    <3>1. d.deleted[h] = IF h < n /\ h \notin c.in_cache /\ p[h] = 0 THEN 1 ELSE 0
      BY <1>1, <1>7, Zenon DEF Freed
    <3>. QED
      BY <2>1, <3>1, <1>4, <1>7, Zenon
  <2>2. d.deleted[n] = 0 /\ q[n] # 0
    BY <1>4, <1>7
  <2>. QED
    BY <2>1, <2>2, Zenon DEF Freed
<1>11. Fresh(d, q, n + 1)
  BY <1>1, <1>4, <1>7, Zenon DEF Fresh
<1>12. Listed(d, q)
  <2>1. ASSUME NEW h \in Handle
        PROVE  /\ h \in Range(d.lru) <=> h \in d.in_cache /\ q[h] = 0
               /\ h \in d.in_use <=> h \in d.in_cache /\ q[h] # 0
    <3>1. CASE h = n
      BY <3>1, <1>1, <1>4, <1>7, Zenon DEF Listed
    <3>2. CASE h # n
      BY <3>2, <1>1, <1>4, <1>7, Zenon DEF Listed
    <3>. QED
      BY <3>1, <3>2, Zenon
  <2>. QED
    BY <2>1, <1>1, <1>7, Zenon DEF Listed
<1>13. \A h \in c.in_cache : h \in Handle /\ h # n /\ l[h] = key[h]
  BY <1>2, <1>4, Zenon
<1>14. Charged(d, l)
  <2>1. Total(c.in_cache, l) = Total(c.in_cache, key)
    BY <1>1, <1>2, <1>13, ChargeNat, TotalSame, Zenon
  <2>. QED
    BY <2>1, <1>1, <1>7, <1>13, Zenon DEF Charged
<1>15. Indexed(d, l)
  <2>1. ASSUME NEW h \in d.in_cache PROVE d.table[l[h]] = h
    BY <1>1, <1>7, <1>13, Zenon DEF Indexed
  <2>2. ASSUME NEW j \in Id, d.table[j] # none
        PROVE  d.table[j] \in d.in_cache /\ l[d.table[j]] = j
    <3>1. c.table[j] \in c.in_cache /\ key[c.table[j]] = j
      BY <2>2, <1>1, <1>7, Zenon DEF Indexed
    <3>. QED
      BY <3>1, <1>7, <1>13, Zenon
  <2>. QED
    BY <2>1, <2>2, Zenon DEF Indexed
<1>. QED
  BY <1>3, <1>6, <1>8, <1>9, <1>10, <1>11, <1>12, <1>14, <1>15, Zenon DEF Sound, Kept

(***************************************************************************)
(* insert() with caching turned on: the new entry, pinned by its caller,   *)
(* takes the place of an entry of the same key.                            *)
(***************************************************************************)
LEMMA InsertedSound ==
    ASSUME NEW c, NEW p, NEW n, NEW i \in Id, Sound(c, p, key, n), n \in Handle
    PROVE  Sound(Inserted(c, n, i), [p EXCEPT ![n] = 1], [key EXCEPT ![n] = i], n + 1)
<1>1. /\ c \in Cache
      /\ Counted(c, p) /\ Freed(c, p, n) /\ Fresh(c, p, n) /\ Listed(c, p)
      /\ Charged(c, key) /\ Indexed(c, key)
  BY Zenon DEF Sound, Kept, Typed
<1>2. /\ c.table \in [Id -> Handle \cup {none}] /\ c.refs \in [Handle -> Nat]
      /\ c.in_cache \in SUBSET Handle /\ c.in_use \in SUBSET Handle /\ c.usage \in Nat
  BY <1>1, CacheFields, Zenon
<1>3. PICK q, l : q = [p EXCEPT ![n] = 1] /\ l = [key EXCEPT ![n] = i]
  BY Zenon
<1>4. /\ q \in [Handle -> Nat] /\ l \in [Handle -> Id \cup {none}]
      /\ n + 1 \in 1..MaxHandle + 1
      /\ q[n] = 1 /\ l[n] = i
      /\ \A h \in Handle : h # n => q[h] = p[h] /\ l[h] = key[h]
      /\ n \notin c.in_cache /\ p[n] = 0 /\ c.deleted[n] = 0
      /\ \A h \in Handle : h # n => (h < n + 1 <=> h < n) /\ (h >= n + 1 => h >= n)
      /\ n < n + 1 /\ ~(n >= n + 1)
  BY <1>3, NewHandle
<1>5. PICK f \in [Handle -> Nat] : /\ f = [c.refs EXCEPT ![n] = 2] /\ f[n] = 2
                                   /\ \A h \in Handle : h # n => f[h] = c.refs[h]
  <2>1. [c.refs EXCEPT ![n] = 2] \in [Handle -> Nat] /\ [c.refs EXCEPT ![n] = 2][n] = 2
        /\ \A h \in Handle : h # n => [c.refs EXCEPT ![n] = 2][h] = c.refs[h]
    BY <1>2
  <2>. QED
    BY <2>1, Zenon
<1>6. PICK t \in [Id -> Handle \cup {none}] :
          t = [c.table EXCEPT ![i] = n] /\ t[i] = n /\ \A j \in Id : j # i => t[j] = c.table[j]
  <2>1. [c.table EXCEPT ![i] = n] \in [Id -> Handle \cup {none}] /\ [c.table EXCEPT ![i] = n][i] = n
        /\ \A j \in Id : j # i => [c.table EXCEPT ![i] = n][j] = c.table[j]
    BY <1>2
  <2>. QED
    BY <2>1, Zenon
<1>7. PICK S \in SUBSET Handle : S = c.in_cache \cup {n}
  BY <1>2, Zenon
<1>8. PICK u \in SUBSET Handle : u = c.in_use \cup {n}
  BY <1>2, Zenon
<1>9. PICK w \in Nat : w = c.usage + Charge(i)
  BY <1>2, CacheAssumption
<1>10. PICK e : e = [c EXCEPT !.refs[n] = 2, !.in_cache = @ \cup {n},
                              !.in_use = @ \cup {n}, !.usage = @ + Charge(i),
                              !.table[i] = n]
  OBVIOUS
<1>11. /\ e \in Cache /\ e.table = t /\ e.lru = c.lru /\ e.in_use = u
       /\ e.usage = w /\ e.refs = f /\ e.in_cache = S /\ e.deleted = c.deleted
  <2>1. e = [c EXCEPT !.refs = f, !.in_cache = S, !.in_use = u, !.usage = w, !.table = t]
    BY ONLY <1>1, <1>5, <1>6, <1>7, <1>8, <1>9, <1>10, Zenon DEF Cache
  <2>. QED
    BY ONLY <1>1, f \in [Handle -> Nat], t \in [Id -> Handle \cup {none}], S \in SUBSET Handle,
            u \in SUBSET Handle, w \in Nat, <2>1, Zenon DEF Cache
<1>12. n \in S /\ \A h \in Handle : h # n => (h \in S <=> h \in c.in_cache) /\ (h \in u <=> h \in c.in_use)
  BY <1>7, <1>8, Zenon
<1>13. \A h \in c.in_cache : h \in Handle /\ h # n /\ l[h] = key[h] /\ key[h] \in Id
  BY <1>1, <1>2, <1>4, Zenon DEF Charged
<1>14. Kept(e, q, l, n + 1)
  <2>1. Typed(e, q, l, n + 1)
    BY <1>4, <1>11, Zenon DEF Typed
  <2>2. Counted(e, q)
    <3>1. ASSUME NEW h \in Handle, h # n
          PROVE  e.refs[h] = IF h \in e.in_cache THEN q[h] + 1 ELSE q[h]
      <4>1. e.refs[h] = IF h \in c.in_cache THEN p[h] + 1 ELSE p[h]
        BY <3>1, <1>1, <1>5, <1>11, Zenon DEF Counted
      <4>. QED
        BY <3>1, <4>1, <1>4, <1>11, <1>12, Zenon
    <3>2. e.refs[n] = q[n] + 1 /\ n \in e.in_cache
      BY <1>4, <1>5, <1>11, <1>12
    <3>. QED
      BY <3>1, <3>2, Zenon DEF Counted
  <2>3. Freed(e, q, n + 1)
    <3>1. ASSUME NEW h \in Handle, h # n
          PROVE  e.deleted[h] = IF h < n + 1 /\ h \notin e.in_cache /\ q[h] = 0 THEN 1 ELSE 0
      <4>1. e.deleted[h] = IF h < n /\ h \notin c.in_cache /\ p[h] = 0 THEN 1 ELSE 0
        BY <1>1, <1>11, Zenon DEF Freed
      <4>. QED
        BY <3>1, <4>1, <1>4, <1>11, <1>12, Zenon
    <3>2. e.deleted[n] = 0 /\ n \in e.in_cache
      BY <1>4, <1>11, <1>12, Zenon
    <3>. QED
      BY <3>1, <3>2, Zenon DEF Freed
  <2>4. Fresh(e, q, n + 1)
    <3>1. ASSUME NEW h \in Handle, h >= n + 1 PROVE h \notin e.in_cache /\ q[h] = 0
      <4>1. h # n /\ h >= n
        BY <3>1, <1>4, Zenon
      <4>2. h \notin c.in_cache /\ p[h] = 0
        BY <4>1, <1>1, Zenon DEF Fresh
      <4>. QED
        BY <4>1, <4>2, <1>4, <1>11, <1>12, Zenon
    <3>. QED
      BY <3>1, Zenon DEF Fresh
  <2>5. Listed(e, q)
    <3>1. ASSUME NEW h \in Handle
          PROVE  /\ h \in Range(e.lru) <=> h \in e.in_cache /\ q[h] = 0
                 /\ h \in e.in_use <=> h \in e.in_cache /\ q[h] # 0
      <4>1. CASE h = n
        <5>1. n \notin Range(c.lru) /\ n \in u /\ q[n] # 0
          BY <1>1, <1>4, <1>8 DEF Listed
        <5>. QED
          BY <4>1, <5>1, <1>11, <1>12, Zenon
      <4>2. CASE h # n
        BY <4>2, <1>1, <1>4, <1>11, <1>12, Zenon DEF Listed
      <4>. QED
        BY <4>1, <4>2, Zenon
    <3>. QED
      BY <3>1, <1>1, <1>11, Zenon DEF Listed
  <2>6. Charged(e, l)
    <3>1. \A h \in S : l[h] \in Id
      BY <1>4, <1>7, <1>13, Zenon
    <3>2. \A h \in S : Charge(l[h]) \in Nat
      BY <3>1, CacheAssumption, Zenon
    <3>3. S \ {n} = c.in_cache
      BY <1>4, <1>7, Zenon
    <3>4. Total(S, l) = Charge(l[n]) + Total(S \ {n}, l)
      BY <1>12, <3>2, TotalSplit, Zenon
    <3>5. Total(c.in_cache, l) = Total(c.in_cache, key)
      BY <1>1, <1>2, <1>13, ChargeNat, TotalSame, Zenon
    <3>6. Total(c.in_cache, key) = c.usage
      BY <1>1, Zenon DEF Charged
    <3>7. Total(S, l) = Charge(i) + c.usage
      BY <3>3, <3>4, <3>5, <3>6, <1>4, Zenon
    <3>8. Charge(i) \in Nat
      BY CacheAssumption, Zenon
    <3>9. w = Total(S, l)
      BY <3>7, <3>8, <1>2, <1>9
    <3>. QED
      BY <3>1, <3>9, <1>11, Zenon DEF Charged
  <2>. QED
    BY <2>1, <2>2, <2>3, <2>4, <2>5, <2>6, Zenon DEF Kept
<1>15. n # none
  BY CacheAssumption, Zenon
<1>16. CASE c.table[i] = none
  <2>1. Inserted(c, n, i) = e
    BY <1>10, <1>16, Zenon DEF Inserted
  <2>2. ASSUME NEW h \in S PROVE t[l[h]] = h
    <3>1. CASE h = n
      BY <3>1, <1>4, <1>6, Zenon
    <3>2. CASE h # n
      <4>1. h \in c.in_cache
        BY <3>2, <1>7, Zenon
      <4>2. c.table[key[h]] = h
        BY <4>1, <1>1, Zenon DEF Indexed
      <4>0. h # none
        BY <4>1, <1>13, CacheAssumption, Zenon
      <4>3. key[h] # i
        BY <4>0, <4>2, <1>16, Zenon
      <4>. QED
        BY <4>1, <4>2, <4>3, <1>6, <1>13, Zenon
    <3>. QED
      BY <3>1, <3>2, Zenon
  <2>3. ASSUME NEW j \in Id, t[j] # none PROVE t[j] \in S /\ l[t[j]] = j
    <3>1. CASE j = i
      BY <3>1, <1>4, <1>6, <1>12, Zenon
    <3>2. CASE j # i
      <4>1. c.table[j] \in c.in_cache /\ key[c.table[j]] = j /\ t[j] = c.table[j]
        BY <2>3, <3>2, <1>1, <1>6, Zenon DEF Indexed
      <4>. QED
        BY <4>1, <1>7, <1>13, Zenon
    <3>. QED
      BY <3>1, <3>2, Zenon
  <2>4. Indexed(e, l)
    BY <2>2, <2>3, <1>11, Zenon DEF Indexed
  <2>. QED
    BY <2>1, <2>4, <1>3, <1>14, Zenon DEF Sound
<1>17. CASE c.table[i] # none
  <2>1. PICK g : g = c.table[i] /\ g \in c.in_cache /\ key[g] = i
    BY <1>1, <1>17, Zenon DEF Indexed
  <2>2. PICK d : d = FinishErase(e, g)
    OBVIOUS
  <2>3. Inserted(c, n, i) = d
    BY <1>10, <1>17, <2>1, <2>2, Zenon DEF Inserted
  <2>4. g \in e.in_cache /\ key[g] = l[g] /\ g # n
    BY <2>1, <1>7, <1>11, <1>13, Zenon
  <2>5. /\ Kept(d, q, l, n + 1) /\ d.table = t /\ d.in_cache = S \ {g}
    <3>1. /\ Kept(FinishErase(e, g), q, l, n + 1) /\ FinishErase(e, g).table = e.table
          /\ FinishErase(e, g).in_cache = e.in_cache \ {g}
      BY ONLY <1>14, <2>4, FinishEraseKept
    <3>. QED
      BY <3>1, <2>2, <1>11, Zenon
  <2>6. ASSUME NEW h \in S \ {g} PROVE t[l[h]] = h
    <3>1. CASE h = n
      BY <3>1, <1>4, <1>6, Zenon
    <3>2. CASE h # n
      <4>1. h \in c.in_cache /\ h # g
        BY <3>2, <1>7, Zenon
      <4>2. c.table[key[h]] = h
        BY <4>1, <1>1, Zenon DEF Indexed
      <4>3. key[h] # i
        BY <4>1, <4>2, <2>1, Zenon
      <4>. QED
        BY <4>1, <4>2, <4>3, <1>6, <1>13, Zenon
    <3>. QED
      BY <3>1, <3>2, Zenon
  <2>7. ASSUME NEW j \in Id, t[j] # none PROVE t[j] \in S \ {g} /\ l[t[j]] = j
    <3>1. CASE j = i
      BY <3>1, <2>4, <1>4, <1>6, <1>12, Zenon
    <3>2. CASE j # i
      <4>1. c.table[j] \in c.in_cache /\ key[c.table[j]] = j /\ t[j] = c.table[j]
        BY <2>7, <3>2, <1>1, <1>6, Zenon DEF Indexed
      <4>2. c.table[j] # g
        BY <3>2, <4>1, <2>1, Zenon
      <4>. QED
        BY <4>1, <4>2, <1>7, <1>13, Zenon
    <3>. QED
      BY <3>1, <3>2, Zenon
  <2>8. Indexed(d, l)
    BY <2>5, <2>6, <2>7, Zenon DEF Indexed
  <2>. QED
    BY <2>3, <2>5, <2>8, <1>3, Zenon DEF Sound
<1>. QED
  BY <1>16, <1>17, Zenon

-----------------------------------------------------------------------------
(***************************************************************************)
(* The inductive invariant: the cache is sound for the pins the threads    *)
(* have, and empty when caching is turned off.                             *)
(***************************************************************************)
HoldersIn(H, h) == {t \in Thread : H[t] = h}

Pins(H) == [h \in Handle |-> Cardinality(HoldersIn(H, h))]

FinitelyHeld(H) ==
    /\ H \in [Thread -> Handle \cup {none}]
    /\ \A h \in Handle : IsFiniteSet(HoldersIn(H, h))

\* J is what the threads hold when t holds h next.
Passes(H, J, t, h) == J = [H EXCEPT ![t] = h]

CacheInv ==
    /\ capacity \in Capacities
    /\ want \in [Thread -> Id \cup {none}]
    /\ FinitelyHeld(held)
    /\ Sound(cache, Pins(held), key, next)
    /\ capacity = 0 => cache.in_cache = {}
    /\ \A t \in Thread : want[t] # none => held[t] = none

(***************************************************************************)
(* A thread that gets a handle pins it once more.                          *)
(***************************************************************************)
LEMMA Pinning ==
    ASSUME NEW H, NEW J, NEW t \in Thread, NEW h \in Handle,
           FinitelyHeld(H), H[t] = none, Passes(H, J, t, h)
    PROVE  FinitelyHeld(J) /\ Pins(J) = [Pins(H) EXCEPT ![h] = @ + 1]
<1>1. H \in [Thread -> Handle \cup {none}] /\ \A g \in Handle : IsFiniteSet(HoldersIn(H, g))
  BY Zenon DEF FinitelyHeld
<1>2. J \in [Thread -> Handle \cup {none}] /\ J[t] = h /\ \A u \in Thread : u # t => J[u] = H[u]
  BY <1>1 DEF Passes
<1>3. none \notin Handle
  BY CacheAssumption, Zenon
<1>4. t \notin HoldersIn(H, h) /\ HoldersIn(J, h) = HoldersIn(H, h) \cup {t}
  BY <1>2, <1>3 DEF HoldersIn
<1>5. \A g \in Handle : g # h => HoldersIn(J, g) = HoldersIn(H, g)
  BY <1>2, <1>3 DEF HoldersIn
<1>6. IsFiniteSet(HoldersIn(J, h)) /\ Cardinality(HoldersIn(J, h)) = Cardinality(HoldersIn(H, h)) + 1
  <2>1. IsFiniteSet(HoldersIn(H, h))
    BY <1>1, Zenon
  <2>. QED
    BY ONLY <2>1, <1>4, FS_AddElement
<1>7. \A g \in Handle : IsFiniteSet(HoldersIn(J, g))
  BY <1>1, <1>5, <1>6, Zenon
<1>8. \A g \in Handle : Pins(J)[g] = [Pins(H) EXCEPT ![h] = @ + 1][g]
  BY ONLY h \in Handle, <1>5, <1>6 DEF Pins
<1>9. Pins(J) = [Pins(H) EXCEPT ![h] = @ + 1]
  BY ONLY <1>8, Zenon DEF Pins
<1>. QED
  BY <1>2, <1>7, <1>9, Zenon DEF FinitelyHeld

(***************************************************************************)
(* A thread that releases its handle pins it once less.                    *)
(***************************************************************************)
LEMMA Unpinning ==
    ASSUME NEW H, NEW J, NEW t \in Thread, NEW h \in Handle,
           FinitelyHeld(H), H[t] = h, Passes(H, J, t, none)
    PROVE  FinitelyHeld(J) /\ Pins(J) = [Pins(H) EXCEPT ![h] = @ - 1] /\ Pins(H)[h] # 0
<1>1. H \in [Thread -> Handle \cup {none}] /\ \A g \in Handle : IsFiniteSet(HoldersIn(H, g))
  BY Zenon DEF FinitelyHeld
<1>2. J \in [Thread -> Handle \cup {none}] /\ J[t] = none /\ \A u \in Thread : u # t => J[u] = H[u]
  BY <1>1 DEF Passes
<1>3. none \notin Handle
  BY CacheAssumption, Zenon
<1>4. t \in HoldersIn(H, h) /\ HoldersIn(J, h) = HoldersIn(H, h) \ {t}
  BY <1>2, <1>3 DEF HoldersIn
<1>5. \A g \in Handle : g # h => HoldersIn(J, g) = HoldersIn(H, g)
  BY <1>2, <1>3 DEF HoldersIn
<1>0. IsFiniteSet(HoldersIn(H, h))
  BY <1>1, Zenon
<1>6. IsFiniteSet(HoldersIn(J, h)) /\ Cardinality(HoldersIn(J, h)) = Cardinality(HoldersIn(H, h)) - 1
  BY ONLY <1>0, <1>4, FS_RemoveElement
<1>7. \A g \in Handle : IsFiniteSet(HoldersIn(J, g))
  BY <1>1, <1>5, <1>6, Zenon
<1>8. \A g \in Handle : Pins(J)[g] = [Pins(H) EXCEPT ![h] = @ - 1][g]
  BY ONLY h \in Handle, <1>5, <1>6 DEF Pins
<1>9. Pins(J) = [Pins(H) EXCEPT ![h] = @ - 1]
  BY ONLY <1>8, Zenon DEF Pins
<1>10. Pins(H)[h] # 0
  BY ONLY h \in Handle, <1>0, <1>4, FS_EmptySet DEF Pins
<1>. QED
  BY <1>2, <1>7, <1>9, <1>10, Zenon DEF FinitelyHeld

(***************************************************************************)
(* The empty cache is sound.                                               *)
(***************************************************************************)
LEMMA InitCache ==
    ASSUME Init
    PROVE  CacheInv
<1>1. PICK p : p = Pins(held)
  OBVIOUS
<1>2. none \notin Handle /\ MaxHandle \in Nat
  BY CacheAssumption, Zenon
<1>3. \A h \in Handle : HoldersIn(held, h) = {}
  BY <1>2 DEF Init, HoldersIn
<1>4. \A h \in Handle : IsFiniteSet(HoldersIn(held, h)) /\ Cardinality(HoldersIn(held, h)) = 0
  BY <1>3, FS_EmptySet
<1>5. p \in [Handle -> Nat] /\ \A h \in Handle : p[h] = 0
  BY <1>1, <1>4 DEF Pins
<1>6. /\ cache.table = [i \in Id |-> none] /\ cache.lru = <<>> /\ cache.in_use = {}
      /\ cache.usage = 0 /\ cache.refs = [h \in Handle |-> 0] /\ cache.in_cache = {}
      /\ cache.deleted = [h \in Handle |-> 0]
  BY DEF Init
<1>7. cache \in Cache
  <2>1. <<>> \in Seq(Handle)
    OBVIOUS
  <2>2. [i \in Id |-> none] \in [Id -> Handle \cup {none}] /\ [h \in Handle |-> 0] \in [Handle -> Nat]
    OBVIOUS
  <2>. QED
    BY <2>1, <2>2 DEF Init, Cache
<1>8. Typed(cache, p, key, next)
  BY <1>2, <1>5, <1>7 DEF Typed, Init
<1>9. Counted(cache, p)
  BY <1>5, <1>6 DEF Counted
<1>10. Freed(cache, p, next)
  BY <1>6 DEF Freed, Init, Handle
<1>11. Fresh(cache, p, next)
  BY <1>5, <1>6, Zenon DEF Fresh
<1>12. Listed(cache, p)
  BY <1>6 DEF Listed, IsInjective, Range
<1>13. Charged(cache, key)
  BY <1>6, TotalEmpty, Zenon DEF Charged
<1>14. Indexed(cache, key)
  BY <1>6 DEF Indexed
<1>15. Sound(cache, Pins(held), key, next)
  BY <1>1, <1>8, <1>9, <1>10, <1>11, <1>12, <1>13, <1>14, Zenon DEF Sound, Kept
<1>16. /\ capacity \in Capacities /\ want \in [Thread -> Id \cup {none}]
       /\ FinitelyHeld(held)
       /\ \A t \in Thread : want[t] # none => held[t] = none
  BY <1>4 DEF Init, FinitelyHeld
<1>. QED
  BY <1>6, <1>15, <1>16, Zenon DEF CacheInv

-----------------------------------------------------------------------------
(***************************************************************************)
(* Each action keeps the invariant.                                        *)
(***************************************************************************)
LEMMA HitStep ==
    ASSUME CacheInv, NEW t \in Thread, NEW i \in Id, Hit(t, i)
    PROVE  CacheInv'
<1>1. PICK h : h = cache.table[i]
  OBVIOUS
<1>2. /\ held[t] = none /\ h # none
      /\ cache' = Ref(cache, h) /\ held' = [held EXCEPT ![t] = h]
      /\ capacity' = capacity /\ key' = key /\ next' = next /\ want' = want
  BY <1>1, Zenon DEF Hit, Idle
<1>3. Sound(cache, Pins(held), key, next) /\ cache \in Cache /\ Listed(cache, Pins(held))
  BY Zenon DEF CacheInv, Sound, Kept, Typed
<1>4. h \in cache.in_cache
  BY <1>1, <1>2, <1>3, Zenon DEF Sound, Indexed
<1>5. h \in Handle
  BY <1>3, <1>4, CacheFields, Zenon
<1>6. FinitelyHeld(held') /\ Pins(held') = [Pins(held) EXCEPT ![h] = @ + 1]
  <2>1. FinitelyHeld(held) /\ held[t] = none /\ Passes(held, held', t, h)
    BY <1>2, Zenon DEF CacheInv, Passes
  <2>. QED
    BY ONLY <2>1, <1>5, t \in Thread, Pinning, Zenon
<1>7. Sound(cache', Pins(held'), key', next')
  <2>1. Sound(Ref(cache, h), [Pins(held) EXCEPT ![h] = @ + 1], key, next)
    BY ONLY <1>3, <1>4, RefSound, Zenon
  <2>. QED
    BY <2>1, <1>2, <1>6, Zenon
<1>8. capacity # 0
  BY <1>4, Zenon DEF CacheInv
<1>9. \A u \in Thread : want'[u] # none => held'[u] = none
  BY <1>2 DEF CacheInv, FinitelyHeld, Hit, Idle
<1>. QED
  BY <1>2, <1>6, <1>7, <1>8, <1>9, Zenon DEF CacheInv

\* A lookup that misses, and an open that fails, touch no cache state.
LEMMA WantStep ==
    ASSUME CacheInv, NEW t \in Thread,
           (\E i \in Id : Miss(t, i)) \/ OpenFails(t)
    PROVE  CacheInv'
<1>1. UNCHANGED <<capacity, cache, key, next, held>>
  BY Zenon DEF Miss, OpenFails
<1>2. want' \in [Thread -> Id \cup {none}]
      /\ \A u \in Thread : want'[u] # none => held'[u] = none
  BY DEF Miss, OpenFails, CacheInv, FinitelyHeld, Idle
<1>. QED
  BY <1>1, <1>2, Zenon DEF CacheInv

\* Release unreferences the handle that the thread held.
LEMMA ReleaseStep ==
    ASSUME CacheInv, NEW t \in Thread, Release(t)
    PROVE  CacheInv'
<1>1. PICK h : h = held[t]
  OBVIOUS
<1>2. /\ h # none
      /\ cache' = Unref(cache, h) /\ held' = [held EXCEPT ![t] = none]
      /\ capacity' = capacity /\ key' = key /\ next' = next /\ want' = want
  BY <1>1, Zenon DEF Release
<1>3. h \in Handle
  BY <1>1, <1>2 DEF CacheInv, FinitelyHeld
<1>4. /\ FinitelyHeld(held') /\ Pins(held') = [Pins(held) EXCEPT ![h] = @ - 1]
      /\ Pins(held)[h] # 0
  <2>1. FinitelyHeld(held) /\ held[t] = h /\ Passes(held, held', t, none)
    BY <1>1, <1>2, Zenon DEF CacheInv, Passes
  <2>. QED
    BY ONLY <2>1, <1>3, t \in Thread, Unpinning
<1>5. Sound(cache, Pins(held), key, next) /\ cache \in Cache /\ Listed(cache, Pins(held))
      /\ Counted(cache, Pins(held)) /\ Pins(held) \in [Handle -> Nat]
  BY Zenon DEF CacheInv, Sound, Kept, Typed
<1>6. Sound(cache', Pins(held'), key', next')
  <2>1. Sound(Unref(cache, h), [Pins(held) EXCEPT ![h] = @ - 1], key, next)
    <3>1. Pins(held)[h] # 0
      BY <1>4, Zenon
    <3>. QED
      BY ONLY <1>3, <1>5, <3>1, UnrefSound, Zenon
  <2>. QED
    BY <2>1, <1>2, <1>4, Zenon
<1>7. cache'.in_cache = cache.in_cache
  <2>1. IsInjective(cache.lru)
    BY <1>5, Zenon DEF Listed
  <2>2. cache.refs[h] > 0
    BY <1>3, <1>4, <1>5 DEF Counted
  <2>. QED
    BY ONLY <2>1, <2>2, <1>2, <1>3, <1>5, UnrefEffect, Zenon
<1>8. \A u \in Thread : want'[u] # none => held'[u] = none
  BY <1>2 DEF CacheInv, FinitelyHeld
<1>. QED
  BY <1>2, <1>4, <1>6, <1>7, <1>8, Zenon DEF CacheInv

\* Erase takes one key out, whoever still holds its handle.
LEMMA EvictStep ==
    ASSUME CacheInv, NEW i \in Id, Evict(i)
    PROVE  CacheInv'
<1>1. /\ cache.table[i] # none /\ cache' = EraseKey(cache, i)
      /\ capacity' = capacity /\ key' = key /\ next' = next /\ want' = want /\ held' = held
  BY Zenon DEF Evict
<1>2. Sound(cache, Pins(held), key, next) /\ Indexed(cache, key)
  BY Zenon DEF CacheInv, Sound
<1>3. cache.table[i] \in cache.in_cache /\ key[cache.table[i]] = i
  BY <1>1, <1>2, Zenon DEF Indexed
<1>4. Sound(EraseKey(cache, i), Pins(held), key, next)
  BY <1>1, <1>2, <1>3, EraseKeySound, Zenon
<1>5. capacity # 0
  BY <1>3, Zenon DEF CacheInv
<1>. QED
  BY <1>1, <1>4, <1>5, Zenon DEF CacheInv

\* Prune erases the entries nobody holds, oldest first.
LEMMA PruneStep ==
    ASSUME CacheInv, Prune
    PROVE  CacheInv'
<1>1. /\ cache.lru # <<>> /\ cache' = EraseOldest(cache, Len(cache.lru))
      /\ capacity' = capacity /\ key' = key /\ next' = next /\ want' = want /\ held' = held
  BY Zenon DEF Prune
<1>2. Sound(cache, Pins(held), key, next) /\ cache \in Cache /\ Listed(cache, Pins(held))
  BY Zenon DEF CacheInv, Sound, Kept, Typed
<1>3. cache.lru \in Seq(Handle)
  BY <1>2, CacheFields, Zenon
<1>4. Len(cache.lru) \in 0..Len(cache.lru) /\ Head(cache.lru) \in Range(cache.lru)
      /\ Head(cache.lru) \in Handle
  BY <1>1, <1>3 DEF Range
<1>5. Sound(EraseOldest(cache, Len(cache.lru)), Pins(held), key, next)
  BY <1>2, <1>4, EraseOldestSound, Zenon
<1>6. capacity # 0
  BY <1>2, <1>4, Zenon DEF CacheInv, Listed
<1>. QED
  BY <1>1, <1>5, <1>6, Zenon DEF CacheInv

(***************************************************************************)
(* insert() by a thread whose lookup missed, whatever the others did since *)
(* then.                                                                   *)
(***************************************************************************)
LEMMA InsertStep ==
    ASSUME CacheInv, NEW t \in Thread, Insert(t)
    PROVE  CacheInv' /\ (cache'.usage <= capacity \/ cache'.lru = <<>>)
<1>1. PICK i, n : i = want[t] /\ n = next
  OBVIOUS
<1>2. /\ i # none /\ n \in Handle
      /\ key' = [key EXCEPT ![n] = i]
      /\ cache' = IF capacity > 0 THEN Evicted(Inserted(cache, n, i))
                  ELSE [cache EXCEPT !.refs[n] = 1]
      /\ held' = [held EXCEPT ![t] = n] /\ want' = [want EXCEPT ![t] = none]
      /\ next' = n + 1 /\ capacity' = capacity
  BY <1>1, Zenon DEF Insert
<1>3. /\ i \in Id /\ held[t] = none
      /\ want \in [Thread -> Id \cup {none}] /\ held \in [Thread -> Handle \cup {none}]
  BY <1>1, <1>2 DEF CacheInv, FinitelyHeld
<1>4. PICK p : p = Pins(held)
  OBVIOUS
<1>5. /\ Sound(cache, p, key, n) /\ p \in [Handle -> Nat] /\ Fresh(cache, p, n)
      /\ n \in 1..MaxHandle + 1
  BY <1>1, <1>4, Zenon DEF CacheInv, Sound, Kept, Typed
<1>6. p[n] = 0
  BY <1>2, <1>5 DEF Fresh
<1>7. PICK q : q = [p EXCEPT ![n] = 1] /\ q = [p EXCEPT ![n] = @ + 1]
  <2>1. [p EXCEPT ![n] = 1] = [p EXCEPT ![n] = @ + 1]
    BY <1>2, <1>5, <1>6
  <2>. QED
    BY <2>1, Zenon
<1>8. FinitelyHeld(held') /\ Pins(held') = q
  <2>1. FinitelyHeld(held) /\ held[t] = none /\ Passes(held, held', t, n) /\ n \in Handle
    BY <1>2, <1>3, Zenon DEF CacheInv, Passes
  <2>2. FinitelyHeld(held') /\ Pins(held') = [Pins(held) EXCEPT ![n] = @ + 1]
    BY ONLY <2>1, t \in Thread, Pinning, Zenon
  <2>. QED
    BY <2>2, <1>4, <1>7, Zenon
<1>9. want' \in [Thread -> Id \cup {none}] /\ \A u \in Thread : want'[u] # none => held'[u] = none
  BY <1>2, <1>3 DEF CacheInv, FinitelyHeld
<1>10. q[n] = 1
  BY <1>2, <1>5, <1>7
<1>11. CASE capacity > 0
  <2>1. PICK e : e = Inserted(cache, n, i)
    OBVIOUS
  <2>2. Sound(e, q, key', n + 1)
    <3>1. i \in Id /\ n \in Handle /\ Sound(cache, p, key, n)
      BY <1>2, <1>3, <1>5, Zenon
    <3>2. Sound(Inserted(cache, n, i), [p EXCEPT ![n] = 1], [key EXCEPT ![n] = i], n + 1)
      BY ONLY <3>1, InsertedSound, Zenon
    <3>. QED
      BY <3>2, <2>1, <1>2, <1>7, Zenon
  <2>3. ASSUME NEW h \in Range(e.lru) PROVE key[h] = key'[h]
    <3>1. e.lru \in Seq(Handle) /\ Listed(e, q)
      BY <2>2, CacheFields, Zenon DEF Sound, Kept, Typed
    <3>2. h \in Handle
      BY <3>1 DEF Range
    <3>3. q[h] = 0
      BY <3>1, <3>2, Zenon DEF Listed
    <3>4. h # n
      BY <3>3, <1>10
    <3>5. key \in [Handle -> Id \cup {none}]
      BY <1>5, Zenon DEF Sound, Kept, Typed
    <3>. QED
      BY <3>2, <3>4, <3>5, <1>2
  <2>4. Sound(Evicted(e), q, key', n + 1) /\ (Evicted(e).usage <= capacity \/ Evicted(e).lru = <<>>)
    BY <2>2, <2>3, EvictedSound, Zenon
  <2>5. cache' = Evicted(e)
    BY <2>1, <1>2, <1>11, Zenon
  <2>6. capacity # 0
    BY <1>11
  <2>. QED
    BY <2>4, <2>5, <2>6, <1>2, <1>8, <1>9, Zenon DEF CacheInv
<1>12. CASE ~(capacity > 0)
  <2>1. capacity = 0
    BY <1>12, CacheAssumption DEF CacheInv
  <2>2. cache' = [cache EXCEPT !.refs[n] = 1] /\ cache \in Cache
    BY <1>2, <1>5, <1>12, Zenon DEF Sound, Kept, Typed
  <2>3. Sound(cache', q, key', n + 1)
    <3>1. i \in Id /\ n \in Handle /\ Sound(cache, p, key, n)
      BY <1>2, <1>3, <1>5, Zenon
    <3>2. Sound([cache EXCEPT !.refs[n] = 1], [p EXCEPT ![n] = 1], [key EXCEPT ![n] = i], n + 1)
      BY ONLY <3>1, UncachedSound, Zenon
    <3>. QED
      BY <3>2, <2>2, <1>2, <1>7, Zenon
  <2>4. cache'.in_cache = cache.in_cache /\ cache'.lru = cache.lru
    BY <2>2, Zenon DEF Cache
  <2>5. cache.in_cache = {}
    BY <2>1, Zenon DEF CacheInv
  <2>6. cache.lru = <<>>
    <3>1. cache.lru \in Seq(Handle) /\ Listed(cache, p)
      BY <1>5, CacheFields, Zenon DEF Sound, Kept, Typed
    <3>2. \A h \in Handle : h \notin Range(cache.lru)
      BY <2>5, <3>1, Zenon DEF Listed
    <3>. QED
      BY <3>1, <3>2 DEF Range
  <2>. QED
    BY <2>3, <2>4, <2>5, <2>6, <1>2, <1>8, <1>9, Zenon DEF CacheInv
<1>. QED
  BY <1>11, <1>12, Zenon

-----------------------------------------------------------------------------
(***************************************************************************)
(* The invariant holds in every reachable state.                           *)
(***************************************************************************)
LEMMA CacheStep ==
    ASSUME CacheInv, [Next]_vars
    PROVE  CacheInv'
<1>1. CASE UNCHANGED vars
  BY <1>1, Zenon DEF CacheInv, vars
<1>2. CASE Next
  BY <1>2, HitStep, WantStep, InsertStep, ReleaseStep, EvictStep, PruneStep, Zenon DEF Next
<1>. QED
  BY <1>1, <1>2, Zenon

\* The invariant holds in every reachable state.
LEMMA CacheAlways == Spec => []CacheInv
<1>. QED
  BY InitCache, CacheStep, PTL DEF Spec

(***************************************************************************)
(* The cache's fields keep their types: usage_ and the reference counts    *)
(* never wrap below zero.                                                  *)
(***************************************************************************)
THEOREM CacheTypeCorrect == Spec => []TypeOK
<1>1. CacheInv => TypeOK
  BY Zenon DEF CacheInv, FinitelyHeld, Sound, Kept, Typed, TypeOK
<1>. QED
  BY <1>1, CacheAlways, PTL

(***************************************************************************)
(* A handle has no pins when no thread holds it.                           *)
(***************************************************************************)
LEMMA NoPins ==
    ASSUME CacheInv, NEW h \in Handle
    PROVE  Pins(held)[h] = 0 <=> Holders(h) = {}
<1>1. Pins(held)[h] = Cardinality(Holders(h))
  BY DEF Pins, HoldersIn, Holders
<1>2. IsFiniteSet(Holders(h))
  BY Zenon DEF CacheInv, FinitelyHeld, HoldersIn, Holders
<1>. QED
  BY <1>1, <1>2, FS_EmptySet

(***************************************************************************)
(* unref() frees a reader exactly when it was erased and the last thread   *)
(* released it, and never twice.                                           *)
(***************************************************************************)
THEOREM ReaderLifetime == Spec => []DeletedWhenUnreachable
<1>1. ASSUME CacheInv PROVE DeletedWhenUnreachable
  <2>1. SUFFICES ASSUME NEW h \in 1..(next - 1)
                 PROVE  cache.deleted[h] = IF h \in cache.in_cache \/ Holders(h) # {} THEN 0 ELSE 1
    BY Zenon DEF DeletedWhenUnreachable
  <2>2. Freed(cache, Pins(held), next) /\ next \in 1..MaxHandle + 1
    BY <1>1, Zenon DEF CacheInv, Sound, Kept, Typed
  <2>3. h \in Handle /\ h < next
    BY <2>2, CacheAssumption DEF Handle
  <2>4. cache.deleted[h] = IF h < next /\ h \notin cache.in_cache /\ Pins(held)[h] = 0 THEN 1 ELSE 0
    BY <2>2, <2>3, Zenon DEF Freed
  <2>5. Pins(held)[h] = 0 <=> Holders(h) = {}
    BY <1>1, <2>3, NoPins, Zenon
  <2>. QED
    BY <2>3, <2>4, <2>5, Zenon
<1>. QED
  BY <1>1, CacheAlways, PTL

(***************************************************************************)
(* Every entry is on the list its holders call for and in the table under  *)
(* its key: what insert() evicts from lru_ nobody holds.                   *)
(***************************************************************************)
THEOREM ListsAgree == Spec => []ListsMatchHolders
<1>1. ASSUME CacheInv PROVE ListsMatchHolders
  <2>1. /\ cache \in Cache /\ Listed(cache, Pins(held)) /\ Charged(cache, key) /\ Indexed(cache, key)
    BY <1>1, Zenon DEF CacheInv, Sound, Kept, Typed
  <2>2. /\ cache.lru \in Seq(Handle) /\ cache.in_use \in SUBSET Handle
        /\ cache.in_cache \in SUBSET Handle /\ cache.table \in [Id -> Handle \cup {none}]
    BY <2>1, CacheFields, Zenon
  <2>3. Range(cache.lru) \subseteq Handle
    BY <2>2 DEF Range
  <2>4. \A h \in Handle : h \in Range(cache.lru) <=> h \in cache.in_cache /\ Holders(h) = {}
    BY <1>1, <2>1, NoPins, Zenon DEF Listed
  <2>5. \A h \in Handle : h \in cache.in_use <=> h \in cache.in_cache /\ Holders(h) # {}
    BY <1>1, <2>1, NoPins, Zenon DEF Listed
  <2>6. Range(cache.lru) = {h \in cache.in_cache : Holders(h) = {}}
    BY <2>2, <2>3, <2>4, Zenon
  <2>7. cache.in_use = cache.in_cache \ Range(cache.lru)
    BY <2>2, <2>4, <2>5, Zenon
  <2>8. cache.in_cache = {cache.table[i] : i \in Id} \ {none}
    <3>1. ASSUME NEW h \in cache.in_cache PROVE h # none /\ \E i \in Id : h = cache.table[i]
      BY <2>1, <2>2, CacheAssumption, ZenonT(30) DEF Charged, Indexed
    <3>2. ASSUME NEW i \in Id, cache.table[i] # none PROVE cache.table[i] \in cache.in_cache
      BY <2>1, <3>2, Zenon DEF Indexed
    <3>. QED
      BY <3>1, <3>2, Zenon
  <2>. QED
    BY <2>1, <2>6, <2>7, <2>8, Zenon DEF ListsMatchHolders, Listed
<1>. QED
  BY <1>1, CacheAlways, PTL

(***************************************************************************)
(* usage_ never drifts from the charge of the entries, through replacement,*)
(* eviction and the loops of insert() and prune().                         *)
(***************************************************************************)
THEOREM UsageExact == Spec => []UsageIsCharge
<1>1. CacheInv => UsageIsCharge
  BY Zenon DEF CacheInv, Sound, Kept, Charged, UsageIsCharge, Total
<1>. QED
  BY <1>1, CacheAlways, PTL

(***************************************************************************)
(* insert() leaves more than the capacity charged only when every entry is *)
(* held.                                                                   *)
(***************************************************************************)
THEOREM EvictionSuffices == Spec => InsertEvictsEnough
<1>1. ASSUME CacheInv, [Next]_vars
      PROVE  [next' # next => cache'.usage <= capacity \/ cache'.lru = <<>>]_vars
  <2>1. SUFFICES ASSUME Next, next' # next
                 PROVE  cache'.usage <= capacity \/ cache'.lru = <<>>
    BY <1>1, Zenon
  <2>2. PICK t \in Thread : Insert(t)
    BY <2>1, Zenon DEF Next, Hit, Miss, OpenFails, Release, Evict, Prune
  <2>. QED
    BY <1>1, <2>2, InsertStep, Zenon
<1>. QED
  BY <1>1, CacheAlways, PTL DEF Spec, InsertEvictsEnough
=============================================================================
