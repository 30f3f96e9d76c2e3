--------------------------- MODULE SSTableProofs ---------------------------
(***************************************************************************)
(* One SSTable file, proved for any keys, entry sizes, block size, filter  *)
(* and hash functions: point lookups find what was added, the index and    *)
(* the footer describe the file, and the iterator gives the entries in     *)
(* order.                                                                  *)
(*                                                                         *)
(* The argument is one map of the file.  st[i] is where entry i starts,    *)
(* counting the block in the buffer as written; fb[b] is the first entry   *)
(* of block b.  Both only grow at their ends, and what add(), flush_block, *)
(* get() and the iterator compute are places on this map.                  *)
(***************************************************************************)
EXTENDS SSTable, WellFoundedInduction, TLAPS

\* Steps without a prover of their own get more than the default time.
USE SMTT(30)

-----------------------------------------------------------------------------
(***************************************************************************)
(* The invariant.                                                          *)
(***************************************************************************)
Ascending(a) ==
    \A i, j \in 1..Len(a) : i < j => a[i].key < a[j].key

\* The file as it will be once the buffer is flushed.
Image(d, b, o) == [p \in 1..(o + Len(b)) |-> IF p <= o THEN d[p] ELSE b[p - o]]

\* Entry i lies in full behind st[i].
Placed(a, st, image) ==
    /\ st \in [1..(Len(a) + 1) -> Nat] /\ st[1] = 0
    /\ \A i, j \in 1..(Len(a) + 1) : i < j => st[i] < st[j]
    /\ \A i \in 1..Len(a) :
         /\ st[i + 1] = st[i] + a[i].size
         /\ \A n \in 1..a[i].size : image[st[i] + n] = <<a[i], n>>

\* Block b has the entries from fb[b] on and before fb[b + 1].  Only an entry
\* larger than a block, added first, makes an empty block.
BlockOf(a, st, r, b, lo, hi) ==
    /\ r.block_offset = st[lo] /\ r.block_offset + r.block_size = st[hi]
    /\ \/ lo < hi /\ r.first_key = a[lo].key
       \/ /\ b = 1 /\ hi = 1 /\ lo = 1 /\ r.first_key = 0
          /\ Len(a) > 0 /\ a[1].size > MAX_PAGING_SIZE_BYTES

Indexed(a, st, ix, fb) ==
    /\ fb \in [1..(Len(ix) + 1) -> 1..(Len(a) + 1)] /\ fb[1] = 1
    /\ \A b, c \in 1..(Len(ix) + 1) :
         b < c => fb[b] <= fb[c] /\ (1 < b => fb[b] < fb[c])
    /\ \A b \in 1..Len(ix) : BlockOf(a, st, ix[b], b, fb[b], fb[b + 1])

Laid(st, fb) ==
    /\ Placed(added, st, Image(data, buffer, file_offset))
    /\ Indexed(added, st, index, fb)
    /\ st[Len(added) + 1] = file_offset + Len(buffer)
    /\ st[fb[Len(index) + 1]] = file_offset
    /\ buffer # <<>> => /\ first_key = added[fb[Len(index) + 1]].key
                        /\ start_offset = file_offset

\* A valid iterator stands behind entry number yielded.
Cursor(st, fb) ==
    /\ it.valid =>
         /\ ~it.error /\ it.block_idx \in 1..Len(index)
         /\ it.buffer = Block(index[it.block_idx])
         /\ yielded \in 1..Len(added)
         /\ fb[it.block_idx] <= yielded /\ yielded < fb[it.block_idx + 1]
         /\ it.offset = st[yielded + 1] - st[fb[it.block_idx]]
         /\ it.entry = added[yielded]
    /\ it.block_idx > 0 /\ ~it.valid /\ ~it.error /\ FirstFits
          => yielded = Len(added)

\* What the counters and the filter have seen.
Summed ==
    /\ entry_count = Len(added)
    /\ highest \in {added[i].sequence : i \in 1..Len(added)} \cup {0}
    /\ \A i \in 1..Len(added) : added[i].sequence <= highest
    /\ \A i \in 1..Len(added) : Positions(added[i].key, bit_count) \subseteq filter

Phases ==
    /\ file_offset <= Len(data)
    /\ writer = "open" => footer = nullopt /\ Len(data) = file_offset
    /\ writer = "open" /\ buffer = <<>> =>
         added = <<>> /\ index = <<>> /\ first_key = 0 /\ start_offset = 0
    /\ footer # nullopt => footer = Footer /\ buffer = <<>>
    /\ footer = nullopt => it.block_idx = 0 /\ ~it.valid

FileInv ==
    /\ TypeOK
    /\ Ascending(added)
    /\ Summed
    /\ Phases
    /\ \E st, fb : Laid(st, fb) /\ Cursor(st, fb)

-----------------------------------------------------------------------------
(***************************************************************************)
(* Numbers.                                                                *)
(***************************************************************************)

(***************************************************************************)
(* A non-empty set of numbers has a least element.                         *)
(***************************************************************************)
LEMMA LeastElement ==
    ASSUME NEW S \in SUBSET Nat, S # {}
    PROVE  \E x \in S : \A y \in S : x <= y
<1>1. PICK x \in S : \A y \in S : ~(<<y, x>> \in OpToRel(<, Nat))
  BY WFMin, NatLessThanWellFounded, Zenon
<1>2. \A y \in S : ~(y < x)
  BY <1>1, Zenon DEF OpToRel
<1>3. \A y \in S : x <= y
  BY <1>2
<1>. QED
  BY <1>3, Zenon

(***************************************************************************)
(* Induction up to a bound, on a set instead of a predicate.               *)
(***************************************************************************)
LEMMA UpTo ==
    ASSUME NEW N \in Nat, NEW G,
           0 \in G, \A n \in 0..(N - 1) : n \in G => n + 1 \in G
    PROVE  \A n \in 0..N : n \in G
<1>. DEFINE B == {n \in 0..N : n \notin G}
<1>1. SUFFICES ASSUME B # {} PROVE FALSE
  OBVIOUS
<1>2. B \in SUBSET Nat
  OBVIOUS
<1>3. PICK m \in B : \A y \in B : m <= y
  BY <1>1, <1>2, LeastElement, Zenon
<1>4. m # 0 /\ m - 1 \in 0..(N - 1) /\ m - 1 \notin B
  BY <1>3
<1>5. m - 1 \in G
  BY <1>4
<1>6. m \in G
  BY <1>4, <1>5
<1>. QED
  BY <1>3, <1>6

(***************************************************************************)
(* An upper bound of a set of numbers that is in the set is its Max.       *)
(***************************************************************************)
LEMMA MaxIs ==
    ASSUME NEW S \in SUBSET Nat, NEW m \in S, \A y \in S : y <= m
    PROVE  Max(S) = m
<1>1. \A y \in S : m >= y
  OBVIOUS
<1>2. Max(S) \in S /\ \A y \in S : Max(S) >= y
  BY <1>1, Zenon DEF Max
<1>3. Max(S) >= m /\ m >= Max(S) /\ Max(S) \in Nat /\ m \in Nat
  BY <1>1, <1>2, Zenon
<1>. QED
  BY ONLY <1>3

(***************************************************************************)
(* A non-empty set of numbers with an upper bound has a greatest element,  *)
(* and Max returns it.                                                     *)
(***************************************************************************)
LEMMA MaxProperties ==
    ASSUME NEW N \in Nat, NEW S \in SUBSET (0..N), S # {}
    PROVE  Max(S) \in S /\ \A y \in S : y <= Max(S)
<1>. DEFINE D == {N - y : y \in S}
<1>1. \A y \in S : y \in Nat /\ y <= N /\ N - y \in Nat
  OBVIOUS
<1>2. D \in SUBSET Nat
  BY Zenon, <1>1
<1>3. D # {}
  <2>1. PICK y \in S : TRUE
    BY Zenon
  <2>2. N - y \in D
    BY Zenon, <2>1
  <2>. QED
    BY Zenon, <2>2
<1>4. PICK d \in D : \A x \in D : d <= x
  BY Zenon, <1>2, <1>3, LeastElement
<1>5. PICK x \in S : d = N - x
  BY Zenon, <1>4
<1>6. \A y \in S : N - x <= N - y
  BY Zenon, <1>4, <1>5
<1>7. \A y \in S : y <= x
  BY <1>1, <1>6
<1>8. S \in SUBSET Nat
  BY <1>1, Zenon
<1>9. Max(S) = x
  BY <1>7, <1>8, MaxIs, Zenon
<1>. QED
  BY <1>7, <1>9, Zenon

(***************************************************************************)
(* The fields of an entry.                                                 *)
(***************************************************************************)
LEMMA EntryFields ==
    ASSUME NEW e \in Entry
    PROVE  /\ e.key \in Key /\ e.key \in Nat /\ e.key > 0
           /\ e.size \in Nat /\ e.size > 0
           /\ e.sequence \in Nat /\ e.sequence \in 1..MaxSequence
<1>1. e.key \in Key /\ e.size \in EntrySize /\ e.sequence \in 1..MaxSequence
  BY Zenon DEF Entry
<1>2. e.key \in Nat \ {0} /\ e.size \in Nat \ {0} /\ MaxSequence \in Nat
  BY <1>1, SizeAssumption, Zenon
<1>. QED
  BY ONLY <1>1, <1>2

\* The bytes of an entry, each with its place in it.
LEMMA Encoded ==
    ASSUME NEW e \in Entry
    PROVE  /\ Encode(e) \in Seq(Unit) /\ Len(Encode(e)) = e.size
           /\ Encode(e) # <<>>
           /\ \A n \in 1..e.size : Encode(e)[n] = <<e, n>>
<1>1. e.size \in Nat /\ e.size > 0
  BY EntryFields
<1>2. \A n \in 1..e.size : <<e, n>> \in Unit
  BY <1>1 DEF Unit
<1>3. Encode(e) \in Seq(Unit) /\ Len(Encode(e)) = e.size
  BY <1>1, <1>2 DEF Encode
<1>4. \A n \in 1..e.size : Encode(e)[n] = <<e, n>>
  BY Zenon DEF Encode
<1>. QED
  BY <1>1, <1>3, <1>4

-----------------------------------------------------------------------------
(***************************************************************************)
(* The map of the file.                                                    *)
(***************************************************************************)

(***************************************************************************)
(* The image after the block took some more units, ...                     *)
(***************************************************************************)
LEMMA ImageBuffered ==
    ASSUME NEW d \in Seq(Unit), NEW b \in Seq(Unit), NEW o \in Nat,
           NEW c \in Seq(Unit)
    PROVE  /\ \A p \in 1..(o + Len(b)) :
                 Image(d, b \o c, o)[p] = Image(d, b, o)[p]
           /\ \A n \in 1..Len(c) :
                 Image(d, b \o c, o)[o + Len(b) + n] = c[n]
<1>1. Len(b \o c) = Len(b) + Len(c) /\ Len(b) \in Nat /\ Len(c) \in Nat
  OBVIOUS
<1>2. ASSUME NEW p \in 1..(o + Len(b))
      PROVE  Image(d, b \o c, o)[p] = Image(d, b, o)[p]
  <2>1. p \in 1..(o + Len(b \o c))
    BY <1>1
  <2>2. ~(p <= o) => (b \o c)[p - o] = b[p - o]
    BY <1>1
  <2>. QED
    BY <2>1, <2>2, Zenon DEF Image
<1>3. ASSUME NEW n \in 1..Len(c)
      PROVE  Image(d, b \o c, o)[o + Len(b) + n] = c[n]
  <2>1. /\ o + Len(b) + n \in 1..(o + Len(b \o c)) /\ ~(o + Len(b) + n <= o)
        /\ (o + Len(b) + n) - o = Len(b) + n
    BY <1>1
  <2>2. (b \o c)[Len(b) + n] = c[n]
    BY <1>1
  <2>. QED
    BY <2>1, <2>2, Zenon DEF Image
<1>. QED
  BY <1>2, <1>3, Zenon

(***************************************************************************)
(* ... after the block was written and another one begun, ...              *)
(***************************************************************************)
LEMMA ImageFlushed ==
    ASSUME NEW d \in Seq(Unit), NEW b \in Seq(Unit), NEW c \in Seq(Unit)
    PROVE  /\ \A p \in 1..(Len(d) + Len(b)) :
                 Image(d \o b, c, Len(d) + Len(b))[p] = Image(d, b, Len(d))[p]
           /\ \A n \in 1..Len(c) :
                 Image(d \o b, c, Len(d) + Len(b))[Len(d) + Len(b) + n] = c[n]
<1>. DEFINE o == Len(d) + Len(b)
<1>1. Len(d) \in Nat /\ Len(b) \in Nat /\ Len(c) \in Nat /\ o \in Nat
  OBVIOUS
<1>2. ASSUME NEW p \in 1..o
      PROVE  Image(d \o b, c, o)[p] = Image(d, b, Len(d))[p]
  <2>1. p \in 1..(o + Len(c)) /\ p <= o
    BY <1>1
  <2>2. (d \o b)[p] = IF p <= Len(d) THEN d[p] ELSE b[p - Len(d)]
    BY <1>1
  <2>. HIDE DEF o
  <2>3. Image(d \o b, c, o)[p] = (d \o b)[p]
    BY <2>1, Zenon DEF Image
  <2>4. Image(d, b, Len(d))[p] = IF p <= Len(d) THEN d[p] ELSE b[p - Len(d)]
    BY Zenon DEF Image, o
  <2>. QED
    BY <2>2, <2>3, <2>4, Zenon
<1>3. ASSUME NEW n \in 1..Len(c)
      PROVE  Image(d \o b, c, o)[o + n] = c[n]
  <2>1. o + n \in 1..(o + Len(c)) /\ ~(o + n <= o) /\ (o + n) - o = n
    BY <1>1
  <2>. HIDE DEF o
  <2>. QED
    BY <2>1, Zenon DEF Image
<1>. QED
  BY <1>2, <1>3, Zenon

(***************************************************************************)
(* ... and after a write that broke off: it is behind what is counted.     *)
(***************************************************************************)
LEMMA ImageTorn ==
    ASSUME NEW d \in Seq(Unit), NEW b \in Seq(Unit), NEW o \in 0..Len(d),
           NEW c \in Seq(Unit)
    PROVE  Image(d \o c, b, o) = Image(d, b, o)
<1>1. \A p \in 1..(o + Len(b)) : p <= o => (d \o c)[p] = d[p]
  OBVIOUS
<1>. QED
  BY <1>1, Zenon DEF Image

(***************************************************************************)
(* The entries stay where they are when the image grows.                   *)
(***************************************************************************)
LEMMA PlacedImage ==
    ASSUME NEW a \in Seq(Entry), NEW st, NEW f, NEW g, Placed(a, st, f),
           \A p \in 1..st[Len(a) + 1] : g[p] = f[p]
    PROVE  Placed(a, st, g)
<1>1. ASSUME NEW i \in 1..Len(a), NEW n \in 1..a[i].size
      PROVE  st[i] + n \in 1..st[Len(a) + 1]
  <2>1. /\ st \in [1..(Len(a) + 1) -> Nat] /\ st[i + 1] = st[i] + a[i].size
        /\ \A x, y \in 1..(Len(a) + 1) : x < y => st[x] < st[y]
    BY Zenon DEF Placed
  <2>2. a[i].size \in Nat
    BY EntryFields
  <2>3. i \in 1..(Len(a) + 1) /\ i + 1 \in 1..(Len(a) + 1)
        /\ Len(a) + 1 \in 1..(Len(a) + 1) /\ (i + 1 < Len(a) + 1 \/ i + 1 = Len(a) + 1)
    OBVIOUS
  <2>4. st[i + 1] <= st[Len(a) + 1] /\ st[i] \in Nat /\ st[Len(a) + 1] \in Nat
    BY SMTT(30), <2>1, <2>3
  <2>. QED
    BY SMTT(30), <2>1, <2>2, <2>4
<1>2. \A i \in 1..Len(a) : \A n \in 1..a[i].size : g[st[i] + n] = f[st[i] + n]
  BY <1>1, Zenon
<1>. QED
  BY <1>2, Zenon DEF Placed

\* The first n values of st, then x.
Longer(st, n, x) == [i \in 1..(n + 1) |-> IF i <= n THEN st[i] ELSE x]

(***************************************************************************)
(* add() puts its entry behind the others.                                 *)
(***************************************************************************)
LEMMA PlacedMore ==
    ASSUME NEW a \in Seq(Entry), NEW e \in Entry, NEW st, NEW f, NEW g,
           Placed(a, st, f),
           \A p \in 1..st[Len(a) + 1] : g[p] = f[p],
           \A n \in 1..e.size : g[st[Len(a) + 1] + n] = <<e, n>>
    PROVE  Placed(Append(a, e),
                  Longer(st, Len(a) + 1, st[Len(a) + 1] + e.size), g)
<1>. DEFINE N == Len(a) + 1
            s == Longer(st, N, st[N] + e.size)
            c == Append(a, e)
<1>1. Len(a) \in Nat /\ N \in Nat /\ N \in 1..N /\ 1 \in 1..N /\ Len(c) = N
  OBVIOUS
<1>2. c[N] = e /\ \A i \in 1..Len(a) : c[i] = a[i]
  OBVIOUS
<1>3. e.size \in Nat /\ e.size > 0
  BY EntryFields
<1>4. Placed(a, st, g)
  BY PlacedImage, Zenon
<1>5. /\ st \in [1..N -> Nat] /\ st[1] = 0
      /\ \A i, j \in 1..N : i < j => st[i] < st[j]
      /\ \A i \in 1..Len(a) : /\ st[i + 1] = st[i] + a[i].size
                              /\ \A n \in 1..a[i].size : g[st[i] + n] = <<a[i], n>>
  BY <1>4, Zenon DEF Placed
<1>6. DOMAIN s = 1..(N + 1) /\ (\A i \in 1..N : s[i] = st[i])
      /\ s[N + 1] = st[N] + e.size
  <2>1. N \in Nat
    BY <1>1
  <2>. HIDE DEF N
  <2>. QED
    BY ONLY <2>1 DEF Longer
<1>7. s = [i \in 1..(N + 1) |-> s[i]]
  BY Zenon DEF Longer
<1>. HIDE DEF s
<1>8. \A i \in 1..(N + 1) : i \in 1..N \/ i = N + 1
  BY <1>1
<1>9. st[N] \in Nat
  BY <1>1, <1>5, Zenon
<1>10. \A i \in 1..(N + 1) : s[i] \in Nat
  <2>1. st[N] + e.size \in Nat
    BY ONLY <1>3, <1>9
  <2>. HIDE DEF N
  <2>. QED
    BY <2>1, <1>5, <1>6, <1>8, Zenon
<1>11. s \in [1..(N + 1) -> Nat] /\ s[1] = 0
  BY <1>1, <1>5, <1>6, <1>7, <1>10, Zenon
<1>12. ASSUME NEW i \in 1..(N + 1), NEW j \in 1..(N + 1), i < j
       PROVE  s[i] < s[j]
  <2>1. i \in 1..N
    BY <1>12, <1>1
  <2>2. CASE j \in 1..N
    BY <2>1, <2>2, <1>5, <1>6, <1>12
  <2>3. CASE j = N + 1
    <3>1. st[i] <= st[N] /\ st[i] \in Nat
      <4>1. i < N \/ i = N
        BY <2>1, <1>1
      <4>. QED
        BY SMTT(30), <4>1, <1>1, <1>5, <1>9, <2>1
    <3>. QED
      BY ONLY <3>1, <2>1, <2>3, <1>3, <1>6, <1>9
  <2>. QED
    BY <2>2, <2>3, <1>8
<1>13. ASSUME NEW i \in 1..N
       PROVE  /\ s[i + 1] = s[i] + c[i].size
              /\ \A n \in 1..c[i].size : g[s[i] + n] = <<c[i], n>>
  <2>1. CASE i = N
    BY <2>1, <1>1, <1>2, <1>6, Zenon
  <2>2. CASE i \in 1..Len(a)
    <3>1. i + 1 \in 1..N
      BY <2>2, <1>1
    <3>2. i \in 1..N
      OBVIOUS
    <3>3. s[i] = st[i] /\ s[i + 1] = st[i + 1] /\ c[i] = a[i]
      BY ONLY <2>2, <3>1, <3>2, <1>2, <1>6, Zenon
    <3>4. /\ st[i + 1] = st[i] + a[i].size
          /\ \A n \in 1..a[i].size : g[st[i] + n] = <<a[i], n>>
      BY ONLY <2>2, <1>5, Zenon
    <3>. HIDE DEF c, N
    <3>. QED
      BY ONLY <3>3, <3>4, Zenon
  <2>3. i = N \/ i \in 1..Len(a)
    BY <1>1
  <2>. HIDE DEF c, N
  <2>. QED
    BY ONLY <2>1, <2>2, <2>3, Zenon
<1>. HIDE DEF c, N
<1>14. Placed(c, s, g)
  BY <1>1, <1>11, <1>12, <1>13, Zenon DEF Placed
<1>. QED
  BY <1>14, Zenon DEF s, c, N

\* The same with the bytes that add() appends.
LEMMA EncodedPlaced ==
    ASSUME NEW a \in Seq(Entry), NEW e \in Entry, NEW st, NEW f, NEW g, NEW t,
           Placed(a, st, f), st[Len(a) + 1] = t,
           \A p \in 1..t : g[p] = f[p],
           \A n \in 1..Len(Encode(e)) : g[t + n] = Encode(e)[n]
    PROVE  Placed(Append(a, e), Longer(st, Len(a) + 1, t + e.size), g)
<1>1. \A n \in 1..e.size : g[st[Len(a) + 1] + n] = <<e, n>>
  <2>1. Len(Encode(e)) = e.size /\ \A n \in 1..e.size : Encode(e)[n] = <<e, n>>
    BY Encoded, Zenon
  <2>. QED
    BY <2>1, Zenon
<1>2. \A p \in 1..st[Len(a) + 1] : g[p] = f[p]
  BY Zenon
<1>3. Placed(Append(a, e), Longer(st, Len(a) + 1, st[Len(a) + 1] + e.size), g)
  BY <1>1, <1>2, PlacedMore, Zenon
<1>. QED
  BY <1>3, Zenon

(***************************************************************************)
(* The blocks stay what they are when an entry is added, ...               *)
(***************************************************************************)
LEMMA IndexedMore ==
    ASSUME NEW a \in Seq(Entry), NEW e \in Entry, NEW st, NEW x,
           NEW ix \in Seq(IndexEntry), NEW fb, Indexed(a, st, ix, fb)
    PROVE  Indexed(Append(a, e), Longer(st, Len(a) + 1, x), ix, fb)
<1>. DEFINE N == Len(a) + 1
            s == Longer(st, N, x)
            c == Append(a, e)
<1>1. Len(a) \in Nat /\ N \in Nat /\ Len(c) = N /\ Len(ix) \in Nat
  OBVIOUS
<1>2. \A i \in 1..Len(a) : c[i] = a[i]
  OBVIOUS
<1>3. \A i \in 1..N : s[i] = st[i]
  <2>1. N \in Nat
    BY <1>1
  <2>. HIDE DEF N
  <2>. QED
    BY ONLY <2>1 DEF Longer
<1>. HIDE DEF s, c
<1>4. fb \in [1..(Len(ix) + 1) -> 1..N]
  BY Zenon DEF Indexed
<1>5. fb \in [1..(Len(ix) + 1) -> 1..(Len(c) + 1)]
  BY <1>1, <1>4
<1>6. ASSUME NEW b \in 1..Len(ix)
      PROVE  BlockOf(c, s, ix[b], b, fb[b], fb[b + 1])
  <2>1. BlockOf(a, st, ix[b], b, fb[b], fb[b + 1])
    BY Zenon DEF Indexed
  <2>2. b \in 1..(Len(ix) + 1) /\ b + 1 \in 1..(Len(ix) + 1)
    BY <1>1
  <2>3. fb[b] \in 1..N /\ fb[b + 1] \in 1..N
    BY <1>4, <2>2, Zenon
  <2>4. s[fb[b]] = st[fb[b]] /\ s[fb[b + 1]] = st[fb[b + 1]]
    BY <2>3, <1>3, Zenon
  <2>5. fb[b] < fb[b + 1] => c[fb[b]] = a[fb[b]]
    <3>1. fb[b] < fb[b + 1] => fb[b] \in 1..Len(a)
      BY <2>3, <1>1
    <3>. QED
      BY <3>1, <1>2, Zenon
  <2>6. Len(a) > 0 => Len(c) > 0 /\ c[1] = a[1]
    BY <1>1, <1>2
  <2>. QED
    BY <2>1, <2>4, <2>5, <2>6, Zenon DEF BlockOf
<1>7. Indexed(c, s, ix, fb)
  BY <1>5, <1>6, Zenon DEF Indexed
<1>. QED
  BY <1>7, Zenon DEF s, c, N

(***************************************************************************)
(* ... and flush_block appends the one it wrote.                           *)
(***************************************************************************)
LEMMA IndexedFlush ==
    ASSUME NEW a \in Seq(Entry), NEW st, NEW ix \in Seq(IndexEntry), NEW fb,
           NEW r \in IndexEntry, NEW m \in 1..(Len(a) + 1),
           Indexed(a, st, ix, fb),
           BlockOf(a, st, r, Len(ix) + 1, fb[Len(ix) + 1], m)
    PROVE  Indexed(a, st, Append(ix, r), Longer(fb, Len(ix) + 1, m))
<1>. DEFINE N == Len(ix) + 1
            f == Longer(fb, N, m)
            jx == Append(ix, r)
<1>1. Len(ix) \in Nat /\ N \in Nat /\ N \in 1..N /\ 1 \in 1..N /\ Len(jx) = N
      /\ Len(a) \in Nat
  OBVIOUS
<1>2. jx[N] = r /\ \A b \in 1..Len(ix) : jx[b] = ix[b]
  OBVIOUS
<1>3. /\ fb \in [1..N -> 1..(Len(a) + 1)] /\ fb[1] = 1
      /\ \A b, c \in 1..N : b < c => fb[b] <= fb[c] /\ (1 < b => fb[b] < fb[c])
      /\ \A b \in 1..Len(ix) : BlockOf(a, st, ix[b], b, fb[b], fb[b + 1])
  BY Zenon DEF Indexed
<1>4. DOMAIN f = 1..(N + 1) /\ (\A b \in 1..N : f[b] = fb[b]) /\ f[N + 1] = m
  <2>1. N \in Nat
    BY <1>1
  <2>. HIDE DEF N
  <2>. QED
    BY ONLY <2>1 DEF Longer
<1>5. f = [b \in 1..(N + 1) |-> f[b]]
  BY Zenon DEF Longer
<1>6. fb[N] \in 1..(Len(a) + 1)
  BY <1>1, <1>3, Zenon
<1>7. fb[N] <= m /\ (1 < N => fb[N] < m)
  <2>1. fb[N] < m \/ (N = 1 /\ m = 1 /\ fb[N] = 1)
    BY Zenon DEF BlockOf
  <2>. QED
    BY ONLY <2>1, <1>1, <1>6, m \in 1..(Len(a) + 1)
<1>. HIDE DEF f
<1>8. \A b \in 1..(N + 1) : b \in 1..N \/ b = N + 1
  BY <1>1
<1>9. \A b \in 1..(N + 1) : f[b] \in 1..(Len(a) + 1)
  BY <1>3, <1>4, <1>8, Zenon
<1>10. f \in [1..(N + 1) -> 1..(Len(a) + 1)] /\ f[1] = 1
  BY <1>1, <1>3, <1>4, <1>5, <1>9, Zenon
<1>11. ASSUME NEW b \in 1..(N + 1), NEW c \in 1..(N + 1), b < c
       PROVE  f[b] <= f[c] /\ (1 < b => f[b] < f[c])
  <2>1. b \in 1..N /\ f[b] = fb[b]
    BY <1>1, <1>4, <1>11
  <2>2. CASE c \in 1..N
    BY <2>1, <2>2, <1>3, <1>4, <1>11, Zenon
  <2>3. CASE c = N + 1
    <3>1. f[c] = m
      BY <2>3, <1>4, Zenon
    <3>2. fb[b] <= fb[N] /\ fb[b] \in 1..(Len(a) + 1) /\ (1 < b => 1 < N)
      <4>1. b < N \/ b = N
        BY SMTT(30), <2>1, <1>1
      <4>2. fb[b] \in 1..(Len(a) + 1)
        BY <2>1, <1>3, Zenon
      <4>3. b < N => fb[b] <= fb[N]
        BY <2>1, <1>1, <1>3, Zenon
      <4>. QED
        BY ONLY <4>1, <4>2, <4>3, <2>1, <1>1, <1>6
    <3>. QED
      BY ONLY <3>1, <3>2, <2>1, <1>6, <1>7, m \in 1..(Len(a) + 1), Len(a) \in Nat
  <2>. QED
    BY <2>2, <2>3, <1>8
<1>12. ASSUME NEW b \in 1..N
       PROVE  BlockOf(a, st, jx[b], b, f[b], f[b + 1])
  <2>1. CASE b = N
    BY <2>1, <1>1, <1>2, <1>4, Zenon
  <2>2. CASE b \in 1..Len(ix)
    <3>1. b + 1 \in 1..N
      BY <2>2, <1>1
    <3>. HIDE DEF jx, N
    <3>. QED
      BY <2>2, <3>1, <1>2, <1>3, <1>4, Zenon
  <2>. QED
    BY <2>1, <2>2, <1>1
<1>. HIDE DEF jx, N
<1>13. Indexed(a, st, jx, f)
  BY <1>1, <1>10, <1>11, <1>12, Zenon DEF Indexed
<1>. QED
  BY <1>13, Zenon DEF f, jx, N

-----------------------------------------------------------------------------
(***************************************************************************)
(* Blocks and their entries.                                               *)
(***************************************************************************)

(***************************************************************************)
(* Later entries start later.                                              *)
(***************************************************************************)
LEMMA InOrder ==
    ASSUME NEW a \in Seq(Entry), NEW st, NEW f, Placed(a, st, f)
    PROVE  \A i, j \in 1..(Len(a) + 1) :
              /\ st[i] \in Nat /\ st[j] \in Nat
              /\ i <= j => st[i] <= st[j]
              /\ i < j => st[i] < st[j]
              /\ st[i] = st[j] => i = j
<1>. SUFFICES ASSUME NEW i \in 1..(Len(a) + 1), NEW j \in 1..(Len(a) + 1)
              PROVE  /\ st[i] \in Nat /\ st[j] \in Nat
                     /\ i <= j => st[i] <= st[j]
                     /\ i < j => st[i] < st[j]
                     /\ st[i] = st[j] => i = j
  BY Zenon
<1>1. /\ st \in [1..(Len(a) + 1) -> Nat]
      /\ \A x, y \in 1..(Len(a) + 1) : x < y => st[x] < st[y]
  BY Zenon DEF Placed
<1>2. st[i] \in Nat /\ st[j] \in Nat
  BY <1>1, Zenon
<1>3. (i < j => st[i] < st[j]) /\ (j < i => st[j] < st[i])
  BY <1>1, Zenon
<1>. QED
  BY ONLY <1>2, <1>3, i \in 1..(Len(a) + 1), j \in 1..(Len(a) + 1), Len(a) \in Nat

(***************************************************************************)
(* What SubSeq returns.                                                    *)
(***************************************************************************)
LEMMA SubSeqValues ==
    ASSUME NEW d \in Seq(Unit), NEW o \in Nat, NEW s \in Nat, o + s <= Len(d)
    PROVE  /\ SubSeq(d, o + 1, o + s) \in Seq(Unit)
           /\ Len(SubSeq(d, o + 1, o + s)) = s
           /\ \A p \in 1..s : SubSeq(d, o + 1, o + s)[p] = d[o + p]
  OBVIOUS

\* A block with the entries from lo on and before hi.
Holds(block, a, st, lo, hi) ==
    /\ block \in Seq(Unit) /\ Len(block) = st[hi] - st[lo]
    /\ \A i \in lo..(hi - 1) : \A n \in 1..a[i].size :
          block[(st[i] - st[lo]) + n] = <<a[i], n>>

(***************************************************************************)
(* Where the map places the bounds of a block.                             *)
(***************************************************************************)
LEMMA BlockBounds ==
    ASSUME TypeOK, NEW st, NEW fb, Laid(st, fb), NEW b \in 1..Len(index)
    PROVE  /\ fb[b] \in 1..(Len(added) + 1) /\ fb[b + 1] \in 1..(Len(added) + 1)
           /\ fb[b] <= fb[b + 1]
           /\ BlockOf(added, st, index[b], b, fb[b], fb[b + 1])
           /\ st[fb[b]] \in Nat /\ st[fb[b + 1]] \in Nat
           /\ st[fb[b]] <= st[fb[b + 1]] /\ st[fb[b + 1]] <= file_offset
<1>1. /\ Placed(added, st, Image(data, buffer, file_offset))
      /\ Indexed(added, st, index, fb)
      /\ st[fb[Len(index) + 1]] = file_offset
  BY Zenon DEF Laid
<1>2. added \in Seq(Entry) /\ index \in Seq(IndexEntry)
  BY Zenon DEF TypeOK
<1>. DEFINE N == Len(index) + 1
<1>3. Len(index) \in Nat /\ b \in 1..N /\ b + 1 \in 1..N /\ N \in 1..N /\ b < b + 1
      /\ (b + 1 < N \/ b + 1 = N)
  BY <1>2
<1>4. /\ fb \in [1..N -> 1..(Len(added) + 1)]
      /\ \A x, y \in 1..N : x < y => fb[x] <= fb[y]
      /\ BlockOf(added, st, index[b], b, fb[b], fb[b + 1])
  BY <1>1, Zenon DEF Indexed
<1>. HIDE DEF N
<1>5. /\ fb[b] \in 1..(Len(added) + 1) /\ fb[b + 1] \in 1..(Len(added) + 1)
      /\ fb[N] \in 1..(Len(added) + 1)
  BY <1>3, <1>4, Zenon
<1>6. fb[b] <= fb[b + 1]
  BY <1>3, <1>4, Zenon
<1>7. fb[b + 1] <= fb[N]
  BY <1>3, <1>4, <1>5, <1>2
<1>8. \A i, j \in 1..(Len(added) + 1) :
         st[i] \in Nat /\ st[j] \in Nat /\ (i <= j => st[i] <= st[j])
  BY <1>1, <1>2, InOrder, Zenon
<1>9. /\ st[fb[b]] \in Nat /\ st[fb[b + 1]] \in Nat
      /\ st[fb[b]] <= st[fb[b + 1]] /\ st[fb[b + 1]] <= st[fb[N]]
  BY ONLY <1>5, <1>6, <1>7, <1>8, Zenon
<1>. QED
  BY <1>1, <1>4, <1>5, <1>6, <1>9, Zenon DEF N

(***************************************************************************)
(* An index entry leads to the block with the entries the map says.        *)
(***************************************************************************)
LEMMA BlockHolds ==
    ASSUME TypeOK, file_offset <= Len(data), NEW st, NEW fb, Laid(st, fb),
           NEW b \in 1..Len(index)
    PROVE  Holds(Block(index[b]), added, st, fb[b], fb[b + 1])
<1>. DEFINE lo == fb[b]  hi == fb[b + 1]
            o == index[b].block_offset  s == index[b].block_size
<1>1. /\ lo \in 1..(Len(added) + 1) /\ hi \in 1..(Len(added) + 1) /\ lo <= hi
      /\ o = st[lo] /\ o + s = st[hi]
      /\ st[lo] \in Nat /\ st[hi] \in Nat
      /\ st[lo] <= st[hi] /\ st[hi] <= file_offset
  <2>1. /\ lo \in 1..(Len(added) + 1) /\ hi \in 1..(Len(added) + 1)
        /\ lo <= hi
        /\ BlockOf(added, st, index[b], b, lo, hi)
        /\ st[lo] \in Nat /\ st[hi] \in Nat
        /\ st[lo] <= st[hi] /\ st[hi] <= file_offset
    BY BlockBounds
  <2>. HIDE DEF lo, hi
  <2>. QED
    BY <2>1, Zenon DEF BlockOf
<1>2. /\ data \in Seq(Unit) /\ buffer \in Seq(Unit) /\ added \in Seq(Entry)
      /\ file_offset \in Nat /\ index \in Seq(IndexEntry)
  BY Zenon DEF TypeOK
<1>3. o \in Nat /\ s \in Nat
  <2>1. index[b] \in IndexEntry
    BY <1>2
  <2>. QED
    BY <2>1, Zenon DEF IndexEntry
<1>4. /\ Block(index[b]) \in Seq(Unit) /\ Len(Block(index[b])) = s
      /\ \A p \in 1..s : Block(index[b])[p] = data[o + p]
  <2>1. o + s <= Len(data) /\ Len(data) \in Nat
    BY SMTT(30), <1>1, <1>2
  <2>. HIDE DEF o, s
  <2>2. Block(index[b]) = SubSeq(data, o + 1, o + s)
    BY Zenon DEF Block, o, s
  <2>. QED
    <3>1. PICK x, y, d : x = o /\ y = s /\ d = data
      BY Zenon
    <3>2. d \in Seq(Unit) /\ x \in Nat /\ y \in Nat /\ x + y <= Len(d)
      BY <1>2, <1>3, <2>1, <3>1, Zenon
    <3>3. /\ SubSeq(d, x + 1, x + y) \in Seq(Unit)
          /\ Len(SubSeq(d, x + 1, x + y)) = y
          /\ \A p \in 1..y : SubSeq(d, x + 1, x + y)[p] = d[x + p]
      BY ONLY <3>2, SubSeqValues, Zenon
    <3>. QED
      BY <2>2, <3>1, <3>3, Zenon
<1>. HIDE DEF o, s
<1>5. Len(Block(index[b])) = st[hi] - st[lo]
  BY <1>1, <1>3, <1>4
<1>6. ASSUME NEW i \in lo..(hi - 1), NEW n \in 1..added[i].size
      PROVE  Block(index[b])[(st[i] - st[lo]) + n] = <<added[i], n>>
  <2>. HIDE DEF lo, hi
  <2>1. i \in 1..Len(added) /\ i \in 1..(Len(added) + 1)
        /\ i + 1 \in 1..(Len(added) + 1) /\ lo <= i /\ i + 1 <= hi
    BY SMTT(30), <1>1, <1>2
  <2>2. Placed(added, st, Image(data, buffer, file_offset))
    BY Zenon DEF Laid
  <2>3. /\ st[i + 1] = st[i] + added[i].size
        /\ Image(data, buffer, file_offset)[st[i] + n] = <<added[i], n>>
    BY <2>1, <2>2, Zenon DEF Placed
  <2>a. \A x, y \in 1..(Len(added) + 1) :
           st[x] \in Nat /\ st[y] \in Nat /\ (x <= y => st[x] <= st[y])
    BY <1>2, <2>2, InOrder, Zenon
  <2>4. st[i] \in Nat /\ st[lo] <= st[i]
    BY <1>1, <2>1, <2>a, Zenon
  <2>5. st[i + 1] \in Nat /\ st[i + 1] <= st[hi]
    BY <1>1, <2>1, <2>a, Zenon
  <2>6. added[i].size \in Nat
    BY <1>2, <2>1, EntryFields
  <2>7. /\ (st[i] - st[lo]) + n \in 1..s
        /\ o + ((st[i] - st[lo]) + n) = st[i] + n
        /\ st[i] + n <= file_offset /\ st[i] + n \in 1..(file_offset + Len(buffer))
    <3>1. Len(buffer) \in Nat /\ file_offset \in Nat
      BY <1>2
    <3>2. PICK x, y, l, h, z : x = st[i] /\ y = st[i + 1] /\ l = st[lo]
                               /\ h = st[hi] /\ z = added[i].size
      BY Zenon
    <3>3. /\ l \in Nat /\ h \in Nat /\ x \in Nat /\ y \in Nat /\ z \in Nat
          /\ o = l /\ o + s = h /\ h <= file_offset /\ y = x + z
          /\ l <= x /\ y <= h /\ n \in 1..z
      BY <1>1, <2>3, <2>4, <2>5, <2>6, <3>2, Zenon
    <3>4. /\ (x - l) + n \in 1..s /\ o + ((x - l) + n) = x + n
          /\ x + n <= file_offset /\ x + n \in 1..(file_offset + Len(buffer))
      BY ONLY <3>1, <3>3, <1>3
    <3>. QED
      BY <3>2, <3>4, Zenon
  <2>8. Image(data, buffer, file_offset)[st[i] + n] = data[st[i] + n]
    BY <2>7, Zenon DEF Image
  <2>. QED
    BY <1>4, <2>3, <2>7, <2>8, Zenon
<1>. QED
  BY <1>4, <1>5, <1>6, Zenon DEF Holds

(***************************************************************************)
(* Where an entry of the block starts it can be decoded, and behind it the *)
(* next one starts.                                                        *)
(***************************************************************************)
LEMMA Decodes ==
    ASSUME NEW a \in Seq(Entry), NEW st, NEW f, Placed(a, st, f),
           NEW lo \in 1..(Len(a) + 1), NEW hi \in 1..(Len(a) + 1),
           NEW block, Holds(block, a, st, lo, hi), NEW i \in lo..(hi - 1)
    PROVE  /\ st[i] - st[lo] \in 0..Len(block) /\ st[i] - st[lo] < Len(block)
           /\ CanDecode(block, st[i] - st[lo])
           /\ block[(st[i] - st[lo]) + 1][1] = a[i]
           /\ (st[i] - st[lo]) + a[i].size = st[i + 1] - st[lo]
           /\ st[i + 1] - st[lo] \in 0..Len(block)
<1>1. i \in 1..Len(a) /\ i \in 1..(Len(a) + 1) /\ i + 1 \in 1..(Len(a) + 1)
      /\ lo <= i /\ i + 1 <= hi
  OBVIOUS
<1>2. a[i].size \in Nat /\ a[i].size > 0
  BY <1>1, EntryFields
<1>3. st[i + 1] = st[i] + a[i].size
  BY <1>1, Zenon DEF Placed
<1>a. \A x, y \in 1..(Len(a) + 1) :
         st[x] \in Nat /\ st[y] \in Nat /\ (x <= y => st[x] <= st[y])
  BY InOrder, Zenon
<1>4. st[lo] \in Nat /\ st[i] \in Nat /\ st[lo] <= st[i]
  BY <1>1, <1>a, Zenon
<1>5. st[hi] \in Nat /\ st[i + 1] \in Nat /\ st[i + 1] <= st[hi]
  BY <1>1, <1>a, Zenon
<1>6. Len(block) = st[hi] - st[lo]
  BY Zenon DEF Holds
<1>. DEFINE o == st[i] - st[lo]
<1>7. /\ o \in 0..Len(block) /\ o < Len(block) /\ o + a[i].size = st[i + 1] - st[lo]
      /\ o + a[i].size <= Len(block) /\ st[i + 1] - st[lo] \in 0..Len(block)
  <2>1. PICK x, y, l, h, z, m : /\ x = st[i] /\ y = st[i + 1] /\ l = st[lo]
                                /\ h = st[hi] /\ z = a[i].size /\ m = Len(block)
    BY Zenon
  <2>2. /\ l \in Nat /\ h \in Nat /\ x \in Nat /\ y \in Nat /\ z \in Nat
        /\ z > 0 /\ m = h - l /\ y = x + z /\ l <= x /\ y <= h
    BY <1>2, <1>3, <1>4, <1>5, <1>6, <2>1, Zenon
  <2>3. /\ x - l \in 0..m /\ x - l < m /\ (x - l) + z = y - l
        /\ (x - l) + z <= m /\ y - l \in 0..m
    BY ONLY <2>2
  <2>. QED
    BY <2>1, <2>3, Zenon
<1>8. block[o + 1] = <<a[i], 1>>
  <2>1. 1 \in 1..a[i].size
    BY ONLY <1>2
  <2>. QED
    BY <2>1, Zenon DEF Holds
<1>. HIDE DEF o
<1>9. block[o + 1][1] = a[i] /\ block[o + 1][2] = 1
  BY ONLY <1>8
<1>10. CanDecode(block, o)
  BY ONLY <1>7, <1>9, Zenon DEF CanDecode
<1>. QED
  BY <1>7, <1>9, <1>10, Zenon DEF o

-----------------------------------------------------------------------------
(***************************************************************************)
(* The linear scan of a block.                                             *)
(***************************************************************************)

\* One round of it: f is what the rounds from further on return.
ScanRound(block, key, f, offset) ==
    IF offset = Len(block) THEN nullopt
    ELSE IF ~CanDecode(block, offset) THEN "BAD_FILE"
    ELSE IF key = block[offset + 1][1].key THEN block[offset + 1][1]
    ELSE IF key < block[offset + 1][1].key THEN nullopt
    ELSE f[offset + block[offset + 1][1].size]

(***************************************************************************)
(* A round moves on and not past the end, so it depends only on what the   *)
(* later ones return.                                                      *)
(***************************************************************************)
LEMMA ScanAdvances ==
    ASSUME NEW block \in Seq(Unit), NEW key, NEW o \in 0..Len(block),
           NEW f, NEW g, \A p \in (o + 1)..Len(block) : f[p] = g[p]
    PROVE  ScanRound(block, key, f, o) = ScanRound(block, key, g, o)
<1>1. CASE o # Len(block) /\ CanDecode(block, o)
  <2>1. o + 1 \in 1..Len(block)
    BY <1>1
  <2>2. block[o + 1] \in Unit
    BY <2>1
  <2>3. block[o + 1][1] \in Entry
    BY <2>2 DEF Unit
  <2>4. block[o + 1][1].size \in Nat /\ block[o + 1][1].size > 0
    BY <2>3, EntryFields
  <2>5. o + block[o + 1][1].size <= Len(block)
    BY <1>1, Zenon DEF CanDecode
  <2>6. o + block[o + 1][1].size \in (o + 1)..Len(block)
    BY <2>4, <2>5
  <2>7. f[o + block[o + 1][1].size] = g[o + block[o + 1][1].size]
    BY <2>6, Zenon
  <2>. QED
    BY <2>7, Zenon DEF ScanRound
<1>2. CASE ~(o # Len(block) /\ CanDecode(block, o))
  BY <1>2, Zenon DEF ScanRound
<1>. QED
  BY <1>1, <1>2, Zenon

(***************************************************************************)
(* The loop ends, whatever the block holds: there is one answer for each   *)
(* place, and Scan is the answer for the first.                            *)
(***************************************************************************)
LEMMA ScanCourse ==
    ASSUME NEW block \in Seq(Unit), NEW key
    PROVE  \E f : /\ Scan(block, key) = f[0]
                  /\ \A o \in 0..Len(block) :
                        f[o] = ScanRound(block, key, f, o)
<1>. DEFINE L == Len(block)
            R(f, o) == ScanRound(block, key, f, o)
            scan == CHOOSE f : f = [o \in 0..L |-> R(f, o)]
            G == {n \in Nat : \E f : \A o \in (L - n)..L : f[o] = R(f, o)}
<1>1. L \in Nat
  OBVIOUS
<1>2. Scan(block, key) = scan[0]
  BY DEF Scan, ScanRound
<1>3. 0 \in G
  <2>. DEFINE f == [o \in {L} |-> nullopt]
  <2>1. ASSUME NEW o \in (L - 0)..L PROVE f[o] = R(f, o)
    <3>1. o = L
      BY <1>1
    <3>. QED
      BY <3>1, Zenon DEF ScanRound
  <2>. QED
    BY <2>1
<1>4. ASSUME NEW n \in 0..(L - 1), n \in G PROVE n + 1 \in G
  <2>1. PICK f : \A o \in (L - n)..L : f[o] = R(f, o)
    BY <1>4, Zenon
  <2>. DEFINE g == [o \in 0..L |-> IF o >= L - n THEN f[o] ELSE R(f, o)]
  <2>2. \A p \in (L - n)..L : p \in 0..L /\ p >= L - n
    BY <1>1
  <2>3. \A p \in (L - n)..L : g[p] = f[p]
    BY <2>2, Zenon
  <2>4. ASSUME NEW o \in (L - (n + 1))..L PROVE g[o] = R(g, o)
    <3>1. o \in 0..L /\ (\A p \in (o + 1)..L : p \in (L - n)..L)
          /\ (o \in (L - n)..L \/ ~(o >= L - n))
      BY <1>1
    <3>2. g[o] = R(f, o)
      BY <2>1, <2>3, <3>1, Zenon
    <3>3. \A p \in (o + 1)..L : g[p] = f[p]
      BY <2>3, <3>1, Zenon
    <3>. HIDE DEF g
    <3>4. R(g, o) = R(f, o)
      BY <3>1, <3>3, ScanAdvances, Zenon
    <3>. QED
      BY <3>2, <3>4, Zenon
  <2>5. n + 1 \in Nat
    OBVIOUS
  <2>. HIDE DEF g
  <2>. QED
    BY <2>4, <2>5
<1>5. L \in G
  <2>1. L \in 0..L
    BY <1>1
  <2>. HIDE DEF G, L
  <2>. QED
    BY <1>1, <1>3, <1>4, <2>1, UpTo, Zenon
<1>6. PICK f : \A o \in 0..L : f[o] = R(f, o)
  <2>1. L - L = 0
    BY <1>1
  <2>. HIDE DEF L
  <2>2. \E f : \A o \in (L - L)..L : f[o] = R(f, o)
    BY <1>5, Zenon
  <2>. QED
    BY <2>1, <2>2, Zenon
<1>. DEFINE h == [o \in 0..L |-> f[o]]
<1>7. ASSUME NEW o \in 0..L PROVE f[o] = R(h, o)
  <2>1. \A p \in (o + 1)..L : p \in 0..L
    BY <1>1
  <2>2. \A p \in (o + 1)..L : h[p] = f[p]
    BY <2>1, Zenon
  <2>. HIDE DEF h
  <2>3. R(h, o) = R(f, o)
    BY <2>2, ScanAdvances, Zenon
  <2>. QED
    BY <1>6, <2>3, Zenon
<1>8. h = [o \in 0..L |-> R(h, o)]
  <2>1. [o \in 0..L |-> f[o]] = [o \in 0..L |-> R(h, o)]
    <3>. HIDE DEF h
    <3>. QED
      BY <1>7, Zenon
  <2>. QED
    BY <2>1, Zenon
<1>9. scan = [o \in 0..L |-> R(scan, o)]
  <2>. HIDE DEF h
  <2>. QED
    BY <1>8, Zenon
<1>. HIDE DEF scan
<1>10. \A o \in 0..L : scan[o] = R(scan, o)
  BY <1>9, Zenon
<1>. QED
  BY <1>2, <1>10, Zenon

(***************************************************************************)
(* In a block of ascending entries the scan returns the one with the key,  *)
(* if there is one.                                                        *)
(***************************************************************************)
LEMMA ScanFinds ==
    ASSUME NEW a \in Seq(Entry), NEW st, NEW f, Placed(a, st, f), Ascending(a),
           NEW lo \in 1..(Len(a) + 1), NEW hi \in 1..(Len(a) + 1), lo <= hi,
           NEW block, Holds(block, a, st, lo, hi), NEW key \in Key
    PROVE  \/ \E i \in lo..(hi - 1) : a[i].key = key /\ Scan(block, key) = a[i]
           \/ /\ \A i \in lo..(hi - 1) : a[i].key # key
              /\ Scan(block, key) = nullopt
<1>1. block \in Seq(Unit) /\ Len(block) = st[hi] - st[lo] /\ key \in Nat
  BY SizeAssumption, Zenon DEF Holds
<1>2. PICK scan : /\ Scan(block, key) = scan[0]
                  /\ \A o \in 0..Len(block) :
                        scan[o] = ScanRound(block, key, scan, o)
  BY <1>1, ScanCourse, Zenon
<1>. DEFINE Found(i) ==
              \/ \E j \in i..(hi - 1) :
                    a[j].key = key /\ scan[st[i] - st[lo]] = a[j]
              \/ /\ \A j \in i..(hi - 1) : a[j].key # key
                 /\ scan[st[i] - st[lo]] = nullopt
            G == {n \in Nat : Found(hi - n)}
<1>3. Found(hi)
  <2>1. Len(block) \in 0..Len(block) /\ ~\E j \in hi..(hi - 1) : TRUE
    BY <1>1
  <2>2. scan[Len(block)] = nullopt
    BY <1>2, <2>1, Zenon DEF ScanRound
  <2>. QED
    BY <1>1, <2>1, <2>2, Zenon
<1>4. ASSUME NEW i \in lo..(hi - 1), Found(i + 1) PROVE Found(i)
  <2>. DEFINE o == st[i] - st[lo]
  <2>1. /\ o \in 0..Len(block) /\ o < Len(block)
        /\ CanDecode(block, o) /\ block[o + 1][1] = a[i]
        /\ o + a[i].size = st[i + 1] - st[lo]
    BY Decodes
  <2>2. o # Len(block)
    BY <1>1, <2>1
  <2>. HIDE DEF o
  <2>3. scan[o] = IF key = a[i].key THEN a[i] ELSE IF key < a[i].key THEN nullopt
                  ELSE scan[st[i + 1] - st[lo]]
    BY <1>2, <2>1, <2>2, Zenon DEF ScanRound
  <2>4. i \in 1..Len(a) /\ i \in i..(hi - 1)
        /\ \A j \in i..(hi - 1) : j \in 1..Len(a) /\ (j = i \/ (j \in (i + 1)..(hi - 1) /\ i < j))
    OBVIOUS
  <2>5. CASE key = a[i].key
    BY <2>3, <2>4, <2>5, Zenon DEF o
  <2>6. CASE key # a[i].key /\ key < a[i].key
    <3>1. scan[o] = nullopt
      BY <2>3, <2>6, Zenon
    <3>2. ASSUME NEW j \in i..(hi - 1) PROVE a[j].key # key
      <4>1. j = i \/ a[i].key < a[j].key
        BY <2>4, Zenon DEF Ascending
      <4>2. a[i].key \in Nat /\ a[j].key \in Nat
        BY <2>4, EntryFields
      <4>. QED
        BY SMTT(30), <4>1, <4>2, <2>6, <1>1
    <3>. QED
      BY <3>1, <3>2, Zenon DEF o
  <2>7. CASE key # a[i].key /\ ~(key < a[i].key)
    <3>1. scan[o] = scan[st[i + 1] - st[lo]]
      BY <2>3, <2>7, Zenon
    <3>2. \A j \in (i + 1)..(hi - 1) : j \in i..(hi - 1)
      OBVIOUS
    <3>3. \A j \in i..(hi - 1) : j \notin (i + 1)..(hi - 1) => a[j].key # key
      BY <2>4, <2>7, Zenon
    <3>. QED
      BY <1>4, <3>1, <3>2, <3>3, Zenon DEF o
  <2>. QED
    BY <2>5, <2>6, <2>7, Zenon
<1>5. hi - lo \in Nat /\ hi - lo \in 0..(hi - lo) /\ hi - (hi - lo) = lo /\ hi - 0 = hi
  OBVIOUS
<1>6. 0 \in G
  BY <1>3, <1>5, Zenon
<1>7. ASSUME NEW n \in 0..((hi - lo) - 1), n \in G PROVE n + 1 \in G
  <2>1. hi - (n + 1) \in lo..(hi - 1) /\ (hi - (n + 1)) + 1 = hi - n /\ n + 1 \in Nat
    OBVIOUS
  <2>2. Found(hi - n)
    BY <1>7, Zenon
  <2>. HIDE DEF Found
  <2>3. Found(hi - (n + 1))
    BY <1>4, <2>1, <2>2, Zenon
  <2>. QED
    BY <2>1, <2>3, Zenon
<1>8. hi - lo \in G
  <2>. HIDE DEF G
  <2>. QED
    BY <1>5, <1>6, <1>7, UpTo, Zenon
<1>9. Found(lo)
  BY <1>5, <1>8, Zenon
<1>10. st[lo] - st[lo] = 0
  <2>1. st[lo] \in Nat
    BY InOrder, Zenon
  <2>. QED
    BY <2>1
<1>. QED
  BY <1>2, <1>9, <1>10, Zenon

-----------------------------------------------------------------------------
(***************************************************************************)
(* What the invariant says of lookups, of the file and of the iterator.    *)
(***************************************************************************)

(***************************************************************************)
(* A filter has whole bytes, so a reader that counts its bytes uses the    *)
(* positions the writer set.                                               *)
(***************************************************************************)
LEMMA FilterRoundTrip ==
    /\ bit_count \in Nat \ {0}
    /\ loaded_bit_count = bit_count
<1>1. FilterBits \in Nat \ {0}
  BY SizeAssumption, Zenon
<1>2. PICK q : q = (FilterBits + 7) \div 8
  BY Zenon
<1>3. q \in Nat \ {0} /\ (q * 8 + 7) \div 8 = q
  BY ONLY <1>1, <1>2
<1>4. bit_count = q * 8
  BY <1>2, Zenon DEF bit_count
<1>5. loaded_bit_count = ((q * 8 + 7) \div 8) * 8
  BY <1>4, Zenon DEF loaded_bit_count
<1>. QED
  BY ONLY <1>3, <1>4, <1>5

(***************************************************************************)
(* Once the file is readable its blocks hold every entry.                  *)
(***************************************************************************)
LEMMA AllFlushed ==
    ASSUME FileInv, footer # nullopt, NEW st, NEW fb, Laid(st, fb)
    PROVE  fb[Len(index) + 1] = Len(added) + 1
<1>1. added \in Seq(Entry) /\ index \in Seq(IndexEntry) /\ file_offset \in Nat
  BY Zenon DEF FileInv, TypeOK
<1>2. buffer = <<>>
  BY Zenon DEF FileInv, Phases
<1>3. /\ Placed(added, st, Image(data, buffer, file_offset))
      /\ Indexed(added, st, index, fb)
      /\ st[Len(added) + 1] = file_offset + Len(buffer)
      /\ st[fb[Len(index) + 1]] = file_offset
  BY Zenon DEF Laid
<1>4. st[Len(added) + 1] = st[fb[Len(index) + 1]]
  BY <1>1, <1>2, <1>3
<1>5. Len(index) + 1 \in 1..(Len(index) + 1) /\ Len(added) + 1 \in 1..(Len(added) + 1)
  BY <1>1
<1>6. fb[Len(index) + 1] \in 1..(Len(added) + 1)
  BY <1>3, <1>5, Zenon DEF Indexed
<1>7. \A i, j \in 1..(Len(added) + 1) : st[i] = st[j] => i = j
  <2>1. PICK f : Placed(added, st, f)
    BY <1>3, Zenon
  <2>2. \A i, j \in 1..(Len(added) + 1) :
           /\ st[i] \in Nat /\ st[j] \in Nat
           /\ i <= j => st[i] <= st[j]
           /\ i < j => st[i] < st[j]
           /\ st[i] = st[j] => i = j
    BY ONLY <2>1, <1>1, InOrder, Zenon
  <2>. QED
    BY ONLY <2>2, Zenon
<1>. QED
  BY <1>4, <1>5, <1>6, <1>7, Zenon

(***************************************************************************)
(* The index search ends at the block that holds the key, if one does.     *)
(***************************************************************************)
LEMMA SearchEndsAtBlock ==
    ASSUME FileInv, footer # nullopt, NEW st, NEW fb, Laid(st, fb),
           NEW i \in 1..Len(added)
    PROVE  LET key == added[i].key
               c == Max(CandidateBlocks(key))
           IN  /\ CandidateBlocks(key) # {}
               /\ c \in 1..Len(index)
               /\ i \in fb[c]..(fb[c + 1] - 1)
<1>. DEFINE key == added[i].key
            C == CandidateBlocks(key)
            c == Max(C)
<1>1. TypeOK /\ Ascending(added)
  BY Zenon DEF FileInv
<1>2. added \in Seq(Entry) /\ index \in Seq(IndexEntry)
  BY <1>1, Zenon DEF TypeOK
<1>3. Len(added) \in Nat /\ Len(index) \in Nat /\ DOMAIN index = 1..Len(index)
  BY <1>2
<1>4. \A j \in 1..Len(added) : added[j].key \in Nat
  BY <1>2, EntryFields
<1>5. fb[1] = 1 /\ fb[Len(index) + 1] = Len(added) + 1
  BY AllFlushed, Zenon DEF Laid, Indexed
<1>6. \A b \in 1..Len(index) :
         /\ fb[b] \in 1..(Len(added) + 1) /\ fb[b + 1] \in 1..(Len(added) + 1)
         /\ \/ fb[b] < fb[b + 1] /\ index[b].first_key = added[fb[b]].key
            \/ b = 1 /\ fb[b] = 1 /\ index[b].first_key = 0
  <2>1. ASSUME NEW b \in 1..Len(index)
        PROVE  /\ fb[b] \in 1..(Len(added) + 1)
               /\ fb[b + 1] \in 1..(Len(added) + 1)
               /\ BlockOf(added, st, index[b], b, fb[b], fb[b + 1])
    BY <1>1, BlockBounds, Zenon
  <2>. QED
    BY <2>1, Zenon DEF BlockOf
<1>7. \A j, k \in 1..Len(added) : added[j].key <= added[k].key => j <= k
  <2>1. \A j, k \in 1..Len(added) : k < j => added[k].key < added[j].key
    BY <1>1, Zenon DEF Ascending
  <2>. QED
    BY <2>1, <1>3, <1>4
<1>8. \A j, k \in 1..Len(added) : j <= k => added[j].key <= added[k].key
  <2>1. \A j, k \in 1..Len(added) : j < k => added[j].key < added[k].key
    BY <1>1, Zenon DEF Ascending
  <2>. QED
    BY <2>1, <1>3, <1>4
<1>9. \A b \in 1..Len(index) : b \in C <=> index[b].first_key <= key
  BY <1>3, Zenon DEF CandidateBlocks
<1>10. C \in SUBSET (0..Len(index)) /\ \A b \in C : b \in 1..Len(index)
  BY <1>3 DEF CandidateBlocks
<1>11. 1 \in 1..Len(index)
  BY <1>3, <1>5
<1>12. 1 \in C
  <2>1. \/ fb[1] < fb[1 + 1] /\ index[1].first_key = added[1].key
        \/ index[1].first_key = 0
    BY <1>5, <1>6, <1>11
  <2>2. added[1].key <= key /\ 0 <= key
    BY <1>3, <1>4, <1>8
  <2>. HIDE DEF key, C
  <2>. QED
    BY <1>9, <1>11, <2>1, <2>2, Zenon
<1>13. c \in C /\ \A b \in C : b <= c
  <2>. HIDE DEF C
  <2>. QED
    BY <1>3, <1>10, <1>12, MaxProperties, Zenon
<1>. HIDE DEF c
<1>14. c \in 1..Len(index) /\ index[c].first_key <= key
  BY <1>9, <1>10, <1>13, Zenon
<1>15. fb[c] <= i
  <2>1. CASE fb[c] < fb[c + 1] /\ index[c].first_key = added[fb[c]].key
    <3>1. fb[c] \in 1..Len(added)
      BY <2>1, <1>6, <1>14, <1>3
    <3>. QED
      BY <2>1, <3>1, <1>7, <1>14, Zenon
  <2>2. CASE fb[c] = 1
    BY <2>2
  <2>. QED
    BY <2>1, <2>2, <1>6, <1>14, Zenon
<1>16. i < fb[c + 1]
  <2>1. CASE c = Len(index)
    BY <2>1, <1>5, <1>3
  <2>2. CASE c # Len(index)
    <3>1. c + 1 \in 1..Len(index) /\ c + 1 # 1 /\ ~(c + 1 <= c)
      <4>1. c \in 1..Len(index) /\ Len(index) \in Nat
        BY <1>3, <1>14, Zenon
      <4>. QED
        BY ONLY <2>2, <4>1
    <3>2. c + 1 \notin C
      BY <3>1, <1>13, Zenon
    <3>3. ~(index[c + 1].first_key <= key)
      BY <3>1, <3>2, <1>9, Zenon
    <3>4. /\ index[c + 1].first_key = added[fb[c + 1]].key
          /\ fb[c + 1] < fb[(c + 1) + 1]
          /\ fb[c + 1] \in 1..(Len(added) + 1)
          /\ fb[(c + 1) + 1] \in 1..(Len(added) + 1)
      BY <3>1, <1>6, Zenon
    <3>5. fb[c + 1] \in 1..Len(added)
      BY <3>4, <1>3
    <3>6. ~(fb[c + 1] <= i)
      BY <3>3, <3>4, <3>5, <1>8, Zenon
    <3>. QED
      BY ONLY <3>5, <3>6, <1>3, i \in 1..Len(added)
  <2>. QED
    BY <2>1, <2>2
<1>17. i \in fb[c]..(fb[c + 1] - 1)
  <2>1. fb[c] \in 1..(Len(added) + 1) /\ fb[c + 1] \in 1..(Len(added) + 1)
    BY <1>6, <1>14, Zenon
  <2>. QED
    BY ONLY <2>1, <1>3, <1>15, <1>16, i \in 1..Len(added)
<1>. QED
  BY <1>12, <1>14, <1>17, Zenon DEF c

(***************************************************************************)
(* get() answers every key as the entries that were added say.             *)
(***************************************************************************)
LEMMA GetAnswers ==
    ASSUME FileInv
    PROVE  GetFindsWhatWasAdded
<1>. SUFFICES ASSUME Readable, NEW key \in Key
              PROVE  Get(key) =
                       IF \E i \in DOMAIN added : added[i].key = key
                       THEN added[CHOOSE i \in DOMAIN added : added[i].key = key]
                       ELSE nullopt
  BY Zenon DEF GetFindsWhatWasAdded
<1>1. PICK st, fb : Laid(st, fb)
  BY Zenon DEF FileInv
<1>2. TypeOK /\ Ascending(added) /\ file_offset <= Len(data) /\ footer # nullopt
  BY Zenon DEF FileInv, Phases, Readable
<1>3. added \in Seq(Entry) /\ index \in Seq(IndexEntry)
  BY <1>2, Zenon DEF TypeOK
<1>4. DOMAIN added = 1..Len(added) /\ Len(added) \in Nat /\ Len(index) \in Nat
      /\ DOMAIN index = 1..Len(index)
  BY <1>3
<1>5. ASSUME NEW c \in 1..Len(index)
      PROVE  LET s == Scan(Block(index[c]), key)
             IN  \/ \E i \in fb[c]..(fb[c + 1] - 1) :
                       i \in 1..Len(added) /\ added[i].key = key /\ s = added[i]
                 \/ /\ \A i \in fb[c]..(fb[c + 1] - 1) : added[i].key # key
                    /\ s = nullopt
  <2>1. /\ fb[c] \in 1..(Len(added) + 1) /\ fb[c + 1] \in 1..(Len(added) + 1)
        /\ fb[c] <= fb[c + 1]
    BY <1>1, <1>2, BlockBounds, Zenon
  <2>2. Holds(Block(index[c]), added, st, fb[c], fb[c + 1])
    BY <1>1, <1>2, BlockHolds, Zenon
  <2>3. Placed(added, st, Image(data, buffer, file_offset))
    BY <1>1, Zenon DEF Laid
  <2>4. \A i \in fb[c]..(fb[c + 1] - 1) : i \in 1..Len(added)
    BY <1>4, <2>1
  <2>5. LET s == Scan(Block(index[c]), key)
        IN  \/ \E i \in fb[c]..(fb[c + 1] - 1) : added[i].key = key /\ s = added[i]
            \/ /\ \A i \in fb[c]..(fb[c + 1] - 1) : added[i].key # key
               /\ s = nullopt
    BY <1>2, <1>3, <2>1, <2>2, <2>3, ScanFinds, ZenonT(30)
  <2>. QED
    BY <2>4, <2>5, Zenon
<1>6. CASE \E i \in DOMAIN added : added[i].key = key
  <2>1. PICK i : i = CHOOSE j \in DOMAIN added : added[j].key = key
    BY Zenon
  <2>2. i \in 1..Len(added) /\ added[i].key = key
    BY <1>4, <1>6, <2>1, Zenon
  <2>3. MayContain(key)
    <3>1. Positions(added[i].key, bit_count) \subseteq filter
      BY <2>2, Zenon DEF FileInv, Summed
    <3>. QED
      BY <2>2, <3>1, FilterRoundTrip, Zenon DEF MayContain
  <2>. DEFINE c == Max(CandidateBlocks(key))
  <2>4. /\ CandidateBlocks(key) # {} /\ c \in 1..Len(index)
        /\ i \in fb[c]..(fb[c + 1] - 1)
    BY <1>1, <1>2, <2>2, SearchEndsAtBlock, Zenon
  <2>. HIDE DEF c
  <2>5. Get(key) = Scan(Block(index[c]), key)
    BY <2>3, <2>4, Zenon DEF Get, c
  <2>6. PICK j \in 1..Len(added) : added[j].key = key /\ Get(key) = added[j]
    BY <1>5, <2>2, <2>4, <2>5, Zenon
  <2>7. i = j
    <3>1. ~(i < j) /\ ~(j < i)
      <4>1. \A x, y \in 1..Len(added) : x < y => added[x].key < added[y].key
        BY <1>2, Zenon DEF Ascending
      <4>2. ~(key < key)
        BY SizeAssumption
      <4>. QED
        BY <4>1, <4>2, <2>2, <2>6, Zenon
    <3>. QED
      BY <3>1, <2>2, <2>6, <1>4
  <2>. QED
    BY <1>6, <2>1, <2>6, <2>7, Zenon
<1>7. CASE ~\E i \in DOMAIN added : added[i].key = key
  <2>1. CASE ~MayContain(key) \/ CandidateBlocks(key) = {}
    BY <1>7, <2>1, Zenon DEF Get
  <2>2. CASE MayContain(key) /\ CandidateBlocks(key) # {}
    <3>. DEFINE c == Max(CandidateBlocks(key))
    <3>1. c \in 1..Len(index)
      <4>1. CandidateBlocks(key) \in SUBSET (0..Len(index))
            /\ \A b \in CandidateBlocks(key) : b \in 1..Len(index)
        BY <1>4 DEF CandidateBlocks
      <4>. QED
        BY <1>4, <4>1, <2>2, MaxProperties, Zenon
    <3>. HIDE DEF c
    <3>2. Get(key) = Scan(Block(index[c]), key)
      BY <2>2, Zenon DEF Get, c
    <3>. QED
      BY <1>4, <1>5, <1>7, <3>1, <3>2, Zenon
  <2>. QED
    BY <2>1, <2>2, Zenon
<1>. QED
  BY <1>6, <1>7, Zenon

(***************************************************************************)
(* The first entry of a block is decoded where the block starts.           *)
(***************************************************************************)
LEMMA BlockStart ==
    ASSUME FileInv, NEW st, NEW fb, Laid(st, fb), NEW b \in 1..Len(index),
           fb[b] < fb[b + 1]
    PROVE  /\ Block(index[b]) # <<>>
           /\ CanDecode(Block(index[b]), 0)
           /\ Block(index[b])[0 + 1][1] = added[fb[b]]
           /\ index[b].block_size > 0
           /\ 0 + added[fb[b]].size = st[fb[b] + 1] - st[fb[b]]
<1>1. TypeOK /\ file_offset <= Len(data)
  BY Zenon DEF FileInv, Phases
<1>2. added \in Seq(Entry) /\ index \in Seq(IndexEntry)
  BY <1>1, Zenon DEF TypeOK
<1>. DEFINE lo == fb[b]  hi == fb[b + 1]
            block == Block(index[b])
<1>3. /\ lo \in 1..(Len(added) + 1) /\ hi \in 1..(Len(added) + 1)
      /\ BlockOf(added, st, index[b], b, lo, hi)
      /\ st[lo] \in Nat /\ st[hi] \in Nat
  BY <1>1, BlockBounds, Zenon
<1>4. Holds(block, added, st, lo, hi)
  BY <1>1, BlockHolds, Zenon
<1>5. Placed(added, st, Image(data, buffer, file_offset))
  BY Zenon DEF Laid
<1>6. lo \in lo..(hi - 1) /\ st[lo] - st[lo] = 0
  BY SMTT(30), <1>2, <1>3
<1>. HIDE DEF lo, hi, block
<1>7. /\ st[lo] - st[lo] \in 0..Len(block) /\ st[lo] - st[lo] < Len(block)
      /\ CanDecode(block, st[lo] - st[lo])
      /\ block[(st[lo] - st[lo]) + 1][1] = added[lo]
      /\ (st[lo] - st[lo]) + added[lo].size = st[lo + 1] - st[lo]
      /\ st[lo + 1] - st[lo] \in 0..Len(block)
  BY ZenonT(30), <1>2, <1>3, <1>4, <1>5, <1>6, Decodes
<1>8. /\ 0 < Len(block) /\ CanDecode(block, 0) /\ block[0 + 1][1] = added[lo]
      /\ 0 + added[lo].size = st[lo + 1] - st[lo]
  BY ONLY <1>6, <1>7, Zenon
<1>9. block # <<>>
  BY ONLY <1>8
<1>10. index[b].block_size > 0
  <2>1. Len(block) = st[hi] - st[lo]
    BY <1>4, Zenon DEF Holds
  <2>2. index[b].block_offset = st[lo] /\ index[b].block_offset + index[b].block_size = st[hi]
    BY <1>3, Zenon DEF BlockOf
  <2>3. index[b].block_size \in Nat
    <3>1. index[b] \in IndexEntry
      BY <1>2
    <3>. QED
      BY <3>1, Zenon DEF IndexEntry
  <2>. QED
    BY ONLY <1>3, <1>8, <2>1, <2>2, <2>3
<1>. QED
  BY <1>8, <1>9, <1>10, Zenon DEF lo, hi, block

(***************************************************************************)
(* Only the file whose first entry does not fit has an empty block.        *)
(***************************************************************************)
LEMMA NoEmptyBlock ==
    ASSUME FileInv, NEW st, NEW fb, Laid(st, fb), NEW b \in 1..Len(index),
           FirstFits \/ b # 1
    PROVE  fb[b] < fb[b + 1] /\ index[b].first_key = added[fb[b]].key
<1>1. BlockOf(added, st, index[b], b, fb[b], fb[b + 1])
  BY BlockBounds, Zenon DEF FileInv
<1>2. Len(added) > 0 /\ b = 1 => ~(added[1].size > MAX_PAGING_SIZE_BYTES)
  <2>1. added \in Seq(Entry) /\ MAX_PAGING_SIZE_BYTES \in Nat
    BY SizeAssumption, Zenon DEF FileInv, TypeOK
  <2>2. Len(added) > 0 => added[1].size \in Nat
    <3>1. Len(added) > 0 => added[1] \in Entry
      BY <2>1
    <3>. QED
      BY <3>1, EntryFields, Zenon
  <2>. QED
    BY <2>1, <2>2 DEF FirstFits
<1>. QED
  BY <1>1, <1>2, Zenon DEF BlockOf

(***************************************************************************)
(* The index and the footer describe the file.                             *)
(***************************************************************************)
LEMMA FileDescribed ==
    ASSUME FileInv
    PROVE  FileDescribesItself
<1>1. PICK st, fb : Laid(st, fb)
  BY Zenon DEF FileInv
<1>2. TypeOK
  BY Zenon DEF FileInv
<1>3. added \in Seq(Entry) /\ index \in Seq(IndexEntry)
  BY <1>2, Zenon DEF TypeOK
<1>4. DOMAIN added = 1..Len(added) /\ DOMAIN index = 1..Len(index)
      /\ Len(added) \in Nat /\ Len(index) \in Nat
  BY <1>3
<1>5. ASSUME NEW i \in DOMAIN index
      PROVE  /\ index[i].block_offset =
                  IF i = 1 THEN 0
                  ELSE index[i - 1].block_offset + index[i - 1].block_size
             /\ FirstFits \/ i # 1 =>
                  /\ index[i].block_size > 0
                  /\ CanDecode(Block(index[i]), 0)
                  /\ Block(index[i])[1][1].key = index[i].first_key
  <2>1. i \in 1..Len(index)
    BY <1>4
  <2>2. ASSUME FirstFits \/ i # 1
        PROVE  /\ CanDecode(Block(index[i]), 0) /\ index[i].block_size > 0
               /\ Block(index[i])[1][1].key = index[i].first_key
    <3>1. fb[i] < fb[i + 1] /\ index[i].first_key = added[fb[i]].key
      BY <1>1, <2>1, <2>2, NoEmptyBlock, Zenon
    <3>2. /\ CanDecode(Block(index[i]), 0) /\ index[i].block_size > 0
          /\ Block(index[i])[0 + 1][1] = added[fb[i]]
      BY <1>1, <2>1, <3>1, BlockStart, Zenon
    <3>3. Block(index[i])[1][1] = added[fb[i]]
      BY <3>2
    <3>. QED
      BY <3>1, <3>2, <3>3, Zenon
  <2>5. index[i].block_offset = st[fb[i]]
    <3>1. BlockOf(added, st, index[i], i, fb[i], fb[i + 1])
      BY <1>1, <1>2, <2>1, BlockBounds, Zenon
    <3>. QED
      BY <3>1, Zenon DEF BlockOf
  <2>6. fb[1] = 1 /\ st[1] = 0
    BY <1>1, Zenon DEF Laid, Indexed, Placed
  <2>7. i # 1 => index[i - 1].block_offset + index[i - 1].block_size = st[fb[i]]
    <3>1. SUFFICES ASSUME i # 1
                   PROVE  index[i - 1].block_offset + index[i - 1].block_size = st[fb[i]]
      OBVIOUS
    <3>2. i - 1 \in 1..Len(index) /\ (i - 1) + 1 = i
      BY <3>1, <2>1, <1>4
    <3>3. BlockOf(added, st, index[i - 1], i - 1, fb[i - 1], fb[(i - 1) + 1])
      BY <1>1, <1>2, <3>2, BlockBounds, Zenon
    <3>. QED
      BY <3>2, <3>3, Zenon DEF BlockOf
  <2>. QED
    BY <2>2, <2>5, <2>6, <2>7, Zenon
<1>6. ASSUME Readable
      PROVE  /\ footer.entry_count = Len(added)
             /\ footer.highest_sequence =
                  Max({added[i].sequence : i \in DOMAIN added} \cup {0})
  <2>1. footer = Footer /\ Summed
    BY <1>6, Zenon DEF Readable, FileInv, Phases
  <2>2. footer.entry_count = entry_count /\ footer.highest_sequence = highest
    BY <2>1 DEF Footer
  <2>. DEFINE S == {added[i].sequence : i \in DOMAIN added} \cup {0}
  <2>3. \A i \in 1..Len(added) : added[i].sequence \in Nat
    BY <1>3, EntryFields
  <2>4. S \in SUBSET Nat
    BY <1>4, <2>3
  <2>5. highest \in S /\ \A i \in 1..Len(added) : added[i].sequence <= highest
    BY <1>4, <2>1, Zenon DEF Summed
  <2>6. \A y \in S : y <= highest
    <3>1. 0 <= highest
      BY <2>4, <2>5
    <3>. QED
      BY <1>4, <2>5, <3>1, Zenon
  <2>. HIDE DEF S
  <2>7. Max(S) = highest
    BY <2>4, <2>5, <2>6, MaxIs, Zenon
  <2>. QED
    BY <2>1, <2>2, <2>7, Zenon DEF S, Summed
<1>. QED
  BY <1>5, <1>6, Zenon DEF FileDescribesItself

(***************************************************************************)
(* A valid iterator shows the entries in order; its end is the file's end. *)
(***************************************************************************)
LEMMA IteratorShows ==
    ASSUME FileInv
    PROVE  IteratorYieldsInOrder
<1>1. PICK st, fb : Cursor(st, fb)
  BY Zenon DEF FileInv
<1>2. it.valid => yielded \in 1..Len(added) /\ it.entry = added[yielded]
  BY <1>1, Zenon DEF Cursor
<1>3. FirstFits /\ it.block_idx > 0 /\ ~it.valid /\ ~it.error => yielded = Len(added)
  BY <1>1, Zenon DEF Cursor
<1>4. it.valid => yielded <= Len(added)
  BY <1>2
<1>. QED
  BY <1>2, <1>3, <1>4, Zenon DEF IteratorYieldsInOrder

-----------------------------------------------------------------------------
(***************************************************************************)
(* The writer's steps.                                                     *)
(***************************************************************************)

(***************************************************************************)
(* What add() does to the counters, the filter and the order of the keys.  *)
(***************************************************************************)
LEMMA EntryCounted ==
    ASSUME FileInv, NEW e \in Entry, CanAdd(e), added' = Append(added, e),
           filter' = filter \cup Positions(e.key, bit_count),
           highest' = Max({highest, e.sequence}),
           entry_count' = entry_count + 1
    PROVE  /\ added' \in Seq(Entry) /\ Len(added') = Len(added) + 1
           /\ Ascending(added') /\ Summed'
           /\ filter' \subseteq 0..(bit_count - 1)
           /\ highest' \in 0..MaxSequence /\ entry_count' \in Nat
<1>. DEFINE N == Len(added) + 1
<1>1. /\ added \in Seq(Entry) /\ highest \in 0..MaxSequence /\ entry_count \in Nat
      /\ filter \subseteq 0..(bit_count - 1)
      /\ Ascending(added) /\ Summed
  BY Zenon DEF FileInv, TypeOK
<1>2. added' \in Seq(Entry) /\ Len(added') = N /\ added'[N] = e /\ Len(added) \in Nat
      /\ \A i \in 1..Len(added) : added'[i] = added[i]
  BY <1>1
<1>3. /\ e.key \in Nat /\ e.sequence \in Nat /\ e.sequence \in 1..MaxSequence
      /\ MaxSequence \in Nat /\ highest \in Nat
  BY <1>1, EntryFields, SizeAssumption
<1>4. \A i \in 1..N : i \in 1..Len(added) \/ i = N
  BY <1>2
<1>5. \A i \in 1..Len(added) : added[i].key \in Nat /\ added[i].sequence \in Nat
  BY <1>1, EntryFields
<1>6. \A i \in 1..Len(added) : added[i].key < e.key
  <2>. SUFFICES ASSUME NEW i \in 1..Len(added) PROVE added[i].key < e.key
    OBVIOUS
  <2>. DEFINE L == Len(added)
  <2>1. L \in 1..L /\ (i = L \/ i < L) /\ added # <<>>
    BY <1>1
  <2>2. added[L].key < e.key
    BY <2>1, Zenon DEF CanAdd
  <2>3. i < L => added[i].key < added[L].key
    BY <1>1, <2>1, Zenon DEF Ascending
  <2>4. added[i].key \in Nat /\ added[L].key \in Nat
    BY <1>5, <2>1, Zenon
  <2>. HIDE DEF L
  <2>. QED
    BY ONLY <2>1, <2>2, <2>3, <2>4, <1>3
<1>7. ASSUME NEW i \in 1..N, NEW j \in 1..N, i < j
      PROVE  added'[i].key < added'[j].key
  <2>1. i \in 1..Len(added)
    BY <1>7, <1>2
  <2>2. CASE j \in 1..Len(added)
    BY <2>1, <2>2, <1>1, <1>2, <1>7, Zenon DEF Ascending
  <2>3. CASE j = N
    BY <2>1, <2>3, <1>2, <1>6, Zenon
  <2>. QED
    BY <2>2, <2>3, <1>4, Zenon
<1>8. Ascending(added')
  BY <1>2, <1>7, Zenon DEF Ascending
<1>9. highest' \in {highest, e.sequence} /\ highest <= highest' /\ e.sequence <= highest'
  <2>1. {highest, e.sequence} \in SUBSET Nat
    BY <1>3, Zenon
  <2>2. CASE highest <= e.sequence
    <3>1. \A y \in {highest, e.sequence} : y <= e.sequence
      BY <2>2, <1>3
    <3>2. highest' = e.sequence
      BY <2>1, <3>1, MaxIs, Zenon
    <3>. QED
      BY <3>1, <3>2, Zenon
  <2>3. CASE ~(highest <= e.sequence)
    <3>1. \A y \in {highest, e.sequence} : y <= highest
      BY <2>3, <1>3
    <3>2. highest' = highest
      BY <2>1, <3>1, MaxIs, Zenon
    <3>. QED
      BY <3>1, <3>2, Zenon
  <2>. QED
    BY <2>2, <2>3
<1>10. highest' \in 0..MaxSequence /\ highest' \in Nat
  BY ONLY <1>1, <1>3, <1>9
<1>11. highest' \in {added'[i].sequence : i \in 1..N} \cup {0}
  <2>1. N \in 1..N /\ \A i \in 1..Len(added) : i \in 1..N
    BY <1>2
  <2>2. CASE highest' = e.sequence
    BY <2>1, <2>2, <1>2, Zenon
  <2>3. CASE highest' = highest
    <3>1. highest \in {added[i].sequence : i \in 1..Len(added)} \cup {0}
      BY <1>1, Zenon DEF Summed
    <3>. HIDE DEF N
    <3>. QED
      BY <2>1, <2>3, <3>1, <1>2, Zenon
  <2>. QED
    BY <2>2, <2>3, <1>9, Zenon
<1>12. \A i \in 1..N : added'[i].sequence <= highest'
  <2>1. \A i \in 1..Len(added) : added[i].sequence <= highest'
    <3>1. \A i \in 1..Len(added) : added[i].sequence <= highest
      BY <1>1, Zenon DEF Summed
    <3>. QED
      BY ONLY <3>1, <1>3, <1>5, <1>9, <1>10
  <2>. HIDE DEF N
  <2>. QED
    BY <2>1, <1>2, <1>4, <1>9, Zenon
<1>13. \A i \in 1..N : Positions(added'[i].key, bit_count) \subseteq filter'
  <2>1. \A i \in 1..Len(added) : Positions(added[i].key, bit_count) \subseteq filter
    BY <1>1, Zenon DEF Summed
  <2>. HIDE DEF N
  <2>. QED
    BY <2>1, <1>2, <1>4, Zenon
<1>14. filter' \subseteq 0..(bit_count - 1)
  <2>. DEFINE stride == IF Hash2(e.key) % 2 = 0 THEN Hash2(e.key) + 1 ELSE Hash2(e.key)
  <2>1. Hash1(e.key) \in Nat /\ Hash2(e.key) \in Nat /\ num_hashes \in 1..30
    BY EntryFields, SizeAssumption, Zenon
  <2>2. stride \in Nat
    BY <2>1
  <2>. HIDE DEF stride
  <2>3. bit_count \in Nat \ {0}
    BY FilterRoundTrip, Zenon
  <2>4. \A i \in 0..(num_hashes - 1) :
           (Hash1(e.key) + i * stride) % bit_count \in 0..(bit_count - 1)
    <3>1. \A i \in 0..(num_hashes - 1) : Hash1(e.key) + i * stride \in Nat
      BY ONLY <2>1, <2>2
    <3>2. \A x \in Nat : x % bit_count \in 0..(bit_count - 1)
      BY ONLY <2>3
    <3>. QED
      BY ONLY <3>1, <3>2, Zenon
  <2>5. Positions(e.key, bit_count) \subseteq 0..(bit_count - 1)
    BY <2>4, Zenon DEF Positions, stride
  <2>. QED
    BY <1>1, <2>5, Zenon
<1>15. entry_count' = N /\ entry_count' \in Nat
  BY <1>1, <1>2 DEF Summed
<1>16. Summed'
  <2>. HIDE DEF N
  <2>. QED
    BY <1>2, <1>11, <1>12, <1>13, <1>15, Zenon DEF Summed
<1>. QED
  BY <1>2, <1>8, <1>10, <1>14, <1>15, <1>16, Zenon

(***************************************************************************)
(* Where the block in the buffer begins and ends.                          *)
(***************************************************************************)
LEMMA PendingBlock ==
    ASSUME FileInv, NEW st, NEW fb, Laid(st, fb)
    PROVE  LET N == Len(added) + 1
               F == fb[Len(index) + 1]
           IN  /\ F \in 1..N /\ N \in 1..N /\ Len(added) \in Nat
               /\ st[F] = file_offset /\ st[N] = file_offset + Len(buffer)
               /\ st[F] \in Nat /\ st[N] \in Nat
               /\ buffer = <<>> => F = N
               /\ buffer # <<>> => /\ F \in 1..Len(added) /\ F < N
                                   /\ first_key = added[F].key
                                   /\ start_offset = file_offset
<1>. DEFINE N == Len(added) + 1
            F == fb[Len(index) + 1]
<1>1. /\ added \in Seq(Entry) /\ index \in Seq(IndexEntry) /\ file_offset \in Nat
      /\ buffer \in Seq(Unit)
  BY Zenon DEF FileInv, TypeOK
<1>2. Placed(added, st, Image(data, buffer, file_offset))
  BY Zenon DEF Laid
<1>3. /\ Indexed(added, st, index, fb)
      /\ st[N] = file_offset + Len(buffer) /\ st[F] = file_offset
      /\ buffer # <<>> => first_key = added[F].key /\ start_offset = file_offset
  BY Zenon DEF Laid
<1>4. Len(index) + 1 \in 1..(Len(index) + 1) /\ N \in 1..N /\ Len(added) \in Nat
  BY <1>1
<1>5. F \in 1..N
  BY <1>3, <1>4, Zenon DEF Indexed
<1>6. \A i, j \in 1..N : st[i] \in Nat /\ st[j] \in Nat /\ (st[i] = st[j] => i = j)
  BY <1>1, <1>2, InOrder, Zenon
<1>. HIDE DEF F
<1>7. st[F] \in Nat /\ st[N] \in Nat /\ (st[F] = st[N] => F = N)
  BY <1>4, <1>5, <1>6, Zenon
<1>8. buffer = <<>> => st[F] = st[N]
  BY <1>1, <1>3
<1>9. buffer # <<>> => st[F] # st[N]
  <2>1. buffer # <<>> => Len(buffer) \in Nat /\ Len(buffer) # 0
    BY <1>1
  <2>. QED
    BY ONLY <2>1, <1>1, <1>3
<1>10. F # N => F \in 1..Len(added) /\ F < N
  BY <1>4, <1>5
<1>. QED
  BY <1>3, <1>4, <1>5, <1>7, <1>8, <1>9, <1>10, Zenon DEF F

(***************************************************************************)
(* Nobody reads before the footer is written.                              *)
(***************************************************************************)
LEMMA IdleCursor ==
    ASSUME FileInv, writer = "open", it' = it
    PROVE  /\ it'.block_idx = 0 /\ ~it'.valid
           /\ \A st, fb : Cursor(st, fb)'
<1>1. it.block_idx = 0 /\ ~it.valid
  BY Zenon DEF FileInv, Phases
<1>2. ~(it'.block_idx > 0) /\ ~it'.valid /\ it'.block_idx = 0
  BY <1>1
<1>. QED
  BY <1>2, Zenon DEF Cursor

(***************************************************************************)
(* add() with room in the block.                                           *)
(***************************************************************************)
LEMMA AddStep ==
    ASSUME FileInv, NEW e \in Entry, Add(e)
    PROVE  FileInv'
<1>1. PICK st, fb : Laid(st, fb)
  BY Zenon DEF FileInv
<1>. DEFINE N == Len(added) + 1
            F == fb[Len(index) + 1]
            t == file_offset + Len(buffer)
<1>2. /\ CanAdd(e) /\ writer = "open"
      /\ buffer' = buffer \o Encode(e)
      /\ first_key' = IF buffer = <<>> THEN e.key ELSE first_key
      /\ start_offset' = IF buffer = <<>> THEN file_offset ELSE start_offset
      /\ filter' = filter \cup Positions(e.key, bit_count)
      /\ highest' = Max({highest, e.sequence})
      /\ entry_count' = entry_count + 1
      /\ added' = Append(added, e)
      /\ UNCHANGED <<file_offset, index, data, footer, writer, it, yielded>>
  BY Zenon DEF Add, Buffered, CanAdd
<1>3. /\ added' \in Seq(Entry) /\ Len(added') = N
      /\ Ascending(added') /\ Summed'
      /\ filter' \subseteq 0..(bit_count - 1)
      /\ highest' \in 0..MaxSequence /\ entry_count' \in Nat
  BY <1>2, EntryCounted, Zenon
<1>4. TypeOK /\ Phases
  BY Zenon DEF FileInv
<1>5. /\ buffer \in Seq(Unit) /\ data \in Seq(Unit) /\ added \in Seq(Entry)
      /\ file_offset \in Nat /\ start_offset \in Nat /\ index \in Seq(IndexEntry)
      /\ first_key \in Key \cup {0}
  BY <1>4, Zenon DEF TypeOK
<1>6. /\ Encode(e) \in Seq(Unit) /\ Len(Encode(e)) = e.size /\ Encode(e) # <<>>
      /\ \A n \in 1..e.size : Encode(e)[n] = <<e, n>>
      /\ e.key \in Key /\ e.size \in Nat /\ e.size > 0
  BY Encoded, EntryFields, Zenon
<1>7. /\ buffer' \in Seq(Unit) /\ Len(buffer') = Len(buffer) + e.size
      /\ buffer' # <<>> /\ Len(buffer) \in Nat
  BY ONLY SMTT(30), <1>2, <1>5, <1>6
<1>8. /\ F \in 1..N /\ N \in 1..N /\ Len(added) \in Nat
      /\ st[F] = file_offset /\ st[N] = file_offset + Len(buffer)
      /\ st[F] \in Nat /\ st[N] \in Nat
      /\ buffer = <<>> => F = N
      /\ buffer # <<>> => /\ F \in 1..Len(added) /\ first_key = added[F].key
                          /\ start_offset = file_offset
  BY <1>1, PendingBlock, Zenon
<1>9. TypeOK'
  <2>1. first_key' \in Key \cup {0} /\ start_offset' \in Nat
    BY <1>2, <1>5, <1>6, Zenon
  <2>. QED
    BY <1>2, <1>3, <1>4, <1>7, <2>1, Zenon DEF TypeOK
<1>10. Phases'
  BY <1>2, <1>4, <1>7, Zenon DEF Phases
<1>11. PICK s : s = Longer(st, N, t + e.size)
  BY Zenon
<1>12. Placed(added', s, Image(data, buffer', file_offset))
  <2>1. Placed(added, st, Image(data, buffer, file_offset)) /\ st[Len(added) + 1] = t
    BY <1>1, Zenon DEF Laid
  <2>2. PICK f, g, c : /\ f = Image(data, buffer, file_offset)
                       /\ g = Image(data, buffer \o c, file_offset)
                       /\ c = Encode(e)
    BY Zenon
  <2>3. c \in Seq(Unit)
    BY <1>6, <2>2, Zenon
  <2>4. /\ \A p \in 1..t : g[p] = f[p]
        /\ \A n \in 1..Len(c) : g[t + n] = c[n]
    <3>1. /\ \A p \in 1..(file_offset + Len(buffer)) :
               Image(data, buffer \o c, file_offset)[p]
                 = Image(data, buffer, file_offset)[p]
          /\ \A n \in 1..Len(c) :
               Image(data, buffer \o c, file_offset)[file_offset + Len(buffer) + n]
                 = c[n]
      <4>1. data \in Seq(Unit) /\ buffer \in Seq(Unit) /\ file_offset \in Nat
        BY <1>5, Zenon
      <4>. QED
        BY ONLY <4>1, <2>3, ImageBuffered
    <3>. QED
      BY ONLY <2>2, <3>1, Zenon
  <2>. HIDE DEF t
  <2>5. Placed(Append(added, e), Longer(st, Len(added) + 1, t + e.size), g)
    <3>1. \A n \in 1..Len(Encode(e)) : g[t + n] = Encode(e)[n]
      BY <2>2, <2>4, Zenon
    <3>2. Placed(added, st, f) /\ st[Len(added) + 1] = t
      BY <2>1, <2>2, Zenon
    <3>. QED
      BY ONLY <1>5, <2>4, <3>1, <3>2, e \in Entry, EncodedPlaced, Zenon
  <2>. QED
    BY <2>2, <2>5, <1>2, <1>11, Zenon
<1>13. Indexed(added', s, index, fb)
  <2>1. Indexed(added, st, index, fb)
    BY <1>1, Zenon DEF Laid
  <2>2. Indexed(Append(added, e), Longer(st, Len(added) + 1, t + e.size), index, fb)
    BY ONLY <2>1, <1>5, e \in Entry, IndexedMore
  <2>. QED
    BY <2>2, <1>2, <1>11, Zenon
<1>14. s[N + 1] = t + e.size /\ \A i \in 1..N : s[i] = st[i]
  <2>1. N \in Nat
    BY <1>8
  <2>. HIDE DEF N, t
  <2>. QED
    BY ONLY <2>1, <1>11 DEF Longer
<1>15. added'[N] = e /\ \A i \in 1..Len(added) : added'[i] = added[i]
  BY <1>2, <1>5
<1>16. s[Len(added') + 1] = file_offset' + Len(buffer')
  <2>1. file_offset' + Len(buffer') = t + e.size
    <3>1. file_offset' = file_offset /\ file_offset \in Nat
      BY <1>2, <1>5, Zenon
    <3>. QED
      BY ONLY <3>1, <1>6, <1>7
  <2>. QED
    BY <2>1, <1>3, <1>14, Zenon
<1>17. s[F] = file_offset'
  BY <1>2, <1>8, <1>14, Zenon
<1>18. first_key' = added'[F].key /\ start_offset' = file_offset'
  BY <1>2, <1>8, <1>15, Zenon
<1>19. Laid(s, fb)'
  BY <1>2, <1>12, <1>13, <1>16, <1>17, <1>18, Zenon DEF Laid
<1>20. Cursor(s, fb)'
  BY <1>2, IdleCursor, Zenon
<1>. QED
  BY <1>3, <1>9, <1>10, <1>19, <1>20, Zenon DEF FileInv

(***************************************************************************)
(* The index entry flush_block makes is of the right type.                 *)
(***************************************************************************)
LEMMA FlushedEntry ==
    ASSUME TypeOK
    PROVE  \E r \in IndexEntry :
             /\ FlushedIndex = Append(index, r)
             /\ r.first_key = first_key /\ r.block_offset = start_offset
             /\ r.block_size = Len(buffer)
<1>. DEFINE r == [first_key |-> first_key, block_offset |-> start_offset,
                  block_size |-> Len(buffer)]
<1>1. buffer \in Seq(Unit) /\ start_offset \in Nat /\ first_key \in Key \cup {0}
  BY Zenon DEF TypeOK
<1>2. Len(buffer) \in Nat
  BY <1>1
<1>3. r \in IndexEntry
  BY <1>1, <1>2, Zenon DEF IndexEntry
<1>4. FlushedIndex = Append(index, r)
  BY Zenon DEF FlushedIndex
<1>5. r.first_key = first_key /\ r.block_offset = start_offset /\ r.block_size = Len(buffer)
  BY Zenon
<1>. HIDE DEF r
<1>. QED
  BY <1>3, <1>4, <1>5, Zenon

(***************************************************************************)
(* add() that flushes the block first.  The empty buffer it may flush is   *)
(* the one before the first entry.                                         *)
(***************************************************************************)
LEMMA AddFlushingStep ==
    ASSUME FileInv, NEW e \in Entry, AddFlushing(e)
    PROVE  FileInv'
<1>1. PICK st, fb : Laid(st, fb)
  BY Zenon DEF FileInv
<1>. DEFINE N == Len(added) + 1
            M == Len(index) + 1
            F == fb[M]
            t == file_offset + Len(buffer)
<1>2. /\ CanAdd(e) /\ writer = "open" /\ Overflows(e)
      /\ data' = data \o buffer /\ index' = FlushedIndex
      /\ file_offset' = t
      /\ buffer' = <<>> \o Encode(e) /\ first_key' = e.key /\ start_offset' = t
      /\ filter' = filter \cup Positions(e.key, bit_count)
      /\ highest' = Max({highest, e.sequence})
      /\ entry_count' = entry_count + 1
      /\ added' = Append(added, e)
      /\ UNCHANGED <<footer, writer, it, yielded>>
  BY Zenon DEF AddFlushing, Buffered, CanAdd
<1>3. /\ added' \in Seq(Entry) /\ Len(added') = N
      /\ Ascending(added') /\ Summed'
      /\ filter' \subseteq 0..(bit_count - 1)
      /\ highest' \in 0..MaxSequence /\ entry_count' \in Nat
  BY <1>2, EntryCounted, Zenon
<1>4. TypeOK /\ Phases
  BY Zenon DEF FileInv
<1>5. /\ buffer \in Seq(Unit) /\ data \in Seq(Unit) /\ added \in Seq(Entry)
      /\ file_offset \in Nat /\ start_offset \in Nat /\ index \in Seq(IndexEntry)
      /\ Len(data) = file_offset
  BY <1>2, <1>4, Zenon DEF TypeOK, Phases
<1>6. /\ Encode(e) \in Seq(Unit) /\ Len(Encode(e)) = e.size /\ Encode(e) # <<>>
      /\ e.key \in Key /\ e.size \in Nat /\ e.size > 0
  BY Encoded, EntryFields, Zenon
<1>7. buffer' = Encode(e) /\ Len(buffer) \in Nat /\ t \in Nat
  BY ONLY <1>2, <1>5, <1>6
<1>8. /\ F \in 1..N /\ N \in 1..N /\ Len(added) \in Nat
      /\ st[F] = file_offset /\ st[N] = t
      /\ buffer # <<>> => /\ F \in 1..Len(added) /\ F < N
                          /\ first_key = added[F].key
                          /\ start_offset = file_offset
  BY <1>1, PendingBlock, Zenon
<1>9. PICK r \in IndexEntry :
        /\ index' = Append(index, r)
        /\ r.first_key = first_key /\ r.block_offset = start_offset
        /\ r.block_size = Len(buffer)
  BY <1>2, <1>4, FlushedEntry, Zenon
<1>10. /\ data' \in Seq(Unit) /\ Len(data') = t
       /\ index' \in Seq(IndexEntry) /\ Len(index') = M
  <2>1. data' = data \o buffer /\ index' = Append(index, r)
    BY <1>2, <1>9, Zenon
  <2>2. data' \in Seq(Unit) /\ Len(data') = t
    BY ONLY <2>1, <1>5
  <2>3. index' \in Seq(IndexEntry) /\ Len(index') = M
    BY <2>1, <1>5
  <2>. QED
    BY <2>2, <2>3, Zenon
<1>11. TypeOK'
  BY <1>2, <1>3, <1>4, <1>6, <1>7, <1>10, Zenon DEF TypeOK
<1>12. Phases'
  <2>1. file_offset' <= Len(data')
    BY ONLY <1>2, <1>7, <1>10
  <2>2. buffer' # <<>> /\ footer' = nullopt /\ it'.block_idx = 0 /\ ~it'.valid
        /\ Len(data') = file_offset'
    BY <1>2, <1>4, <1>6, <1>7, <1>10, Zenon DEF Phases
  <2>. QED
    BY <2>1, <2>2, Zenon DEF Phases
<1>13. PICK s : s = Longer(st, N, t + e.size)
  BY Zenon
<1>14. Placed(added', s, Image(data', buffer', file_offset'))
  <2>1. Placed(added, st, Image(data, buffer, file_offset)) /\ st[Len(added) + 1] = t
    BY <1>1, Zenon DEF Laid
  <2>2. PICK f, g, c : /\ f = Image(data, buffer, file_offset)
                       /\ g = Image(data \o buffer, c, t)
                       /\ c = Encode(e)
    BY Zenon
  <2>3. c \in Seq(Unit)
    BY <1>6, <2>2, Zenon
  <2>4. /\ \A p \in 1..t : g[p] = f[p]
        /\ \A n \in 1..Len(c) : g[t + n] = c[n]
    <3>1. /\ \A p \in 1..(Len(data) + Len(buffer)) :
               Image(data \o buffer, c, Len(data) + Len(buffer))[p]
                 = Image(data, buffer, Len(data))[p]
          /\ \A n \in 1..Len(c) :
               Image(data \o buffer, c, Len(data) + Len(buffer))
                    [Len(data) + Len(buffer) + n] = c[n]
      <4>1. data \in Seq(Unit) /\ buffer \in Seq(Unit)
        BY <1>5, Zenon
      <4>. QED
        BY ONLY <4>1, <2>3, ImageFlushed, Zenon
    <3>2. Len(data) = file_offset
      BY <1>5, Zenon
    <3>. QED
      BY ONLY <2>2, <3>1, <3>2, Zenon
  <2>. HIDE DEF t
  <2>5. Placed(Append(added, e), Longer(st, Len(added) + 1, t + e.size), g)
    <3>1. \A n \in 1..Len(Encode(e)) : g[t + n] = Encode(e)[n]
      BY <2>2, <2>4, Zenon
    <3>2. Placed(added, st, f) /\ st[Len(added) + 1] = t
      BY <2>1, <2>2, Zenon
    <3>. QED
      BY ONLY <1>5, <2>4, <3>1, <3>2, e \in Entry, EncodedPlaced, Zenon
  <2>. QED
    BY <2>2, <2>5, <1>2, <1>7, <1>13, Zenon
<1>15. Indexed(added', s, index, fb)
  <2>1. Indexed(added, st, index, fb)
    BY <1>1, Zenon DEF Laid
  <2>2. Indexed(Append(added, e), Longer(st, Len(added) + 1, t + e.size), index, fb)
    BY ONLY <2>1, <1>5, e \in Entry, IndexedMore
  <2>. QED
    BY <2>2, <1>2, <1>13, Zenon
<1>16. s[N + 1] = t + e.size /\ \A i \in 1..N : s[i] = st[i]
  <2>1. N \in Nat
    BY <1>8
  <2>. HIDE DEF N, t
  <2>. QED
    BY ONLY <2>1, <1>13 DEF Longer
<1>17. added'[N] = e /\ \A i \in 1..Len(added) : added'[i] = added[i]
  BY <1>2, <1>5
<1>18. BlockOf(added', s, r, M, F, N)
  <2>1. s[F] = file_offset /\ s[N] = t
    BY <1>8, <1>16, Zenon
  <2>2. CASE buffer # <<>>
    BY <2>1, <2>2, <1>8, <1>9, <1>17, Zenon DEF BlockOf
  <2>3. CASE buffer = <<>>
    <3>1. added = <<>> /\ index = <<>> /\ first_key = 0 /\ start_offset = 0
      BY <1>2, <1>4, <2>3, Zenon DEF Phases
    <3>2. N = 1 /\ M = 1 /\ Len(buffer) = 0
      BY <2>3, <3>1
    <3>3. F = 1 /\ st[1] = 0
      BY <1>1, <3>2, Zenon DEF Laid, Indexed, Placed
    <3>4. e.size > MAX_PAGING_SIZE_BYTES
      BY <1>2, <1>6, <3>2 DEF Overflows
    <3>5. Len(added') > 0 /\ added'[1] = e
      BY <1>3, <1>17, <3>2
    <3>6. r.block_offset + r.block_size = 0 /\ r.block_offset = 0 /\ r.first_key = 0
      BY <1>9, <3>1, <3>2
    <3>7. s[F] = 0 /\ s[N] = 0
      BY <1>8, <1>16, <3>2, <3>3, Zenon
    <3>. QED
      BY ONLY <3>2, <3>3, <3>4, <3>5, <3>6, <3>7, Zenon DEF BlockOf
  <2>. QED
    BY <2>2, <2>3
<1>19. PICK h : h = Longer(fb, M, N)
  BY Zenon
<1>20. Indexed(added', s, index', h)
  <2>1. N \in 1..(Len(added') + 1)
    BY <1>3, <1>8
  <2>. HIDE DEF N
  <2>2. Indexed(added', s, Append(index, r), Longer(fb, Len(index) + 1, N))
    BY ONLY <1>3, <1>5, <1>9, <1>15, <1>18, <2>1, IndexedFlush
  <2>. QED
    BY <1>9, <1>19, <2>2, Zenon
<1>21. h[M + 1] = N
  <2>1. M \in Nat
    BY <1>5
  <2>. HIDE DEF M, N
  <2>. QED
    BY ONLY <2>1, <1>19 DEF Longer
<1>22. s[Len(added') + 1] = file_offset' + Len(buffer')
  BY <1>2, <1>3, <1>6, <1>7, <1>16, Zenon
<1>23. s[h[Len(index') + 1]] = file_offset'
  BY <1>2, <1>8, <1>10, <1>16, <1>21, Zenon
<1>24. first_key' = added'[h[Len(index') + 1]].key /\ start_offset' = file_offset'
  BY <1>2, <1>10, <1>17, <1>21, Zenon
<1>25. Laid(s, h)'
  BY <1>14, <1>20, <1>22, <1>23, <1>24, Zenon DEF Laid
<1>26. Cursor(s, h)'
  BY <1>2, IdleCursor, Zenon
<1>. QED
  BY <1>3, <1>11, <1>12, <1>25, <1>26, Zenon DEF FileInv

(***************************************************************************)
(* A block behind the data.                                                *)
(***************************************************************************)
LEMMA Joined ==
    ASSUME NEW d \in Seq(Unit), NEW b \in Seq(Unit)
    PROVE  /\ d \o b \in Seq(Unit) /\ Len(d \o b) = Len(d) + Len(b)
           /\ Len(d) + Len(b) \in Nat
  OBVIOUS

(***************************************************************************)
(* A block write that fails leaves some of the block behind the data that  *)
(* counts.                                                                 *)
(***************************************************************************)
LEMMA TornStep ==
    ASSUME FileInv, writer = "open", NEW n \in 0..Len(buffer), Torn(n)
    PROVE  FileInv'
<1>1. PICK st, fb : Laid(st, fb)
  BY Zenon DEF FileInv
<1>2. /\ data' = data \o SubSeq(buffer, 1, n) /\ writer' = "failed"
      /\ UNCHANGED <<buffer, first_key, start_offset, file_offset, index, filter,
                     highest, entry_count, footer, added, it, yielded>>
  BY Zenon DEF Torn
<1>3. TypeOK /\ Phases /\ Ascending(added) /\ Summed
  BY Zenon DEF FileInv
<1>4. buffer \in Seq(Unit) /\ data \in Seq(Unit) /\ file_offset \in 0..Len(data)
  <2>1. buffer \in Seq(Unit) /\ data \in Seq(Unit) /\ file_offset \in Nat
        /\ file_offset <= Len(data)
    BY <1>3, Zenon DEF TypeOK, Phases
  <2>. QED
    BY <2>1
<1>5. PICK c \in Seq(Unit) : c = SubSeq(buffer, 1, n)
  <2>1. SubSeq(buffer, 1, n) \in Seq(Unit)
    BY <1>4
  <2>. QED
    BY <2>1, Zenon
<1>6. data' \in Seq(Unit) /\ file_offset' <= Len(data')
  <2>1. data' = data \o c /\ file_offset' = file_offset
    BY <1>2, <1>5, Zenon
  <2>. QED
    BY ONLY <2>1, <1>4, c \in Seq(Unit)
<1>7. Image(data', buffer', file_offset') = Image(data, buffer, file_offset)
  <2>1. Image(data \o c, buffer, file_offset) = Image(data, buffer, file_offset)
    BY <1>4, ImageTorn, Zenon
  <2>. QED
    BY <2>1, <1>2, <1>5, Zenon
<1>8. TypeOK'
  BY <1>2, <1>3, <1>6, Zenon DEF TypeOK
<1>9. it'.block_idx = 0 /\ ~it'.valid /\ Cursor(st, fb)'
  BY <1>2, IdleCursor, Zenon
<1>10. Phases'
  <2>1. footer' = nullopt
    BY <1>2, <1>3, Zenon DEF Phases
  <2>. QED
    BY <1>2, <1>6, <1>9, <2>1, Zenon DEF Phases
<1>11. Laid(st, fb)'
  BY <1>1, <1>2, <1>7, Zenon DEF Laid
<1>12. Ascending(added') /\ Summed'
  BY <1>2, <1>3, Zenon DEF Summed
<1>. QED
  BY <1>8, <1>9, <1>10, <1>11, <1>12, Zenon DEF FileInv

(***************************************************************************)
(* finish(): the last block, then the footer.                              *)
(***************************************************************************)
LEMMA FinishStep ==
    ASSUME FileInv, Finish
    PROVE  FileInv'
<1>1. PICK st, fb : Laid(st, fb)
  BY Zenon DEF FileInv
<1>2. /\ writer = "open" /\ buffer' = <<>> /\ footer' = Footer
      /\ writer' \in {"finished", "failed"}
      /\ UNCHANGED <<first_key, start_offset, filter, highest, entry_count, added,
                     it, yielded>>
  BY Zenon DEF Finish
<1>3. TypeOK /\ Phases /\ Ascending(added) /\ Summed
  BY Zenon DEF FileInv
<1>4. /\ buffer \in Seq(Unit) /\ data \in Seq(Unit) /\ added \in Seq(Entry)
      /\ file_offset \in Nat /\ index \in Seq(IndexEntry)
      /\ Len(data) = file_offset
  BY <1>2, <1>3, Zenon DEF TypeOK, Phases
<1>5. Ascending(added') /\ Summed'
  BY <1>2, <1>3, Zenon DEF Summed
<1>6. Footer' = Footer /\ Footer \in [entry_count : Nat, highest_sequence : 0..MaxSequence]
  BY <1>2, <1>3, Zenon DEF Footer, TypeOK
<1>7. it'.block_idx = 0 /\ ~it'.valid /\ \A s, h : Cursor(s, h)'
  BY <1>2, IdleCursor, Zenon
<1>8. ASSUME data' \in Seq(Unit), index' \in Seq(IndexEntry), file_offset' \in Nat,
             file_offset' <= Len(data'), NEW h, Laid(st, h)'
      PROVE  FileInv'
  <2>1. TypeOK'
    <3>1. buffer' \in Seq(Unit)
      BY <1>2
    <3>2. writer' \in {"open", "finished", "failed"}
      BY <1>2, Zenon
    <3>. QED
      BY <1>2, <1>3, <1>6, <1>8, <3>1, <3>2, Zenon DEF TypeOK
  <2>2. writer' # "open"
    BY <1>2
  <2>3. Phases'
    BY <1>2, <1>6, <1>7, <1>8, <2>2, Zenon DEF Phases
  <2>. QED
    BY <1>5, <1>7, <1>8, <2>1, <2>3, Zenon DEF FileInv
<1>9. CASE buffer = <<>>
  <2>1. UNCHANGED <<data, index, file_offset>>
    BY <1>9, Zenon DEF Finish
  <2>2. Laid(st, fb)'
    BY <1>1, <1>2, <1>9, <2>1, Zenon DEF Laid
  <2>3. file_offset' <= Len(data')
    BY <1>4, <2>1
  <2>. QED
    BY <1>4, <1>8, <2>1, <2>2, <2>3, Zenon
<1>10. CASE buffer # <<>>
  <2>. DEFINE N == Len(added) + 1
              M == Len(index) + 1
              F == fb[M]
              t == file_offset + Len(buffer)
  <2>1. data' = data \o buffer /\ index' = FlushedIndex /\ file_offset' = t
    BY <1>10, Zenon DEF Finish
  <2>2. /\ F \in 1..N /\ N \in 1..N /\ F < N
        /\ st[F] = file_offset /\ st[N] = t
        /\ first_key = added[F].key /\ start_offset = file_offset
    BY <1>1, <1>10, PendingBlock, Zenon
  <2>3. PICK r \in IndexEntry :
          /\ index' = Append(index, r)
          /\ r.first_key = first_key /\ r.block_offset = start_offset
          /\ r.block_size = Len(buffer)
    BY <1>3, <2>1, FlushedEntry, Zenon
  <2>4. /\ data' \in Seq(Unit) /\ Len(data') = t /\ t \in Nat
    <3>1. data \o buffer \in Seq(Unit) /\ Len(data \o buffer) = Len(data) + Len(buffer)
          /\ Len(data) + Len(buffer) \in Nat
      BY <1>4, Joined, Zenon
    <3>. QED
      BY <1>4, <2>1, <3>1, Zenon
  <2>5. index' \in Seq(IndexEntry) /\ Len(index') = M /\ M \in Nat
    BY <1>4, <2>3
  <2>6. BlockOf(added, st, r, M, F, N)
    BY <2>2, <2>3, Zenon DEF BlockOf
  <2>7. PICK h : h = Longer(fb, M, N)
    BY Zenon
  <2>8. Indexed(added, st, index', h)
    <3>1. Indexed(added, st, index, fb)
      BY <1>1, Zenon DEF Laid
    <3>2. Indexed(added, st, Append(index, r), Longer(fb, Len(index) + 1, N))
      BY ZenonT(30), <1>4, <2>2, <2>3, <2>6, <3>1, IndexedFlush
    <3>. QED
      BY <2>3, <2>7, <3>2, Zenon
  <2>9. h[M + 1] = N
    <3>. HIDE DEF M, N
    <3>. QED
      BY ONLY <2>5, <2>7 DEF Longer
  <2>10. Placed(added, st, Image(data', buffer', file_offset'))
    <3>1. Placed(added, st, Image(data, buffer, file_offset)) /\ st[Len(added) + 1] = t
      BY <1>1, Zenon DEF Laid
    <3>2. PICK f, g, c : /\ f = Image(data, buffer, file_offset)
                         /\ g = Image(data \o buffer, c, t)
                         /\ c = <<>>
      BY Zenon
    <3>3. c \in Seq(Unit)
      BY <3>2
    <3>4. \A p \in 1..t : g[p] = f[p]
      <4>1. data \in Seq(Unit) /\ buffer \in Seq(Unit)
        BY <1>4, Zenon
      <4>2. /\ \A p \in 1..(Len(data) + Len(buffer)) :
                 Image(data \o buffer, c, Len(data) + Len(buffer))[p]
                   = Image(data, buffer, Len(data))[p]
            /\ \A n \in 1..Len(c) :
                 Image(data \o buffer, c, Len(data) + Len(buffer))
                      [Len(data) + Len(buffer) + n] = c[n]
        BY ONLY <4>1, <3>3, ImageFlushed, Zenon
      <4>3. Len(data) = file_offset
        BY <1>4, Zenon
      <4>. QED
        BY ONLY <3>2, <4>2, <4>3, Zenon
    <3>. HIDE DEF t
    <3>5. Placed(added, st, f) /\ \A p \in 1..st[Len(added) + 1] : g[p] = f[p]
      BY <3>1, <3>2, <3>4, Zenon
    <3>6. Placed(added, st, g)
      BY ONLY <1>4, <3>5, PlacedImage, Zenon
    <3>. QED
      BY <1>2, <2>1, <3>2, <3>6, Zenon
  <2>11. st[N] = file_offset' + Len(buffer')
    BY <1>2, <2>1, <2>2, <2>4
  <2>12. Laid(st, h)'
    <3>1. st[h[Len(index') + 1]] = file_offset'
      BY <2>1, <2>2, <2>5, <2>9, Zenon
    <3>. QED
      BY <1>2, <2>8, <2>10, <2>11, <3>1, Zenon DEF Laid
  <2>13. file_offset' \in Nat /\ file_offset' <= Len(data')
    BY ONLY <2>1, <2>4
  <2>. QED
    BY <1>8, <2>4, <2>5, <2>12, <2>13, Zenon
<1>. QED
  BY <1>9, <1>10

-----------------------------------------------------------------------------
(***************************************************************************)
(* The iterator.                                                           *)
(***************************************************************************)

(***************************************************************************)
(* A loaded block, or the error of a failed read.                          *)
(***************************************************************************)
LEMMA Loaded ==
    ASSUME FileInv, NEW st, NEW fb, Laid(st, fb), NEW i \in Iterator,
           i.block_idx \in 1..Len(index), NEW fails \in BOOLEAN
    PROVE  LET l == LoadBlock(i, fails)
           IN  /\ l \in Iterator /\ l.block_idx = i.block_idx
               /\ fails => l.error /\ ~l.valid
               /\ ~fails => /\ l.error = i.error /\ l.offset = 0
                            /\ l.buffer = Block(index[i.block_idx])
<1>1. PICK b \in 1..Len(index) : b = i.block_idx
  BY Zenon
<1>2. PICK k \in Seq(Unit) : k = Block(index[b])
  <2>1. TypeOK /\ file_offset <= Len(data)
    BY Zenon DEF FileInv, Phases
  <2>2. Holds(Block(index[b]), added, st, fb[b], fb[b + 1])
    BY <2>1, BlockHolds, Zenon
  <2>. QED
    BY <2>2, Zenon DEF Holds
<1>3. PICK m \in Iterator : m = [i EXCEPT !.buffer = k, !.offset = 0]
  <2>1. [i EXCEPT !.buffer = k, !.offset = 0] \in Iterator
    BY ONLY i \in Iterator, k \in Seq(Unit), Zenon DEF Iterator
  <2>. QED
    BY <2>1, Zenon
<1>4. m.block_idx = b /\ m.error = i.error /\ m.offset = 0 /\ m.buffer = k
  BY ONLY <1>1, <1>3, i \in Iterator DEF Iterator
<1>5. LoadBlock(i, fails) = IF fails THEN SetError(m) ELSE m
  BY <1>1, <1>2, <1>3, Zenon DEF LoadBlock
<1>6. SetError(m) \in Iterator /\ SetError(m).block_idx = m.block_idx
      /\ SetError(m).error /\ ~SetError(m).valid
  BY ONLY m \in Iterator, Zenon DEF Iterator, SetError
<1>7. CASE fails
  BY <1>1, <1>4, <1>5, <1>6, <1>7, Zenon
<1>8. CASE ~fails
  BY <1>1, <1>2, <1>4, <1>5, <1>8, Zenon
<1>. QED
  BY <1>7, <1>8, Zenon

\* The iterator has just given entry k of block b.
Behind(i, st, fb, b, k) ==
    /\ i \in Iterator /\ i.valid /\ ~i.error /\ i.block_idx = b
    /\ i.buffer = Block(index[b]) /\ i.entry = added[k]
    /\ i.offset = st[k + 1] - st[fb[b]]
    /\ k \in 1..Len(added)

(***************************************************************************)
(* next() at the place of entry k gives entry k.                           *)
(***************************************************************************)
LEMMA ReadsEntry ==
    ASSUME FileInv, NEW st, NEW fb, Laid(st, fb), NEW b \in 1..Len(index),
           NEW k \in fb[b]..(fb[b + 1] - 1), NEW i \in Iterator,
           i.block_idx = b, ~i.error, i.buffer = Block(index[b]),
           i.offset = st[k] - st[fb[b]]
    PROVE  Behind(ReadEntry(i), st, fb, b, k)
<1>1. TypeOK /\ file_offset <= Len(data) /\ added \in Seq(Entry)
  BY Zenon DEF FileInv, Phases, TypeOK
<1>2. PICK f : f = Image(data, buffer, file_offset)
  BY Zenon
<1>3. Placed(added, st, f)
  BY <1>2, Zenon DEF Laid
<1>4. PICK lo, hi : lo = fb[b] /\ hi = fb[b + 1]
  BY Zenon
<1>5. lo \in 1..(Len(added) + 1) /\ hi \in 1..(Len(added) + 1)
  BY <1>1, <1>4, BlockBounds, Zenon
<1>6. PICK block : block = Block(index[b])
  BY Zenon
<1>7. Holds(block, added, st, lo, hi)
  BY <1>1, <1>4, <1>6, BlockHolds, Zenon
<1>8. k \in lo..(hi - 1)
  BY <1>4, Zenon
<1>9. PICK o, q : o = st[k] - st[lo] /\ q = st[k + 1] - st[lo]
  BY Zenon
<1>10. /\ o \in 0..Len(block) /\ o < Len(block)
       /\ CanDecode(block, o)
       /\ block[o + 1][1] = added[k]
       /\ o + added[k].size = q /\ q \in 0..Len(block)
  <2>1. /\ st[k] - st[lo] \in 0..Len(block) /\ st[k] - st[lo] < Len(block)
        /\ CanDecode(block, st[k] - st[lo])
        /\ block[(st[k] - st[lo]) + 1][1] = added[k]
        /\ (st[k] - st[lo]) + added[k].size = st[k + 1] - st[lo]
        /\ st[k + 1] - st[lo] \in 0..Len(block)
    BY ZenonT(30), <1>1, <1>3, <1>5, <1>7, <1>8, Decodes
  <2>. QED
    BY ONLY <1>9, <2>1, Zenon
<1>11. k \in 1..Len(added) /\ added[k] \in Entry
  <2>1. Len(added) \in Nat
    BY <1>1
  <2>2. k \in 1..Len(added)
    BY ONLY <1>5, <1>8, <2>1
  <2>. QED
    BY <1>1, <2>2
<1>12. q \in Nat /\ block # <<>>
  <2>1. block \in Seq(Unit)
    BY <1>7, Zenon DEF Holds
  <2>. QED
    BY ONLY <1>10, <2>1
<1>13. PICK e \in Entry : e = added[k]
  BY <1>11, Zenon
<1>14. ReadEntry(i) = [i EXCEPT !.entry = e, !.offset = @ + e.size, !.valid = TRUE]
  <2>1. i.buffer = block /\ i.offset = o
    BY <1>4, <1>6, <1>9, Zenon
  <2>. QED
    BY <1>10, <1>12, <1>13, <2>1, Zenon DEF ReadEntry
<1>15. i.offset + e.size = q
  BY <1>4, <1>9, <1>10, <1>13, Zenon
<1>16. ReadEntry(i) = [i EXCEPT !.entry = e, !.offset = q, !.valid = TRUE]
  <2>1. [i EXCEPT !.entry = e, !.offset = @ + e.size, !.valid = TRUE]
          = [i EXCEPT !.entry = e, !.offset = q, !.valid = TRUE]
    BY ONLY <1>15, i \in Iterator, Zenon DEF Iterator
  <2>. QED
    BY <1>14, <2>1, Zenon
<1>17. PICK r : r = [i EXCEPT !.entry = e, !.offset = q, !.valid = TRUE]
  BY Zenon
<1>18. r \in Iterator /\ r.valid /\ r.error = i.error /\ r.block_idx = i.block_idx
       /\ r.buffer = i.buffer /\ r.entry = e /\ r.offset = q
  BY ONLY <1>12, <1>17, i \in Iterator, e \in Entry, Zenon DEF Iterator
<1>19. ReadEntry(i) = r
  BY <1>16, <1>17, Zenon
<1>. QED
  BY <1>4, <1>9, <1>11, <1>13, <1>18, <1>19, Zenon DEF Behind

(***************************************************************************)
(* An iterator step leaves the file alone.                                 *)
(***************************************************************************)
LEMMA IteratorStep ==
    ASSUME FileInv, NEW st, NEW fb, Laid(st, fb), UNCHANGED writer_vars,
           footer # nullopt, it' \in Iterator, yielded' \in Nat, Cursor(st, fb)'
    PROVE  FileInv'
<1>1. UNCHANGED <<buffer, first_key, start_offset, file_offset, index, filter,
                  highest, entry_count, data, footer, writer, added>>
  BY Zenon DEF writer_vars
<1>2. TypeOK'
  BY <1>1, Zenon DEF FileInv, TypeOK
<1>3. Ascending(added') /\ Summed'
  BY <1>1, Zenon DEF FileInv, Summed
<1>4. Footer' = Footer
  BY <1>1, Zenon DEF Footer
<1>5. Phases'
  BY <1>1, <1>4, Zenon DEF FileInv, Phases
<1>6. Laid(st, fb)'
  BY <1>1, Zenon DEF Laid
<1>. QED
  BY <1>2, <1>3, <1>5, <1>6, Zenon DEF FileInv

(***************************************************************************)
(* Where such a step may end: behind an entry, at an error, at the end.    *)
(***************************************************************************)
LEMMA CursorSet ==
    ASSUME NEW st, NEW fb, UNCHANGED writer_vars,
           \/ \E b \in 1..Len(index) : \E k \in fb[b]..(fb[b + 1] - 1) :
                /\ it'.valid /\ ~it'.error /\ it'.block_idx = b
                /\ it'.buffer = Block(index[b]) /\ it'.entry = added[k]
                /\ it'.offset = st[k + 1] - st[fb[b]]
                /\ k \in 1..Len(added) /\ yielded' = k
                /\ fb[b] \in Nat /\ fb[b + 1] \in Nat
           \/ it'.error /\ ~it'.valid
           \/ ~it'.valid /\ (yielded' = Len(added) \/ ~FirstFits)
    PROVE  Cursor(st, fb)'
<1>1. index' = index /\ added' = added /\ data' = data
  BY Zenon DEF writer_vars
<1>2. FirstFits' = FirstFits
  BY <1>1, Zenon DEF FirstFits
<1>3. CASE \E b \in 1..Len(index) : \E k \in fb[b]..(fb[b + 1] - 1) :
                /\ it'.valid /\ ~it'.error /\ it'.block_idx = b
                /\ it'.buffer = Block(index[b]) /\ it'.entry = added[k]
                /\ it'.offset = st[k + 1] - st[fb[b]]
                /\ k \in 1..Len(added) /\ yielded' = k
                /\ fb[b] \in Nat /\ fb[b + 1] \in Nat
  <2>0. PICK b \in 1..Len(index) : \E k \in fb[b]..(fb[b + 1] - 1) :
                /\ it'.valid /\ ~it'.error /\ it'.block_idx = b
                /\ it'.buffer = Block(index[b]) /\ it'.entry = added[k]
                /\ it'.offset = st[k + 1] - st[fb[b]]
                /\ k \in 1..Len(added) /\ yielded' = k
                /\ fb[b] \in Nat /\ fb[b + 1] \in Nat
    BY <1>3, Zenon
  <2>1. PICK k \in fb[b]..(fb[b + 1] - 1) :
                /\ it'.valid /\ ~it'.error /\ it'.block_idx = b
                /\ it'.buffer = Block(index[b]) /\ it'.entry = added[k]
                /\ it'.offset = st[k + 1] - st[fb[b]]
                /\ k \in 1..Len(added) /\ yielded' = k
                /\ fb[b] \in Nat /\ fb[b + 1] \in Nat
    BY <2>0, Zenon
  <2>2. fb[b] <= k /\ k < fb[b + 1]
    BY <2>1
  <2>3. it'.buffer = Block(index[it.block_idx])'
    BY <1>1, <2>1, Zenon DEF Block
  <2>. QED
    BY <1>1, <2>1, <2>2, <2>3, Zenon DEF Cursor
<1>4. CASE it'.error /\ ~it'.valid
  BY <1>4, Zenon DEF Cursor
<1>5. CASE ~it'.valid /\ (yielded' = Len(added) \/ ~FirstFits)
  BY <1>1, <1>2, <1>5, Zenon DEF Cursor
<1>. QED
  BY <1>3, <1>4, <1>5, Zenon

\* What next() makes of block b just loaded.
FirstRead(r, st, fb, b, fails) ==
    /\ r \in Iterator
    /\ fails => r.error /\ ~r.valid
    /\ ~fails /\ fb[b] < fb[b + 1] =>
         /\ r.valid /\ ~r.error /\ r.block_idx = b
         /\ r.buffer = Block(index[b]) /\ r.entry = added[fb[b]]
         /\ r.offset = st[fb[b] + 1] - st[fb[b]]
         /\ fb[b] \in 1..Len(added)
    /\ ~fails /\ fb[b] = fb[b + 1] => ~r.valid

(***************************************************************************)
(* A freshly loaded block gives its first entry, or the read's error, or,  *)
(* when it is empty, nothing.                                              *)
(***************************************************************************)
LEMMA ReadsFirst ==
    ASSUME FileInv, NEW st, NEW fb, Laid(st, fb), NEW b \in 1..Len(index),
           NEW i \in Iterator, i.block_idx = b, ~i.error, NEW fails \in BOOLEAN
    PROVE  FirstRead(ReadEntry(LoadBlock(i, fails)), st, fb, b, fails)
<1>1. PICK l : l = LoadBlock(i, fails)
  BY Zenon
<1>2. /\ l \in Iterator /\ l.block_idx = b
      /\ fails => l.error /\ ~l.valid
      /\ ~fails => l.error = i.error /\ l.offset = 0 /\ l.buffer = Block(index[b])
  BY <1>1, Loaded, Zenon
<1>3. TypeOK /\ file_offset <= Len(data)
  BY Zenon DEF FileInv, Phases
<1>4. /\ fb[b] \in 1..(Len(added) + 1) /\ fb[b + 1] \in 1..(Len(added) + 1)
      /\ st[fb[b]] \in Nat
  BY <1>3, BlockBounds, Zenon
<1>5. CASE fails
  <2>1. ReadEntry(l) = l
    BY <1>2, <1>5, Zenon DEF ReadEntry
  <2>. QED
    BY <1>1, <1>2, <1>5, <2>1, Zenon DEF FirstRead
<1>6. CASE ~fails /\ fb[b] < fb[b + 1]
  <2>1. PICK k : k = fb[b]
    BY Zenon
  <2>2. k \in fb[b]..(fb[b + 1] - 1) /\ fb[b] # fb[b + 1]
    BY ONLY <1>4, <1>6, <2>1
  <2>3. l.offset = st[k] - st[fb[b]]
    <3>1. PICK x \in Nat : x = st[fb[b]]
      BY <1>4, Zenon
    <3>2. x - x = 0
      OBVIOUS
    <3>. QED
      BY <1>2, <1>6, <2>1, <3>1, <3>2, Zenon
  <2>4. l \in Iterator /\ l.block_idx = b /\ ~l.error /\ l.buffer = Block(index[b])
    BY <1>2, <1>6, Zenon
  <2>5. Behind(ReadEntry(l), st, fb, b, k)
    BY ONLY FileInv, Laid(st, fb), b \in 1..Len(index), <2>2, <2>3, <2>4, ReadsEntry
  <2>. QED
    BY <1>1, <1>6, <2>1, <2>2, <2>5, Zenon DEF FirstRead, Behind
<1>7. CASE ~fails /\ ~(fb[b] < fb[b + 1])
  <2>1. ASSUME fb[b] = fb[b + 1]
        PROVE  ReadEntry(l) \in Iterator /\ ~ReadEntry(l).valid
    <3>1. Holds(Block(index[b]), added, st, fb[b], fb[b + 1])
      BY <1>3, BlockHolds, Zenon
    <3>2. PICK block, x : block = Block(index[b]) /\ x = st[fb[b]]
      BY Zenon
    <3>3. block \in Seq(Unit) /\ Len(block) = x - x /\ x \in Nat
      BY <1>4, <2>1, <3>1, <3>2, Zenon DEF Holds
    <3>4. block = <<>>
      BY ONLY <3>3
    <3>5. ReadEntry(l) = [l EXCEPT !.valid = FALSE]
      BY <1>2, <1>7, <3>2, <3>4, Zenon DEF ReadEntry
    <3>6. [l EXCEPT !.valid = FALSE] \in Iterator /\ ~[l EXCEPT !.valid = FALSE].valid
      BY ONLY <1>2, Zenon DEF Iterator
    <3>. QED
      BY <3>5, <3>6, Zenon
  <2>2. fb[b] = fb[b + 1]
    <3>1. fb[b] <= fb[b + 1]
      BY <1>3, BlockBounds, Zenon
    <3>. QED
      BY ONLY <1>4, <1>7, <3>1
  <2>. QED
    BY <1>1, <1>7, <2>1, <2>2, Zenon DEF FirstRead
<1>. QED
  BY <1>5, <1>6, <1>7, Zenon

(***************************************************************************)
(* seek_to_first().                                                        *)
(***************************************************************************)
LEMMA SeekStep ==
    ASSUME FileInv, SeekToFirst
    PROVE  FileInv'
<1>1. PICK st, fb : Laid(st, fb)
  BY Zenon DEF FileInv
<1>2. PICK fails \in BOOLEAN : it' = FirstEntry(it, fails)
  BY Zenon DEF SeekToFirst
<1>3. /\ footer # nullopt /\ UNCHANGED writer_vars
      /\ yielded' = IF it'.valid THEN 1 ELSE 0
  BY Zenon DEF SeekToFirst, Readable
<1>4. it \in Iterator /\ added \in Seq(Entry) /\ index \in Seq(IndexEntry)
  BY Zenon DEF FileInv, TypeOK
<1>5. PICK r : r = [it EXCEPT !.block_idx = 1, !.buffer = <<>>, !.offset = 0,
                              !.error = FALSE, !.valid = FALSE]
  BY Zenon
<1>6. r \in Iterator /\ r.block_idx = 1 /\ ~r.error /\ ~r.valid
  <2>1. <<>> \in Seq(Unit) /\ 1 \in Nat /\ 0 \in Nat
    OBVIOUS
  <2>. QED
    BY ONLY <1>4, <1>5, <2>1, Zenon DEF Iterator
<1>7. yielded' \in Nat
  BY <1>3
<1>8. it' \in Iterator /\ Cursor(st, fb)'
  <2>1. CASE index = <<>>
    <3>1. it' = r
      BY <1>2, <1>5, <2>1, Zenon DEF FirstEntry
    <3>2. fb[Len(index) + 1] = Len(added) + 1
      BY <1>1, <1>3, AllFlushed, Zenon
    <3>3. fb[1] = 1 /\ Len(index) + 1 = 1 /\ Len(added) \in Nat
      <4>1. fb[1] = 1
        BY <1>1, Zenon DEF Laid, Indexed
      <4>. QED
        BY <1>4, <2>1, <4>1
    <3>4. PICK n \in Nat : n = Len(added)
      BY <3>3, Zenon
    <3>5. 1 = n + 1
      BY <3>2, <3>3, <3>4, Zenon
    <3>6. n = 0
      BY ONLY <3>5, n \in Nat
    <3>7. ~it'.valid /\ yielded' = Len(added)
      BY <1>3, <1>6, <3>1, <3>4, <3>6, Zenon
    <3>. QED
      BY <1>3, <1>6, <3>1, <3>7, CursorSet, Zenon
  <2>2. CASE index # <<>>
    <3>1. 1 \in 1..Len(index) /\ 1 + 1 = 2
      BY <1>4, <2>2
    <3>2. it' = ReadEntry(LoadBlock(r, fails))
      BY <1>2, <1>5, <2>2, Zenon DEF FirstEntry
    <3>3. /\ it' \in Iterator
          /\ fails => it'.error /\ ~it'.valid
          /\ ~fails /\ fb[1] < fb[1 + 1] =>
               /\ it'.valid /\ ~it'.error /\ it'.block_idx = 1
               /\ it'.buffer = Block(index[1]) /\ it'.entry = added[fb[1]]
               /\ it'.offset = st[fb[1] + 1] - st[fb[1]]
               /\ fb[1] \in 1..Len(added)
          /\ ~fails /\ fb[1] = fb[1 + 1] => ~it'.valid
      <4>1. FirstRead(ReadEntry(LoadBlock(r, fails)), st, fb, 1, fails)
        BY <1>1, <1>6, <3>1, ReadsFirst, Zenon
      <4>. QED
        BY <3>2, <4>1, Zenon DEF FirstRead
    <3>4. /\ fb[1] \in 1..(Len(added) + 1) /\ fb[1 + 1] \in 1..(Len(added) + 1)
          /\ fb[1] <= fb[1 + 1]
      <4>1. TypeOK
        BY Zenon DEF FileInv
      <4>. QED
        BY <1>1, <3>1, <4>1, BlockBounds, Zenon
    <3>5. fb[1] = 1
      BY <1>1, Zenon DEF Laid, Indexed
    <3>6. CASE fails
      BY <1>3, <3>3, <3>6, CursorSet, Zenon
    <3>7. CASE ~fails /\ fb[1] < fb[1 + 1]
      <4>1. /\ it'.valid /\ ~it'.error /\ it'.block_idx = 1
            /\ it'.buffer = Block(index[1]) /\ it'.entry = added[fb[1]]
            /\ it'.offset = st[fb[1] + 1] - st[fb[1]]
            /\ fb[1] \in 1..Len(added) /\ yielded' = fb[1]
        BY <1>3, <3>3, <3>5, <3>7, Zenon
      <4>2. fb[1] \in Nat /\ fb[1 + 1] \in Nat /\ fb[1] \in fb[1]..(fb[1 + 1] - 1)
        BY ONLY <3>4, <3>7
      <4>3. Cursor(st, fb)'
        BY <1>3, <3>1, <4>1, <4>2, CursorSet, Zenon
      <4>. QED
        BY <3>3, <4>3, Zenon
    <3>8. CASE ~fails /\ ~(fb[1] < fb[1 + 1])
      <4>1. fb[1] = fb[1 + 1]
        BY ONLY <3>4, <3>8
      <4>2. ~FirstFits
        BY <1>1, <3>1, <3>8, NoEmptyBlock, Zenon
      <4>. QED
        BY <1>3, <3>3, <3>8, <4>1, <4>2, CursorSet, Zenon
    <3>. QED
      BY <3>6, <3>7, <3>8, Zenon
  <2>. QED
    BY <2>1, <2>2, Zenon
<1>. QED
  BY <1>1, <1>3, <1>7, <1>8, IteratorStep, Zenon

(***************************************************************************)
(* next(): within the block, or over to the next one.                      *)
(***************************************************************************)
LEMMA NextStep ==
    ASSUME FileInv, IteratorNext
    PROVE  FileInv'
<1>1. PICK st, fb : Laid(st, fb) /\ Cursor(st, fb)
  BY Zenon DEF FileInv
<1>2. PICK fails \in BOOLEAN : it' = NextEntry(it, fails)
  BY Zenon DEF IteratorNext
<1>3. /\ it.valid /\ UNCHANGED writer_vars
      /\ yielded' = IF it'.valid THEN yielded + 1 ELSE yielded
  BY Zenon DEF IteratorNext
<1>4. /\ it \in Iterator /\ added \in Seq(Entry) /\ index \in Seq(IndexEntry)
      /\ yielded \in Nat /\ TypeOK /\ file_offset <= Len(data)
  BY Zenon DEF FileInv, TypeOK, Phases
<1>5. footer # nullopt
  BY <1>3, Zenon DEF FileInv, Phases
<1>6. PICK b, k, lo, hi : /\ b = it.block_idx /\ k = yielded
                          /\ lo = fb[b] /\ hi = fb[b + 1]
  BY Zenon
<1>7. /\ ~it.error /\ b \in 1..Len(index)
      /\ it.buffer = Block(index[b]) /\ k \in 1..Len(added)
      /\ lo <= k /\ k < hi
      /\ it.offset = st[k + 1] - st[lo]
  BY <1>1, <1>3, <1>6, Zenon DEF Cursor
<1>8. /\ lo \in 1..(Len(added) + 1) /\ hi \in 1..(Len(added) + 1)
      /\ BlockOf(added, st, index[b], b, lo, hi)
      /\ st[lo] \in Nat /\ st[hi] \in Nat
  BY <1>1, <1>4, <1>6, <1>7, BlockBounds, Zenon
<1>9. Len(added) \in Nat /\ k \in Nat /\ k + 1 \in Nat /\ lo \in Nat /\ hi \in Nat
      /\ k + 1 \in 1..(Len(added) + 1) /\ Len(index) \in Nat /\ b \in Nat
  <2>1. Len(added) \in Nat /\ Len(index) \in Nat
    BY <1>4
  <2>. QED
    BY ONLY <1>7, <1>8, <2>1
<1>10. /\ st \in [1..(Len(added) + 1) -> Nat]
       /\ \A i, j \in 1..(Len(added) + 1) : i < j => st[i] < st[j]
  BY <1>1, Zenon DEF Laid, Placed
<1>11. st[k + 1] \in Nat /\ (k + 1 < hi => st[k + 1] < st[hi])
  BY <1>8, <1>9, <1>10, Zenon
<1>12. index[b].block_size = st[hi] - st[lo]
  <2>1. index[b] \in IndexEntry
    BY <1>4, <1>7
  <2>2. index[b].block_offset \in Nat /\ index[b].block_size \in Nat
    BY <2>1, Zenon DEF IndexEntry
  <2>3. index[b].block_offset = st[lo]
        /\ index[b].block_offset + index[b].block_size = st[hi]
    BY <1>8, Zenon DEF BlockOf
  <2>4. PICK o, z, x, y : /\ o = index[b].block_offset /\ z = index[b].block_size
                          /\ x = st[lo] /\ y = st[hi]
    BY Zenon
  <2>5. o \in Nat /\ z \in Nat /\ o = x /\ o + z = y
    BY <2>2, <2>3, <2>4, Zenon
  <2>6. z = y - x
    BY ONLY <2>5
  <2>. QED
    BY <2>4, <2>6, Zenon
<1>13. yielded' \in Nat
  BY <1>3, <1>4
<1>14. it' \in Iterator /\ Cursor(st, fb)'
  <2>1. CASE k + 1 < hi
    <3>1. ~Exhausted(it)
      <4>1. PICK x, y, z : x = st[k + 1] /\ y = st[hi] /\ z = st[lo]
        BY Zenon
      <4>2. x \in Nat /\ y \in Nat /\ z \in Nat /\ x < y
        BY <1>8, <1>11, <2>1, <4>1, Zenon
      <4>3. ~(x - z >= y - z)
        BY ONLY <4>2
      <4>. QED
        BY <1>6, <1>7, <1>12, <4>1, <4>3, Zenon DEF Exhausted
    <3>2. it' = ReadEntry(it)
      BY <1>2, <1>7, <3>1, Zenon DEF NextEntry
    <3>3. PICK m : m = k + 1
      BY Zenon
    <3>4. m \in fb[b]..(fb[b + 1] - 1)
      <4>1. m \in lo..(hi - 1)
        BY ONLY <1>7, <1>9, <2>1, <3>3
      <4>. QED
        BY <1>6, <4>1, Zenon
    <3>5. it.block_idx = b /\ ~it.error /\ it.buffer = Block(index[b])
          /\ it.offset = st[m] - st[fb[b]]
      BY <1>6, <1>7, <3>3, Zenon
    <3>6. Behind(ReadEntry(it), st, fb, b, m)
      BY ONLY SMTT(30), FileInv, <1>1, <1>4, <1>7, <3>4, <3>5, ReadsEntry
    <3>7. yielded' = m /\ fb[b] \in Nat /\ fb[b + 1] \in Nat
      BY <1>3, <1>6, <1>9, <3>2, <3>3, <3>6, Zenon DEF Behind
    <3>8. Cursor(st, fb)'
      BY <1>3, <1>7, <3>2, <3>4, <3>6, <3>7, CursorSet, Zenon DEF Behind
    <3>. QED
      BY <3>2, <3>6, <3>8, Zenon DEF Behind
  <2>2. CASE k + 1 = hi
    <3>1. Exhausted(it)
      <4>1. Holds(Block(index[b]), added, st, lo, hi)
        BY <1>1, <1>4, <1>6, <1>7, BlockHolds, Zenon
      <4>2. PICK block, x, z : block = Block(index[b]) /\ x = st[hi] /\ z = st[lo]
        BY Zenon
      <4>3. block \in Seq(Unit) /\ Len(block) = x - z /\ x \in Nat /\ z \in Nat
        BY <1>8, <4>1, <4>2, Zenon DEF Holds
      <4>4. z < x
        <5>1. lo < hi
          BY ONLY <1>7, <1>9
        <5>. QED
          BY <1>8, <1>10, <4>2, <5>1, Zenon
      <4>5. block # <<>> /\ x - z >= x - z
        BY ONLY <4>3, <4>4
      <4>6. it.buffer = block /\ it.offset = x - z /\ index[it.block_idx].block_size = x - z
        BY <1>6, <1>7, <1>12, <2>2, <4>2, Zenon
      <4>. QED
        BY <4>5, <4>6, Zenon DEF Exhausted
    <3>2. PICK v : v = [it EXCEPT !.block_idx = @ + 1]
      BY Zenon
    <3>3. PICK c \in Nat : c = b + 1
      BY <1>9
    <3>4. v = [it EXCEPT !.block_idx = c]
      BY ONLY <1>4, <1>6, <3>2, <3>3, Zenon DEF Iterator
    <3>5. v \in Iterator /\ v.block_idx = c /\ v.error = it.error
      BY ONLY <1>4, <3>4, c \in Nat, Zenon DEF Iterator
    <3>6. it' = IF c > Len(index) THEN [v EXCEPT !.valid = FALSE]
                ELSE ReadEntry(LoadBlock(v, fails))
      BY <1>2, <1>7, <3>1, <3>2, <3>5, Zenon DEF NextEntry
    <3>7. CASE c > Len(index)
      <4>1. it' = [v EXCEPT !.valid = FALSE]
        BY <3>6, <3>7, Zenon
      <4>2. it' \in Iterator /\ ~it'.valid
        BY ONLY <3>5, <4>1, Zenon DEF Iterator
      <4>3. b + 1 = Len(index) + 1
        BY ONLY SMTT(30), <1>7, <1>9, <3>3, <3>7
      <4>4. hi = Len(added) + 1
        BY <1>1, <1>5, <1>6, <4>3, AllFlushed, Zenon
      <4>5. k = Len(added)
        BY ONLY <1>9, <2>2, <4>4
      <4>6. yielded' = Len(added)
        BY <1>3, <1>6, <4>2, <4>5, Zenon
      <4>. QED
        BY <1>3, <4>2, <4>6, CursorSet, Zenon
    <3>8. CASE ~(c > Len(index))
      <4>1. c \in 1..Len(index) /\ c # 1
        BY ONLY <1>7, <1>9, <3>3, <3>8
      <4>2. it' = ReadEntry(LoadBlock(v, fails))
        BY <3>6, <3>8, Zenon
      <4>3. FirstRead(it', st, fb, c, fails)
        <5>1. FirstRead(ReadEntry(LoadBlock(v, fails)), st, fb, c, fails)
          BY <1>1, <1>7, <3>5, <4>1, ReadsFirst, Zenon
        <5>. QED
          BY <4>2, <5>1, Zenon
      <4>4. fb[c] < fb[c + 1] /\ fb[c] = k + 1
        BY <1>1, <1>6, <2>2, <3>3, <4>1, NoEmptyBlock, Zenon
      <4>5. /\ it' \in Iterator
            /\ fails => it'.error /\ ~it'.valid
            /\ ~fails =>
                 /\ it'.valid /\ ~it'.error /\ it'.block_idx = c
                 /\ it'.buffer = Block(index[c]) /\ it'.entry = added[fb[c]]
                 /\ it'.offset = st[fb[c] + 1] - st[fb[c]]
                 /\ fb[c] \in 1..Len(added)
        BY <4>3, <4>4, Zenon DEF FirstRead
      <4>6. CASE fails
        BY <1>3, <4>5, <4>6, CursorSet, Zenon
      <4>7. CASE ~fails
        <5>1. yielded' = fb[c]
          BY <1>3, <1>6, <4>4, <4>5, <4>7, Zenon
        <5>2. fb[c] \in 1..(Len(added) + 1) /\ fb[c + 1] \in 1..(Len(added) + 1)
          BY <1>1, <1>4, <4>1, BlockBounds, Zenon
        <5>3. fb[c] \in fb[c]..(fb[c + 1] - 1) /\ fb[c] \in Nat /\ fb[c + 1] \in Nat
          BY ONLY <4>4, <5>2
        <5>4. Cursor(st, fb)'
          BY <1>3, <4>1, <4>5, <4>7, <5>1, <5>3, CursorSet, Zenon
        <5>. QED
          BY <4>5, <5>4, Zenon
      <4>. QED
        BY <4>6, <4>7, Zenon
    <3>. QED
      BY <3>7, <3>8, Zenon
  <2>3. k + 1 < hi \/ k + 1 = hi
    BY ONLY <1>7, <1>9
  <2>. QED
    BY <2>1, <2>2, <2>3, Zenon
<1>. QED
  BY <1>1, <1>3, <1>5, <1>13, <1>14, IteratorStep, Zenon

-----------------------------------------------------------------------------
(***************************************************************************)
(* A new file.                                                             *)
(***************************************************************************)
LEMMA InitFile ==
    ASSUME Init
    PROVE  FileInv
<1>1. /\ buffer = <<>> /\ first_key = 0 /\ start_offset = 0 /\ file_offset = 0
      /\ index = <<>> /\ filter = {} /\ highest = 0 /\ entry_count = 0
      /\ data = <<>> /\ footer = nullopt /\ writer = "open" /\ added = <<>>
      /\ yielded = 0
  BY Zenon DEF Init
<1>2. /\ it \in Iterator /\ it.block_idx = 0 /\ ~it.valid
  BY DEF Init, Iterator
<1>3. TypeOK
  <2>1. highest \in 0..MaxSequence /\ entry_count \in Nat
    BY <1>1, SizeAssumption
  <2>2. buffer \in Seq(Unit) /\ data \in Seq(Unit) /\ index \in Seq(IndexEntry)
        /\ added \in Seq(Entry) /\ start_offset \in Nat /\ file_offset \in Nat
        /\ yielded \in Nat
    BY <1>1
  <2>3. first_key \in Key \cup {0} /\ filter \subseteq 0..(bit_count - 1)
        /\ writer \in {"open", "finished", "failed"}
    BY <1>1, Zenon
  <2>. QED
    BY <1>1, <1>2, <2>1, <2>2, <2>3, Zenon DEF TypeOK
<1>4. Len(added) = 0 /\ Len(index) = 0 /\ Len(data) = 0 /\ Len(buffer) = 0
  BY <1>1
<1>5. Ascending(added)
  BY <1>4 DEF Ascending
<1>6. Summed
  BY <1>1, <1>4 DEF Summed
<1>7. Phases
  BY <1>1, <1>2, <1>4 DEF Phases
<1>8. PICK st, fb : st = [x \in 1..1 |-> 0] /\ fb = [x \in 1..1 |-> 1]
  BY Zenon
<1>9. st \in [1..(0 + 1) -> Nat] /\ fb \in [1..(0 + 1) -> 1..(0 + 1)]
      /\ st[1] = 0 /\ fb[1] = 1 /\ fb[0 + 1] = 1
  BY ONLY <1>8
<1>10. Placed(added, st, Image(data, buffer, file_offset))
  BY ONLY <1>4, <1>9 DEF Placed
<1>11. Indexed(added, st, index, fb)
  BY ONLY <1>4, <1>9 DEF Indexed
<1>12. st[Len(added) + 1] = file_offset + Len(buffer) /\ st[fb[Len(index) + 1]] = file_offset
  BY ONLY <1>1, <1>4, <1>9
<1>13. Laid(st, fb)
  BY <1>1, <1>10, <1>11, <1>12, Zenon DEF Laid
<1>14. Cursor(st, fb)
  BY ONLY <1>2 DEF Cursor
<1>. QED
  BY <1>3, <1>5, <1>6, <1>7, <1>13, <1>14, Zenon DEF FileInv

(***************************************************************************)
(* A step that changes nothing.                                            *)
(***************************************************************************)
LEMMA StutterStep ==
    ASSUME FileInv, UNCHANGED vars
    PROVE  FileInv'
<1>1. UNCHANGED <<buffer, first_key, start_offset, file_offset, index, filter,
                  highest, entry_count, data, footer, writer, added, it, yielded>>
  BY Zenon DEF vars, writer_vars
<1>2. TypeOK' /\ Ascending(added') /\ Summed'
  BY <1>1, Zenon DEF FileInv, TypeOK, Summed
<1>3. Phases'
  BY <1>1, Zenon DEF FileInv, Phases, Footer
<1>4. PICK st, fb : Laid(st, fb) /\ Cursor(st, fb)
  BY Zenon DEF FileInv
<1>5. Laid(st, fb)' /\ Cursor(st, fb)'
  BY <1>1, <1>4, Zenon DEF Laid, Cursor, FirstFits, Block
<1>. QED
  BY <1>2, <1>3, <1>5, Zenon DEF FileInv

(***************************************************************************)
(* Every step of the writer and of the iterator keeps the invariant.       *)
(***************************************************************************)
LEMMA FileStep ==
    ASSUME FileInv, [Next]_vars
    PROVE  FileInv'
<1>1. CASE \E e \in Entry : Add(e)
  BY <1>1, AddStep, Zenon
<1>2. CASE \E e \in Entry : AddFlushing(e)
  BY <1>2, AddFlushingStep, Zenon
<1>3. CASE \E e \in Entry : AddFails(e)
  BY <1>3, TornStep, Zenon DEF AddFails, CanAdd
<1>4. CASE Finish
  BY <1>4, FinishStep, Zenon
<1>5. CASE FinishFails
  BY <1>5, TornStep, Zenon DEF FinishFails
<1>6. CASE SeekToFirst
  BY <1>6, SeekStep, Zenon
<1>7. CASE IteratorNext
  BY <1>7, NextStep, Zenon
<1>8. CASE UNCHANGED vars
  BY <1>8, StutterStep, Zenon
<1>. QED
  BY <1>1, <1>2, <1>3, <1>4, <1>5, <1>6, <1>7, <1>8, Zenon DEF Next

(***************************************************************************)
(* The invariant holds of every file.                                      *)
(***************************************************************************)
LEMMA FileAlways == Spec => []FileInv
<1>1. Init => FileInv
  BY InitFile
<1>2. FileInv /\ [Next]_vars => FileInv'
  BY FileStep
<1>. QED
  BY <1>1, <1>2, PTL DEF Spec

-----------------------------------------------------------------------------
(***************************************************************************)
(* The writer's fields, the file and the iterator keep their types through *)
(* add(), finish(), failed writes and reads.                               *)
(***************************************************************************)
THEOREM TableTypeCorrect == Spec => []TypeOK
<1>1. FileInv => TypeOK
  BY Zenon DEF FileInv
<1>. QED
  BY <1>1, FileAlways, PTL

(***************************************************************************)
(* SSTableReader::get answers every key of every complete file as the      *)
(* entries given to SSTableWriter::add say, an entry larger than a block   *)
(* among them or not: the reloaded filter has no false negative, the index *)
(* search ends at the block with the key, and the scan of it decodes every *)
(* entry up to the key.                                                    *)
(***************************************************************************)
THEOREM GetIsRight == Spec => []GetFindsWhatWasAdded
<1>1. FileInv => GetFindsWhatWasAdded
  BY GetAnswers
<1>. QED
  BY <1>1, FileAlways, PTL

(***************************************************************************)
(* The index and the footer that flush_block and finish() write describe   *)
(* the data, whatever the sizes of entries and blocks.  Of the blocks only *)
(* the first can be empty, when add() flushes before a first entry larger  *)
(* than a block.                                                           *)
(***************************************************************************)
THEOREM FileSelfDescribing == Spec => []FileDescribesItself
<1>1. FileInv => FileDescribesItself
  BY FileDescribed
<1>. QED
  BY <1>1, FileAlways, PTL

(***************************************************************************)
(* SSTableIterator gives the entries in the order they were added, and it  *)
(* ends without an error only after the last one, in every file whose      *)
(* first entry fits in a block.  Otherwise seek_to_first() stops at the    *)
(* empty first block.                                                      *)
(***************************************************************************)
THEOREM IteratorInOrder == Spec => []IteratorYieldsInOrder
<1>1. FileInv => IteratorYieldsInOrder
  BY IteratorShows
<1>. QED
  BY <1>1, FileAlways, PTL
=============================================================================
