-------------------------- MODULE CompactionPolicy --------------------------
(***************************************************************************)
(* The two compaction policies as pure operators on the metas of the live  *)
(* SSTables.  A meta is [id, size_bytes]; a candidate is                   *)
(* [inputs, can_drop_tombstone]; no inputs is std::nullopt, nothing to do. *)
(***************************************************************************)
EXTENDS Integers, Sequences, SequencesExt

NoCandidate == [inputs |-> {}, can_drop_tombstone |-> FALSE]

Ids(metas) == {m.id : m \in metas}

SumBytes(metas) == MapThenSumSet(LAMBDA m : m.size_bytes, metas)

(***************************************************************************)
(* FullCompactionPolicy::pick: everything, and every tombstone goes.       *)
(***************************************************************************)
FullPick(live) ==
    IF live = {} THEN NoCandidate
    ELSE [inputs |-> Ids(live), can_drop_tombstone |-> TRUE]

(***************************************************************************)
(* can_drop_tombstones: the inputs are the oldest run of the live files.   *)
(***************************************************************************)
Sorted(ids) ==
    [i \in 1..Cardinality(ids) |->
        CHOOSE x \in ids : Cardinality({y \in ids : y < x}) = i - 1]

CanDropTombstones(live, inputs) ==
    /\ inputs # {}
    /\ Cardinality(inputs) <= Cardinality(live)
    /\ SubSeq(Sorted(live), 1, Cardinality(inputs)) = Sorted(inputs)

(***************************************************************************)
(* SizeTieredCompactionPolicy::pick.  The bounds bucket_low_ and           *)
(* bucket_high_ are given in halves (0.5 and 1.5 are 1 and 3), so that     *)
(* "low * average <= size <= high * average" is exact in integers.         *)
(***************************************************************************)
Fits(m, bucket, low, high) ==
    LET scaled == 2 * m.size_bytes * Cardinality(bucket)
    IN  low * SumBytes(bucket) <= scaled /\ scaled <= high * SumBytes(bucket)

\* One meta, in ascending size order, joins the current bucket or opens one.
AddToBuckets(buckets, m, low, high) ==
    IF buckets # <<>> /\ Fits(m, Last(buckets), low, high)
    THEN Append(Front(buckets), Last(buckets) \cup {m})
    ELSE Append(buckets, {m})

BySize(a, b) ==
    \/ a.size_bytes < b.size_bytes
    \/ a.size_bytes = b.size_bytes /\ a.id < b.id

SortedBySize(metas) ==
    [i \in 1..Cardinality(metas) |->
        CHOOSE m \in metas : Cardinality({n \in metas : BySize(n, m)}) = i - 1]

Buckets(live, low, high) ==
    FoldLeft(LAMBDA buckets, m : AddToBuckets(buckets, m, low, high),
             <<>>, SortedBySize(live))

SizeTieredPick(live, min_width, max_width, low, high) ==
    LET wide == {b \in Range(Buckets(live, low, high)) :
                    Cardinality(b) >= min_width}
        oldest == CHOOSE b \in wide : \A c \in wide : Min(Ids(b)) <= Min(Ids(c))
        chosen == Sorted(Ids(oldest))
        inputs == Range(SubSeq(chosen, 1, Min({Len(chosen), max_width})))
    IN  IF wide = {} THEN NoCandidate
        ELSE [inputs |-> inputs,
              can_drop_tombstone |-> CanDropTombstones(Ids(live), inputs)]
=============================================================================
