------------------------------- MODULE Merge -------------------------------
(***************************************************************************)
(* MergeIterator, and the loop of Compactor::compact that drives it: a     *)
(* k-way merge of sorted sources through a heap, any of which may fail     *)
(* while it is read.  Each call of a source is one step.                   *)
(*                                                                         *)
(* An entry is [key, sequence, is_tombstone]: the sequence tells the       *)
(* versions of a key apart.  A source is an InternalIterator: module       *)
(* SSTable shows that an SSTableIterator gives the entries of its file in  *)
(* order and tells a failed read from the end.                             *)
(***************************************************************************)
EXTENDS Integers, Sequences, FiniteSets, FiniteSetsExt, SequencesExt

CONSTANTS
    Sources,        \* the number of sources
    Key,            \* the encoded keys
    MaxSequence,    \* bound: the highest sequence
    nullopt

Source == 1..Sources

ASSUME MergeAssumption ==
    Sources \in Nat /\ Key \subseteq Nat /\ MaxSequence \in Nat

\* Even sequences are deletes, odd ones are puts.
EntryOf(key, sequence) ==
    [key |-> key, sequence |-> sequence, is_tombstone |-> sequence % 2 = 0]

Entry == {EntryOf(k, n) : k \in Key, n \in 1..MaxSequence}

SortedKeys == SetToSortSeq(Key, <)

\* What a table holds, as its iterator gives it: 0 stands for no entry.
Sorted(table) ==
    LET keys == SelectSeq(SortedKeys, LAMBDA k : table[k] > 0)
    IN  [i \in DOMAIN keys |-> EntryOf(keys[i], table[keys[i]])]

VARIABLES
    content,   \* [Source -> the entries of the source]
    pos,       \* [Source -> where the source is; 0 before it was sought]
    heap,      \* heap_: the sources in it
    current,   \* current_key_ and current_value_
    valid,     \* valid_
    error,     \* error_ has a value
    pc,        \* where seek_to_first, next or the loop is
    drop,      \* is_full_compaction: tombstones are dropped
    output     \* what compact() has added to the writer

vars == <<content, pos, heap, current, valid, error, pc, drop, output>>

TypeOK ==
    /\ content \in [Source -> Seq(Entry)]
    /\ \A s \in Source : pos[s] \in 0..(Len(content[s]) + 1)
    /\ heap \subseteq Source
    /\ current \in Entry \cup {nullopt}
    /\ valid \in BOOLEAN /\ error \in BOOLEAN /\ drop \in BOOLEAN
    /\ pc \in {"seek", "advance", "drain", "loop", "finished", "failed"}
    /\ output \in Seq(Entry)

Init ==
    /\ \E tables \in [Source -> [Key -> 0..MaxSequence]] :
          content = [s \in Source |-> Sorted(tables[s])]
    /\ pos = [s \in Source |-> 0]
    /\ heap = {} /\ current = nullopt /\ valid = FALSE /\ error = FALSE
    /\ pc = "seek" /\ drop \in BOOLEAN /\ output = <<>>

-----------------------------------------------------------------------------
(***************************************************************************)
(* A source's own next() and seek_to_first(): one place further.           *)
(***************************************************************************)
At(s) == content[s][pos[s]]

\* A source that is at its last entry does not read, and cannot fail.
HasMore(s) == pos[s] < Len(content[s])

\* The source is valid at its new place and goes (back) into the heap, or it
\* is exhausted.
Moves(s, others) ==
    /\ pos' = [pos EXCEPT ![s] = @ + 1]
    /\ heap' = IF HasMore(s) THEN others \cup {s} ELSE others
    /\ UNCHANGED error

\* set_error: invalid, and nothing is left in the heap.
SetError == error' = TRUE /\ valid' = FALSE /\ heap' = {}

\* HeapCompare: s comes out of the heap after t.
ComesAfter(s, t) ==
    \/ At(t).key < At(s).key
    \/ At(s).key = At(t).key /\ At(s).sequence < At(t).sequence

\* Mutant of Tops: the comparator without its tie-break.
TopsByKey == {t \in heap : \A s \in heap : ~(At(s).key < At(t).key)}

\* heap_.top(): any of the entries that nothing comes before.
Tops == {t \in heap : ~\E s \in heap : ComesAfter(t, s)}

-----------------------------------------------------------------------------
\* seek_to_first: one source after the other, until one fails.
Unsought == {s \in Source : pos[s] = 0}

SeekSource ==
    /\ pc = "seek" /\ Unsought # {}
    /\ Moves(Min(Unsought), heap)
    /\ UNCHANGED <<content, current, valid, pc, drop, output>>

SeekFails ==
    /\ pc = "seek" /\ Unsought # {} /\ HasMore(Min(Unsought))
    /\ SetError
    /\ pc' = "loop"
    /\ UNCHANGED <<content, pos, current, drop, output>>

SeekDone ==
    /\ pc = "seek" /\ Unsought = {}
    /\ pc' = "advance"
    /\ UNCHANGED <<content, pos, heap, current, valid, error, drop, output>>

\* advance_to_winner: nothing is left.
NoWinner ==
    /\ pc = "advance" /\ heap = {}
    /\ valid' = FALSE
    /\ pc' = "loop"
    /\ UNCHANGED <<content, pos, heap, current, error, drop, output>>

\* advance_to_winner: copy the top, pop it and advance its source.
TakeWinner ==
    /\ pc = "advance"
    /\ \E t \in Tops :
          /\ current' = At(t)
          /\ \/ Moves(t, heap \ {t}) /\ valid' = TRUE
             \/ HasMore(t) /\ SetError /\ UNCHANGED pos
    /\ pc' = "drain"
    /\ UNCHANGED <<content, drop, output>>

Duplicates == {t \in Tops : At(t).key = current.key}

\* The deduplication loop: the older versions of the key are skipped.
DrainDuplicate ==
    /\ pc = "drain"
    /\ \E t \in Duplicates :
          \/ Moves(t, heap \ {t}) /\ UNCHANGED valid
          \/ HasMore(t) /\ SetError /\ UNCHANGED pos
    /\ UNCHANGED <<content, current, pc, drop, output>>

DrainDone ==
    /\ pc = "drain" /\ Duplicates = {}
    /\ pc' = "loop"
    /\ UNCHANGED <<content, pos, heap, current, valid, error, drop, output>>

-----------------------------------------------------------------------------
\* compact() leaves a tombstone out when it may be dropped.
Kept(e) == ~(e.is_tombstone /\ drop)

\* The body of compact()'s loop, and the call of next() that ends it.
LoopBody ==
    /\ pc = "loop" /\ valid
    /\ output' = IF Kept(current) THEN Append(output, current) ELSE output
    /\ pc' = "advance"
    /\ UNCHANGED <<content, pos, heap, current, valid, error, drop>>

\* writer.add fails; compact() returns the error.
AddFails ==
    /\ pc = "loop" /\ valid /\ Kept(current)
    /\ pc' = "failed"
    /\ UNCHANGED <<content, pos, heap, current, valid, error, drop, output>>

\* The loop is over; compact() does not ask for status() and finishes.
Finish ==
    /\ pc = "loop" /\ ~valid
    /\ pc' \in {"finished", "failed"}
    /\ UNCHANGED <<content, pos, heap, current, valid, error, drop, output>>

Done == pc \in {"finished", "failed"}

Next ==
    \/ SeekSource \/ SeekFails \/ SeekDone
    \/ NoWinner \/ TakeWinner \/ DrainDuplicate \/ DrainDone
    \/ LoopBody \/ AddFails \/ Finish
    \/ Done /\ UNCHANGED vars

Spec == Init /\ [][Next]_vars

-----------------------------------------------------------------------------
(***************************************************************************)
(* Properties.                                                             *)
(***************************************************************************)
\* What the sources hold together, and the most recent write of some versions.
Contents == UNION {Range(content[s]) : s \in Source}

Newest(entries) == CHOOSE e \in entries : \A f \in entries : f.sequence <= e.sequence

\* Each key of the sources once, in order, with its newest entry.
Reference ==
    LET versions == [k \in Key |-> {e \in Contents : e.key = k}]
        keys == SelectSeq(SortedKeys, LAMBDA k : versions[k] # {})
    IN  [i \in DOMAIN keys |-> Newest(versions[keys[i]])]

MayBeDropped(e) == e.is_tombstone /\ drop

Status ==
    IF ~Done THEN "open"
    ELSE IF pc = "failed" \/ error THEN "error" ELSE "end"

Stream == INSTANCE SortedStream WITH
    stream <- SelectSeq(Reference, LAMBDA e : ~MayBeDropped(e)),
    seen <- output, status <- Status

\* A compaction writes each key of its inputs exactly once, in order, with the
\* value of its most recent write, and leaves out only the tombstones it may
\* drop; it stops short of the last key only when an error was recorded.
ImplementsSortedStream == Stream!Spec
=============================================================================
