------------------------------ MODULE SSTable ------------------------------
(***************************************************************************)
(* One SSTable file: SSTableWriter fills it, SSTableReader::get looks a    *)
(* key up in it, SSTableIterator scans it.  BloomFilter is part of both.   *)
(*                                                                         *)
(* Bytes are kept where the code does arithmetic on them: an entry of      *)
(* size n is n units, a block is a sequence of units, and the index holds  *)
(* offsets and sizes in units.  Decoding works only at the first unit of   *)
(* an entry that is there in full.  The index, filter and footer sections  *)
(* are records: the footer is written last and says the file is complete.  *)
(***************************************************************************)
EXTENDS Integers, Sequences, FiniteSets, FiniteSetsExt

CONSTANTS
    Key,                    \* encoded keys; 0 is the empty (default) key
    EntrySize,              \* the sizes required_size can take
    MAX_PAGING_SIZE_BYTES,  \* when a block is flushed
    FilterBits,             \* m: the filter size for the estimated keys
    num_hashes,             \* hash functions of the filter
    Hash1(_), Hash2(_),     \* Hash with SEED_1 and SEED_2
    MaxSequence,            \* bound: sequences given to entries
    nullopt

ASSUME SizeAssumption ==
    /\ Key \subseteq Nat \ {0}
    /\ EntrySize \subseteq Nat \ {0}
    /\ MAX_PAGING_SIZE_BYTES \in Nat \ {0}
    /\ FilterBits \in Nat \ {0} /\ num_hashes \in 1..30
    /\ MaxSequence \in Nat
    /\ \A k \in Key : Hash1(k) \in Nat /\ Hash2(k) \in Nat

VARIABLES
    buffer,         \* buffer_: the current data block
    first_key,      \* current_block_first_key_
    start_offset,   \* current_block_start_offset_
    file_offset,    \* current_file_offset_
    index,          \* index_entries_, and the index block finish() writes
    filter,         \* the bits set in bloom_filter_
    highest,        \* highest_sequence_
    entry_count,    \* entry_count_
    data,           \* the data blocks in the file
    footer,         \* the footer in the file, nullopt before it is written
    writer,         \* what the writer's caller knows
    it,             \* an SSTableIterator
    added,          \* history: the entries add() accepted
    yielded         \* history: entries the iterator gave since its last seek

writer_vars == <<buffer, first_key, start_offset, file_offset, index, filter,
                 highest, entry_count, data, footer, writer, added>>
vars == <<writer_vars, it, yielded>>

Entry == [key : Key, sequence : 1..MaxSequence, size : EntrySize]

Unit == Entry \X Nat

IndexEntry == [first_key : Key \cup {0}, block_offset : Nat, block_size : Nat]

Iterator == [block_idx : Nat, buffer : Seq(Unit), offset : Nat,
             valid : BOOLEAN, error : BOOLEAN, entry : Entry \cup {nullopt}]

-----------------------------------------------------------------------------
(***************************************************************************)
(* BloomFilter.  The constructor rounds the bit count up to whole bytes;   *)
(* the one that loads a filter takes it from the bytes.                    *)
(***************************************************************************)
\* Mutant of bit_count: not rounded up to a byte boundary.
UnroundedBitCount == FilterBits

bit_count == ((FilterBits + 7) \div 8) * 8

loaded_bit_count == ((bit_count + 7) \div 8) * 8

\* bit_pos of every hash function: h2 | 1 makes the stride odd.
Positions(key, bits) ==
    LET stride == IF Hash2(key) % 2 = 0 THEN Hash2(key) + 1 ELSE Hash2(key)
    IN  {(Hash1(key) + i * stride) % bits : i \in 0..(num_hashes - 1)}

MayContain(key) == Positions(key, loaded_bit_count) \subseteq filter

-----------------------------------------------------------------------------
(***************************************************************************)
(* SSTableWriter.                                                          *)
(***************************************************************************)
Encode(e) == [i \in 1..e.size |-> <<e, i>>]

\* Mutant of FlushedIndex: the block is given where the next one starts.
IndexAfterFlush ==
    Append(index, [first_key |-> first_key,
                   block_offset |-> file_offset + Len(buffer),
                   block_size |-> Len(buffer)])

\* flush_block's index entry for the block it wrote.
FlushedIndex ==
    Append(index, [first_key |-> first_key, block_offset |-> start_offset,
                   block_size |-> Len(buffer)])

\* What add() leaves in the block after it appended e to the rest of it.
Buffered(rest, offset, e) ==
    /\ buffer' = rest \o Encode(e)
    /\ first_key' = IF rest = <<>> THEN e.key ELSE first_key
    /\ start_offset' = IF rest = <<>> THEN offset ELSE start_offset
    /\ filter' = filter \cup Positions(e.key, bit_count)
    /\ highest' = Max({highest, e.sequence})
    /\ entry_count' = entry_count + 1
    /\ added' = Append(added, e)

\* The callers add in ascending key order: a memtable, or a merge.
CanAdd(e) ==
    /\ writer = "open"
    /\ added # <<>> => added[Len(added)].key < e.key

Overflows(e) == Len(buffer) + e.size > MAX_PAGING_SIZE_BYTES

Add(e) ==
    /\ CanAdd(e)
    /\ ~Overflows(e)
    /\ Buffered(buffer, file_offset, e)
    /\ UNCHANGED <<file_offset, index, data, footer, writer, it, yielded>>

AddFlushing(e) ==
    /\ CanAdd(e)
    /\ Overflows(e)
    /\ data' = data \o buffer
    /\ index' = FlushedIndex
    /\ file_offset' = file_offset + Len(buffer)
    /\ Buffered(<<>>, file_offset', e)
    /\ UNCHANGED <<footer, writer, it, yielded>>

\* The append of a block fails or is short: some prefix of it is there.
Torn(n) ==
    /\ data' = data \o SubSeq(buffer, 1, n)
    /\ writer' = "failed"
    /\ UNCHANGED <<buffer, first_key, start_offset, file_offset, index, filter,
                   highest, entry_count, footer, added, it, yielded>>

AddFails(e) ==
    /\ CanAdd(e) /\ Overflows(e)
    /\ \E n \in 0..Len(buffer) : Torn(n)

Footer == [entry_count |-> entry_count, highest_sequence |-> highest]

\* finish: the last block, the index, the filter, the footer, both syncs.
\* A failed sync leaves a complete file behind.
Finish ==
    /\ writer = "open"
    /\ IF buffer = <<>>
       THEN UNCHANGED <<data, index, file_offset>>
       ELSE /\ data' = data \o buffer
            /\ index' = FlushedIndex
            /\ file_offset' = file_offset + Len(buffer)
    /\ buffer' = <<>>
    /\ footer' = Footer
    /\ writer' \in {"finished", "failed"}
    /\ UNCHANGED <<first_key, start_offset, filter, highest, entry_count, added,
                   it, yielded>>

FinishFails ==
    /\ writer = "open"
    /\ \E n \in 0..Len(buffer) : Torn(n)

-----------------------------------------------------------------------------
(***************************************************************************)
(* SSTableReader.  create() accepts exactly a file that has its footer.    *)
(***************************************************************************)
Readable == footer # nullopt

Block(entry) ==
    SubSeq(data, entry.block_offset + 1, entry.block_offset + entry.block_size)

\* The bounds checks around every field: an entry starts here and is whole.
CanDecode(block, offset) ==
    /\ offset < Len(block)
    /\ block[offset + 1][2] = 1
    /\ offset + block[offset + 1][1].size <= Len(block)

\* The linear scan of a block, which stops at the first larger key.
Scan(block, key) ==
    LET scan[offset \in 0..Len(block)] ==
            IF offset = Len(block) THEN nullopt
            ELSE IF ~CanDecode(block, offset) THEN "BAD_FILE"
            ELSE LET e == block[offset + 1][1]
                 IN  IF key = e.key THEN e
                     ELSE IF key < e.key THEN nullopt
                     ELSE scan[offset + e.size]
    IN  scan[0]

\* Mutant of CandidateBlocks: std::lower_bound.
BlocksBelow(key) == {i \in DOMAIN index : index[i].first_key < key}

\* Everything before std::upper_bound's answer.
CandidateBlocks(key) == {i \in DOMAIN index : index[i].first_key <= key}

Get(key) ==
    IF ~MayContain(key) \/ CandidateBlocks(key) = {} THEN nullopt
    ELSE Scan(Block(index[Max(CandidateBlocks(key))]), key)

-----------------------------------------------------------------------------
(***************************************************************************)
(* SSTableIterator.  block_idx counts from 1.  A read may fail.            *)
(***************************************************************************)
SetError(i) == [i EXCEPT !.error = TRUE, !.valid = FALSE]

LoadBlock(i, fails) ==
    LET loaded == [i EXCEPT !.buffer = Block(index[i.block_idx]), !.offset = 0]
    IN  IF fails THEN SetError(loaded) ELSE loaded

\* next(), once the block it reads from is loaded.
ReadEntry(i) ==
    IF i.error THEN i
    ELSE IF i.buffer = <<>> THEN [i EXCEPT !.valid = FALSE]
    ELSE IF ~CanDecode(i.buffer, i.offset) THEN SetError(i)
    ELSE LET e == i.buffer[i.offset + 1][1]
         IN  [i EXCEPT !.entry = e, !.offset = @ + e.size, !.valid = TRUE]

Exhausted(i) == i.buffer # <<>> /\ i.offset >= index[i.block_idx].block_size

\* Mutant of NextEntry: the iterator stops at the end of its first block.
NextInBlock(i, fails) ==
    IF Exhausted(i) THEN [i EXCEPT !.valid = FALSE] ELSE ReadEntry(i)

NextEntry(i, fails) ==
    IF i.error THEN i
    ELSE IF ~Exhausted(i) THEN ReadEntry(i)
    ELSE LET moved == [i EXCEPT !.block_idx = @ + 1]
         IN  IF moved.block_idx > Len(index) THEN [moved EXCEPT !.valid = FALSE]
             ELSE ReadEntry(LoadBlock(moved, fails))

FirstEntry(i, fails) ==
    LET reset == [i EXCEPT !.block_idx = 1, !.buffer = <<>>, !.offset = 0,
                           !.error = FALSE, !.valid = FALSE]
    IN  IF index = <<>> THEN reset ELSE ReadEntry(LoadBlock(reset, fails))

SeekToFirst ==
    /\ Readable
    /\ \E fails \in BOOLEAN : it' = FirstEntry(it, fails)
    /\ yielded' = IF it'.valid THEN 1 ELSE 0
    /\ UNCHANGED writer_vars

\* The callers step an iterator only while it is valid.
IteratorNext ==
    /\ it.valid
    /\ \E fails \in BOOLEAN : it' = NextEntry(it, fails)
    /\ yielded' = IF it'.valid THEN yielded + 1 ELSE yielded
    /\ UNCHANGED writer_vars

-----------------------------------------------------------------------------
Init ==
    /\ buffer = <<>> /\ first_key = 0 /\ start_offset = 0 /\ file_offset = 0
    /\ index = <<>> /\ filter = {} /\ highest = 0 /\ entry_count = 0
    /\ data = <<>> /\ footer = nullopt /\ writer = "open" /\ added = <<>>
    /\ it = [block_idx |-> 0, buffer |-> <<>>, offset |-> 0, valid |-> FALSE,
             error |-> FALSE, entry |-> nullopt]
    /\ yielded = 0

Next ==
    \/ \E e \in Entry : Add(e) \/ AddFlushing(e) \/ AddFails(e)
    \/ Finish \/ FinishFails
    \/ SeekToFirst \/ IteratorNext

Spec == Init /\ [][Next]_vars

TypeOK ==
    /\ buffer \in Seq(Unit) /\ data \in Seq(Unit)
    /\ first_key \in Key \cup {0}
    /\ start_offset \in Nat /\ file_offset \in Nat
    /\ index \in Seq(IndexEntry)
    /\ filter \subseteq 0..(bit_count - 1)
    /\ highest \in 0..MaxSequence /\ entry_count \in Nat
    /\ footer = nullopt \/ footer \in [entry_count : Nat,
                                       highest_sequence : 0..MaxSequence]
    /\ writer \in {"open", "finished", "failed"}
    /\ it \in Iterator
    /\ added \in Seq(Entry) /\ yielded \in Nat

-----------------------------------------------------------------------------
(***************************************************************************)
(* Properties.                                                             *)
(***************************************************************************)

\* get() answers every key as the entries that were added say: no false
\* negative of the reloaded filter, no block missed by the index search, no
\* entry missed by the scan, nothing invented, whatever the sizes of entries.
GetFindsWhatWasAdded ==
    Readable => \A key \in Key :
        Get(key) = IF \E i \in DOMAIN added : added[i].key = key
                   THEN added[CHOOSE i \in DOMAIN added : added[i].key = key]
                   ELSE nullopt

\* The first entry is not larger than a block.  Before one that is, add()
\* flushes the empty buffer and gives an empty block an entry in the index.
FirstFits == Len(added) > 0 => added[1].size <= MAX_PAGING_SIZE_BYTES

\* The iterator gives the added entries in order, and if the first of them
\* fits in a block it ends without an error only after the last: a failed
\* read never looks like the end.
IteratorYieldsInOrder ==
    /\ it.valid => yielded <= Len(added) /\ it.entry = added[yielded]
    /\ FirstFits /\ it.block_idx > 0 /\ ~it.valid /\ ~it.error
          => yielded = Len(added)

\* An iterator that ends without an error gave every entry, of any size.  It
\* does not hold of the code: next() takes the empty block in front of a
\* first entry that is larger than a block for the end of the file.
IteratorYieldsWhatWasAdded ==
    it.block_idx > 0 /\ ~it.valid /\ ~it.error => yielded = Len(added)

\* The file describes itself: the blocks lie end to end, each starts with the
\* first key its index entry has for it, none is empty but the one that
\* precedes a first entry larger than a block, and the footer has the number
\* of entries and their highest sequence, from which open() restarts the
\* sequence counter.
FileDescribesItself ==
    /\ \A i \in DOMAIN index :
        /\ index[i].block_offset =
               IF i = 1 THEN 0
               ELSE index[i - 1].block_offset + index[i - 1].block_size
        /\ FirstFits \/ i # 1 =>
              /\ index[i].block_size > 0
              /\ CanDecode(Block(index[i]), 0)
              /\ Block(index[i])[1][1].key = index[i].first_key
    /\ Readable =>
        /\ footer.entry_count = Len(added)
        /\ footer.highest_sequence =
               Max({added[i].sequence : i \in DOMAIN added} \cup {0})
=============================================================================
