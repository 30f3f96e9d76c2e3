------------------------------ MODULE MCDazzle ------------------------------
(***************************************************************************)
(* Small instances of Dazzle: the compaction policies it can be opened     *)
(* with, and sizes in bytes.  Keys are one byte long, value "a" is one     *)
(* byte and value "b" is large.                                            *)
(***************************************************************************)
EXTENDS Dazzle, CompactionPolicy

ValueBytes(v) == CASE v = "a" -> 1 [] v = "b" -> 200 [] OTHER -> 0

\* Memtable's bytes_: the key and the data of every entry.
MemtableBytes(t) ==
    MapThenSumSet(LAMBDA k : 1 + ValueBytes(t[k].data), KeysOf(t))

\* footer.size_bytes of a table of one block: 17 bytes and the data per
\* entry, one index entry, the Bloom filter and the footer.
FileBytes(t, estimated_keys) ==
    LET entries == MapThenSumSet(LAMBDA k : 18 + ValueBytes(t[k].data), KeysOf(t))
        index   == IF KeysOf(t) = {} THEN 0 ELSE 17
        filter  == 1 + (((9585 * estimated_keys) \div 1000) + 7) \div 8
    IN  entries + index + filter + 64

\* FullCompactionPolicy does not look at sizes.
NoSize(t, estimated_keys) == 0

\* The policy of an engine opened without one: SizeTieredCompactionPolicy(4, 8).
DefaultPick(live) == SizeTieredPick(live, 4, 8, 1, 3)

\* The same with two files enough for a merge.
NarrowPick(live) == SizeTieredPick(live, 2, 2, 1, 3)
=============================================================================
