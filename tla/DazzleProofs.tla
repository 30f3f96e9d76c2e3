---------------------------- MODULE DazzleProofs ----------------------------
(***************************************************************************)
(* The inductive invariant of Dazzle, the lemmas its proof needs about     *)
(* tables, logs and ids, its preservation by every action, and the         *)
(* theorems, for every compaction policy, every combination of I/O faults, *)
(* and any sets of keys and values: the type invariant, that published     *)
(* files stay readable, and that recovery leaves the LSN above every       *)
(* durable sequence.  The second part is the invariant behind durability,  *)
(* which DazzleDurabilityProofs finishes.                                  *)
(*                                                                         *)
(* The first part rests on three facts about the running engine: ids only  *)
(* grow past what is on disk, a file without a footer holds no entries,    *)
(* and during recovery the records not replayed yet are in old segments.   *)
(***************************************************************************)
EXTENDS Dazzle, WellFoundedInduction, TLAPS

\* Steps without a prover of their own get more than the default time.
USE SMTT(30)

(***************************************************************************)
(* The least element that reclaim() unlinks next, and that recover()       *)
(* replays next, exists and is in the set.                                 *)
(***************************************************************************)
LEMMA MinProperties ==
    ASSUME NEW S \in SUBSET Nat, S # {}
    PROVE  /\ Min(S) \in S
           /\ Min(S) \in Nat
           /\ \A y \in S : Min(S) <= y
<1>1. \E x \in S : \A y \in S : ~(<<y, x>> \in OpToRel(<, Nat))
  BY WFMin, NatLessThanWellFounded, Zenon
<1>2. PICK x \in S : \A y \in S : ~(<<y, x>> \in OpToRel(<, Nat))
  BY Zenon, <1>1
<1>3. \A y \in S : ~(y < x)
  BY <1>2, Zenon DEF OpToRel
<1>4. \A y \in S : x =< y
  BY <1>3
<1>. QED
  BY Zenon, <1>4 DEF Min

(***************************************************************************)
(* A non-empty set of numbers with an upper bound has a greatest element:  *)
(* the newest file holding a key, the highest sequence of a footer.        *)
(***************************************************************************)
LEMMA MaxProperties ==
    ASSUME NEW N \in Nat, NEW S \in SUBSET (0..N), S # {}
    PROVE  /\ Max(S) \in S
           /\ Max(S) \in 0..N
           /\ \A y \in S : y <= Max(S)
<1>. DEFINE D == {N - y : y \in S}
<1>1. \A y \in S : y \in Nat /\ y <= N /\ N - y \in Nat
  OBVIOUS
<1>2. D \in SUBSET Nat
  BY Zenon, <1>1
<1>3. D # {}
  <2>1. PICK y \in S : TRUE
    BY Zenon
  <2>2. N - y \in D
    BY Zenon, <2>1
  <2>. QED
    BY Zenon, <2>2
<1>4. Min(D) \in D /\ \A d \in D : Min(D) <= d
  BY Zenon, <1>2, <1>3, MinProperties
<1>5. PICK x \in S : Min(D) = N - x
  BY Zenon, <1>4
<1>6. \A y \in S : N - x <= N - y
  BY Zenon, <1>4, <1>5
<1>7. \A y \in S : x >= y
  BY <1>1, <1>6
<1>. HIDE DEF D
<1>. QED
  BY Zenon, <1>1, <1>7 DEF Max

(***************************************************************************)
(* std::max of two numbers.                                                *)
(***************************************************************************)
LEMMA MaxOfTwo ==
    ASSUME NEW a \in Nat, NEW b \in Nat
    PROVE  /\ Max({a, b}) \in Nat
           /\ Max({a, b}) \in {a, b}
           /\ a <= Max({a, b})
           /\ b <= Max({a, b})
<1>1. {a, b} \in SUBSET (0..(a + b)) /\ a + b \in Nat /\ {a, b} # {}
  OBVIOUS
<1>2. /\ Max({a, b}) \in {a, b}
      /\ \A y \in {a, b} : y <= Max({a, b})
  BY Zenon, <1>1, MaxProperties
<1>. QED
  BY Zenon, <1>2

-----------------------------------------------------------------------------
Up == pc # "down"

Recovering == pc = "replay" \/ caller = "recover"

\* pc values at which a file is being written, and at which flush() still
\* has its segment to mint.
Writing == pc \in {"flush_write", "merge"}
Written == pc \in {"flush_rotate", "install"}
Rotating == pc \in {"sync", "flush", "flush_write", "flush_rotate", "replay"}

\* recover() is the caller only from its flush() to its end, when it has read
\* every segment.
Callers ==
    /\ caller = "recover" => pc \in {"flush", "flush_write", "flush_rotate",
                                     "flush_remove", "compact", "merge",
                                     "install", "reclaim", "clean"}
    /\ pc = "clean" => caller = "recover"
    /\ caller = "recover" => unread = {}

\* The ids a running call can still mint exist.
Budget ==
    /\ Up => next_sst >= 1 /\ next_wal >= 1
    /\ pc \in {"sync", "flush", "replay"} => next_sst + 1 <= MaxSst
    /\ pc \in {"flush_write", "flush_rotate", "flush_remove", "compact"} =>
           next_sst <= MaxSst
    /\ Rotating => next_wal <= MaxWal

\* Ids on disk were minted; a file that is not complete has no entries.
Files ==
    /\ Up => \A i \in Existing : i < next_sst
    /\ \A i \in SstId : sst[i] # "complete" => table[i] = EmptyTable

\* The file a task writes is its own, not yet published.
Output ==
    /\ Writing \/ Written => out \in SstId /\ out < next_sst /\ out \notin version
    /\ Writing => sst[out] = "torn"
    /\ Written => sst[out] = "complete"

\* A compaction's inputs are published until install, then never again.
Inputs ==
    /\ pc \in {"merge", "install"} => inputs \subseteq version
    /\ pc = "reclaim" => inputs \cap version = {}

\* put() has a record in hand between its append and its return.
Record == pc = "sync" => op \in WalRecord

\* Records are in segments that exist, and the writer's is not an old one.
Segments ==
    /\ \A w \in WalId : log[w] # <<>> => w \in wals
    /\ Up => writer \in wals
    /\ pc = "flush_remove" => writer = next_wal - 1
    /\ Recovering =>
           /\ \A w \in old_wals : w < writer /\ w < next_wal
           /\ \A w \in WalId : log[w] # <<>> => w \in old_wals
    /\ ~Recovering /\ Up => highest = 0 /\ lsn >= 1

\* Below the LSN, or about to be when recover() reconciles it.
Below(s) == s < lsn \/ s <= highest

Sequenced ==
    Up => /\ \A k \in KeysOf(memtable) : Below(memtable[k].sequence)
          /\ \A i \in SstId : \A k \in KeysOf(table[i]) :
                 Below(table[i][k].sequence)
          /\ pc = "sync" => Below(op.sequence)
          /\ ~Recovering =>
                 \A w \in WalId : \A n \in DOMAIN log[w] :
                     log[w][n] # nullopt => Below(log[w][n].sequence)

IInv ==
    /\ TypeOK
    /\ Callers
    /\ Budget
    /\ Files
    /\ Output
    /\ Inputs
    /\ Record
    /\ Segments
    /\ Sequenced
    /\ PublishedFilesReadable

-----------------------------------------------------------------------------
(***************************************************************************)
(* Lemmas about tables.                                                    *)
(***************************************************************************)

(***************************************************************************)
(* Applying a record to a memtable yields a memtable; its entries are the  *)
(* old ones, except the record's key, which has the record's sequence.     *)
(***************************************************************************)
LEMMA ApplyRecordLemma ==
    ASSUME NEW t \in Table, NEW r \in WalRecord
    PROVE  /\ ApplyRecord(t, r) \in Table
           /\ \A k \in KeysOf(ApplyRecord(t, r)) :
                 \/ k \in KeysOf(t) /\ ApplyRecord(t, r)[k] = t[k]
                 \/ ApplyRecord(t, r)[k].sequence = r.sequence
<1>. DEFINE u == ApplyRecord(t, r)
<1>1. PICK e \in InternalValue : u = [t EXCEPT ![r.key] = e] /\ e.sequence = r.sequence
  <2>1. CASE r.op_type = "DELETE_ROW"
    <3>. DEFINE e == [data |-> nullopt, is_tombstone |-> TRUE, sequence |-> r.sequence]
    <3>1. e \in InternalValue /\ e.sequence = r.sequence
      BY Zenon DEF InternalValue, WalRecord
    <3>2. u = [t EXCEPT ![r.key] = e]
      BY Zenon, <2>1 DEF ApplyRecord, MemtableRemove
    <3>. QED
      BY <3>1, <3>2, Zenon
  <2>2. CASE r.op_type # "DELETE_ROW"
    <3>. DEFINE e == [data |-> r.value, is_tombstone |-> FALSE, sequence |-> r.sequence]
    <3>1. e \in InternalValue /\ e.sequence = r.sequence
      BY Zenon DEF InternalValue, WalRecord
    <3>2. u = [t EXCEPT ![r.key] = e]
      BY Zenon, <2>2 DEF ApplyRecord, MemtablePut
    <3>. QED
      BY <3>1, <3>2, Zenon
  <2>. QED
    BY Zenon, <2>1, <2>2
<1>. HIDE DEF u
<1>2. r.key \in Key
  BY Zenon DEF WalRecord
<1>3. u \in Table
  BY Zenon, <1>1, <1>2 DEF Table
<1>4. \A k \in KeysOf(u) : \/ k \in KeysOf(t) /\ u[k] = t[k]
                           \/ u[k].sequence = r.sequence
  BY Zenon, <1>1, <1>2 DEF Table, KeysOf
<1>. QED
  BY Zenon, <1>3, <1>4 DEF u

(***************************************************************************)
(* A footer's highest_sequence bounds the sequences of the table.          *)
(***************************************************************************)
LEMMA HighestSequenceLemma ==
    ASSUME NEW t \in Table
    PROVE  /\ HighestSequence(t) \in Sequence
           /\ \A k \in KeysOf(t) : t[k].sequence <= HighestSequence(t)
           /\ \/ HighestSequence(t) = 0
              \/ \E k \in KeysOf(t) : HighestSequence(t) = t[k].sequence
<1>. DEFINE S == {t[k].sequence : k \in KeysOf(t)} \cup {0}
<1>1. \A k \in KeysOf(t) : t[k] \in InternalValue
  BY Zenon DEF Table, KeysOf
<1>2. S \in SUBSET (0..MaxLsn) /\ S # {}
  BY <1>1, LsnAssumption DEF InternalValue, Sequence
<1>3. Max(S) \in S /\ Max(S) \in 0..MaxLsn /\ \A y \in S : y <= Max(S)
  BY <1>2, LsnAssumption, MaxProperties, Zenon
<1>4. /\ \A k \in KeysOf(t) : t[k].sequence \in S
      /\ \A y \in S : y = 0 \/ \E k \in KeysOf(t) : y = t[k].sequence
  BY Zenon
<1>. HIDE DEF S
<1>. QED
  BY <1>3, <1>4, Zenon DEF HighestSequence, S, Sequence

(***************************************************************************)
(* The merge's winner for a key is an entry of one of the inputs.          *)
(***************************************************************************)
LEMMA WinnerLemma ==
    ASSUME table \in [SstId -> Table], NEW ids \in SUBSET SstId, NEW k \in Key
    PROVE  \/ Winner(ids, k) = nullopt
           \/ \E i \in ids : /\ k \in KeysOf(table[i])
                             /\ Winner(ids, k) = table[i][k]
                             /\ Winner(ids, k) \in InternalValue
<1>. DEFINE entries == {table[i][k] : i \in ids} \ {nullopt}
            sequences == {e.sequence : e \in entries}
<1>1. CASE entries = {}
  BY Zenon, <1>1 DEF Winner
<1>2. CASE entries # {}
  <2>1. entries \subseteq InternalValue
    BY DEF Table
  <2>2. sequences \in SUBSET (0..MaxLsn)
    BY Zenon, <2>1 DEF InternalValue, Sequence
  <2>3. PICK d \in entries : TRUE
    BY Zenon, <1>2
  <2>4. sequences # {}
    BY SMTT(30), <2>3
  <2>5. Max(sequences) \in sequences /\ \A s \in sequences : s <= Max(sequences)
    BY <2>2, <2>4, LsnAssumption, MaxProperties, Zenon
  <2>6. \E e \in entries : \A f \in entries : f.sequence <= e.sequence
    BY <2>5, Zenon
  <2>7. Winner(ids, k) \in entries
    BY Zenon, <1>2, <2>6 DEF Winner
  <2>8. PICK i \in ids : Winner(ids, k) = table[i][k]
    BY Zenon, <2>7
  <2>9. k \in KeysOf(table[i]) /\ Winner(ids, k) \in InternalValue
    BY Zenon, <2>1, <2>7, <2>8 DEF KeysOf
  <2>. QED
    BY Zenon, <2>8, <2>9
<1>. QED
  BY Zenon, <1>1, <1>2

(***************************************************************************)
(* A compaction's output holds entries of its inputs and nothing else.     *)
(***************************************************************************)
LEMMA MergedLemma ==
    ASSUME table \in [SstId -> Table], NEW ids \in SUBSET SstId,
           NEW d, NEW ks
    PROVE  /\ Merged(ids, d, ks) \in Table
           /\ \A k \in KeysOf(Merged(ids, d, ks)) :
                 \E i \in ids : /\ k \in KeysOf(table[i])
                                /\ Merged(ids, d, ks)[k] = table[i][k]
<1>. DEFINE m == Merged(ids, d, ks)
<1>1. \A k \in Key : m[k] = nullopt \/ m[k] = Winner(ids, k)
  BY Zenon DEF Merged
<1>2. m = [k \in Key |-> m[k]]
  BY Zenon DEF Merged
<1>. HIDE DEF m
<1>3. \A k \in Key : m[k] \in InternalValue \cup {nullopt}
  BY <1>1, WinnerLemma
<1>4. m \in Table
  BY Zenon, <1>2, <1>3 DEF Table
<1>5. \A k \in KeysOf(m) : \E i \in ids : k \in KeysOf(table[i]) /\ m[k] = table[i][k]
  BY <1>1, WinnerLemma DEF KeysOf
<1>. QED
  BY Zenon, <1>4, <1>5 DEF m

(***************************************************************************)
(* An empty memtable is a table without keys.                              *)
(***************************************************************************)
LEMMA EmptyTableLemma ==
    EmptyTable \in Table /\ KeysOf(EmptyTable) = {}
  BY Zenon DEF EmptyTable, Table, KeysOf

-----------------------------------------------------------------------------
(***************************************************************************)
(* Lemmas about numbers, logs and ids.                                     *)
(***************************************************************************)

(***************************************************************************)
(* Entries of a table have sequences.                                      *)
(***************************************************************************)
LEMMA EntryLemma ==
    ASSUME NEW t \in Table, NEW k \in KeysOf(t)
    PROVE  t[k] \in InternalValue /\ t[k].sequence \in Sequence /\ t[k].sequence \in Nat
<1>1. t[k] \in InternalValue
  BY Zenon DEF Table, KeysOf
<1>. QED
  BY <1>1, LsnAssumption DEF InternalValue, Sequence

(***************************************************************************)
(* The highest id a directory scan finds, 0 for an empty directory.        *)
(***************************************************************************)
LEMMA HighestLemma ==
    ASSUME NEW N \in Nat, NEW S \in SUBSET (0..N)
    PROVE  /\ Highest(S) \in 0..N
           /\ \A x \in S : x <= Highest(S)
<1>1. S \cup {0} \in SUBSET (0..N) /\ S \cup {0} # {}
  OBVIOUS
<1>2. /\ Max(S \cup {0}) \in 0..N
      /\ \A x \in S \cup {0} : x <= Max(S \cup {0})
  BY Zenon, <1>1, MaxProperties
<1>. QED
  BY Zenon, <1>2 DEF Highest

(***************************************************************************)
(* open() starts above the sequences of every readable file.               *)
(***************************************************************************)
LEMMA NextLsnLemma ==
    ASSUME table \in [SstId -> Table], NEW ids \in SUBSET SstId
    PROVE  /\ NextLsn(ids) \in Nat
           /\ NextLsn(ids) >= 1
           /\ \A i \in ids : \A k \in KeysOf(table[i]) :
                 table[i][k].sequence < NextLsn(ids)
<1>. DEFINE S == {HighestSequence(table[i]) : i \in ids}
<1>1. \A i \in ids : table[i] \in Table
  BY Zenon
<1>2. S \in SUBSET (0..MaxLsn)
  BY Zenon, <1>1, HighestSequenceLemma DEF Sequence
<1>3. /\ Highest(S) \in 0..MaxLsn
      /\ \A x \in S : x <= Highest(S)
  BY Zenon, <1>2, LsnAssumption, HighestLemma
<1>4. NextLsn(ids) = Highest(S) + 1
  BY Zenon DEF NextLsn
<1>5. \A i \in ids : HighestSequence(table[i]) \in S
  BY Zenon
<1>. HIDE DEF S
<1>6. \A i \in ids : HighestSequence(table[i]) < NextLsn(ids)
  BY <1>1, <1>3, <1>4, <1>5, LsnAssumption, HighestSequenceLemma DEF Sequence
<1>7. ASSUME NEW i \in ids, NEW k \in KeysOf(table[i])
      PROVE  table[i][k].sequence < NextLsn(ids)
  <2>1. table[i][k].sequence <= HighestSequence(table[i])
    BY Zenon, <1>1, HighestSequenceLemma
  <2>2. table[i][k].sequence \in Nat
    BY Zenon, <1>1, EntryLemma
  <2>3. HighestSequence(table[i]) \in Nat
    BY <1>1, LsnAssumption, HighestSequenceLemma DEF Sequence
  <2>. QED
    BY <1>3, <1>4, <1>6, <2>1, <2>2, <2>3, LsnAssumption
<1>. QED
  BY <1>3, <1>4, <1>7

(***************************************************************************)
(* Appending to a log keeps its records and adds one.                      *)
(***************************************************************************)
LEMMA AppendLemma ==
    ASSUME NEW T, NEW s \in Seq(T), NEW e \in T
    PROVE  /\ Append(s, e) \in Seq(T)
           /\ \A n \in DOMAIN Append(s, e) :
                 \/ n \in DOMAIN s /\ Append(s, e)[n] = s[n]
                 \/ Append(s, e)[n] = e
  OBVIOUS

\* Positions of a log: what lies before the tail, and what lies in the log.
LEMMA TailLemma ==
    ASSUME NEW L \in Nat, NEW n \in 1..(L + 1)
    PROVE  n <= L + 1 /\ \A m \in 1..(L + 1) : m < n => m \in 1..L
  OBVIOUS

LEMMA ElementLemma ==
    ASSUME NEW T, NEW s \in Seq(T), NEW n \in Nat \ {0}, n <= Len(s)
    PROVE  n \in DOMAIN s /\ s[n] \in T
  OBVIOUS

LEMMA EmptyLogLemma ==
    /\ DOMAIN <<>> = {}
    /\ \A s : \A n \in Nat : Len(s) = n + 1 => s # <<>>
  OBVIOUS

\* The sequence of a record.
LEMMA RecordSequenceLemma ==
    ASSUME NEW r \in WalRecord
    PROVE  r.sequence \in Nat
  BY LsnAssumption DEF WalRecord, Sequence

(***************************************************************************)
(* The id a flush or a compaction mints is of no file on disk.             *)
(***************************************************************************)
LEMMA NewIdLemma ==
    ASSUME IInv, Up, next_sst <= MaxSst
    PROVE  /\ next_sst \in SstId
           /\ sst[next_sst] = "absent"
           /\ table[next_sst] = EmptyTable
           /\ next_sst \notin version
           /\ \A i \in version : i < next_sst
<1>. USE BoundsAssumption DEF IInv
<1>1. next_sst \in SstId
  BY DEF Budget, TypeOK, SstId
<1>2. ~(next_sst < next_sst)
  BY <1>1 DEF SstId
<1>3. sst[next_sst] = "absent"
  BY Zenon, <1>1, <1>2 DEF Files, Existing
<1>4. table[next_sst] = EmptyTable
  BY Zenon, <1>1, <1>3 DEF Files
<1>5. \A i \in version : i \in Existing
  BY Zenon DEF PublishedFilesReadable, Existing, Complete
<1>. QED
  BY Zenon, <1>1, <1>2, <1>3, <1>4, <1>5 DEF Files

-----------------------------------------------------------------------------
(***************************************************************************)
(* The process dies, or open() gives up: what the invariant says of the    *)
(* disk is all that has to survive.                                        *)
(***************************************************************************)
LEMMA DownIInv ==
    ASSUME IInv, Down, UNCHANGED <<wals, history>>,
           sst' \in [SstId -> {"absent", "torn", "complete"}],
           table' \in [SstId -> Table],
           DOMAIN size' = SstId,
           \A i \in SstId : sst'[i] # "complete" => table'[i] = EmptyTable,
           log' \in [WalId -> Seq(WalRecord \cup {nullopt})],
           \A w \in WalId : log'[w] # <<>> => w \in wals
    PROVE  IInv'
<1>. USE BoundsAssumption, EmptyTableLemma DEF IInv, Down, history
<1>1. TypeOK'
  <2>1. drop' \in BOOLEAN
    BY Zenon
  <2>. QED
    BY <2>1 DEF TypeOK, PC
<1>2. Callers' /\ Budget' /\ Output' /\ Inputs' /\ Record' /\ Sequenced'
  BY Zenon DEF Callers, Budget, Output, Inputs, Record, Sequenced, Up, Writing,
         Written, Rotating
<1>3. Files'
  BY Zenon DEF Files, Up, Existing
<1>4. Segments'
  BY Zenon DEF Segments, Up, Recovering
<1>5. PublishedFilesReadable'
  BY Zenon DEF PublishedFilesReadable
<1>. QED
  BY Zenon, <1>1, <1>2, <1>3, <1>4, <1>5

(***************************************************************************)
(* The same, when the disk is as it was.                                   *)
(***************************************************************************)
LEMMA CrashIInv ==
    ASSUME IInv, Down, UNCHANGED <<disk, history>>
    PROVE  IInv'
<1>1. UNCHANGED <<wals, history>> /\ UNCHANGED <<sst, table, size, log>>
  BY Zenon DEF disk, files
<1>2. /\ sst \in [SstId -> {"absent", "torn", "complete"}]
      /\ table \in [SstId -> Table]
      /\ DOMAIN size = SstId
      /\ log \in [WalId -> Seq(WalRecord \cup {nullopt})]
  BY Zenon DEF IInv, TypeOK
<1>3. /\ \A i \in SstId : sst[i] # "complete" => table[i] = EmptyTable
      /\ \A w \in WalId : log[w] # <<>> => w \in wals
  BY Zenon DEF IInv, Files, Segments
<1>. QED
  BY Zenon, <1>1, <1>2, <1>3, DownIInv

(***************************************************************************)
(* Appending a record: the LSN moves past it.                              *)
(***************************************************************************)
LEMMA PutAppendIInv ==
    ASSUME IInv, NEW k \in Key, NEW v \in Value \cup {nullopt}, PutAppend(k, v)
    PROVE  IInv'
<1>. DEFINE r == RecordOf(k, v)
<1>. USE BoundsAssumption, LsnAssumption DEF IInv, files, task, recovery
<1>0. /\ pc = "idle" /\ pc' = "sync" /\ lsn <= MaxLsn
      /\ next_sst + 1 <= MaxSst /\ next_wal <= MaxWal
      /\ lsn' = lsn + 1
      /\ log' = [log EXCEPT ![writer] = Append(@, r)]
      /\ op' = r
      /\ kv' = [kv EXCEPT ![k] = v]
      /\ unsure' = unsure \ {k}
      /\ UNCHANGED <<sst, table, size, wals, memtable, next_wal, next_sst,
                     writer, version, caller, out, inputs, drop, old_wals,
                     unread, pos, highest>>
  BY Zenon DEF PutAppend, Room
<1>1. r \in WalRecord /\ r.sequence = lsn
  BY <1>0 DEF RecordOf, WalRecord, Sequence, TypeOK
<1>. HIDE DEF r
<1>2. ~Recovering /\ ~Recovering' /\ Up /\ Up'
  BY Zenon, <1>0 DEF Recovering, Up, Callers
<1>3. writer \in WalId /\ writer \in wals
  BY Zenon, <1>2 DEF Segments, TypeOK
<1>4. /\ Append(log[writer], r) \in Seq(WalRecord \cup {nullopt})
      /\ \A n \in DOMAIN Append(log[writer], r) :
            \/ n \in DOMAIN log[writer] /\ Append(log[writer], r)[n] = log[writer][n]
            \/ Append(log[writer], r)[n] = r
  BY SMTT(30), <1>1, <1>3, AppendLemma DEF TypeOK
<1>5. /\ log' \in [WalId -> Seq(WalRecord \cup {nullopt})]
      /\ \A w \in WalId : \A n \in DOMAIN log'[w] :
            \/ n \in DOMAIN log[w] /\ log'[w][n] = log[w][n]
            \/ log'[w][n] = r
      /\ \A w \in WalId \ {writer} : log'[w] = log[w]
  BY Zenon, <1>0, <1>3, <1>4 DEF TypeOK
<1>6. TypeOK'
  BY <1>0, <1>1, <1>5 DEF TypeOK, PC
<1>7. Callers' /\ Budget' /\ Files' /\ Output' /\ Inputs' /\ Record'
  BY Zenon, <1>0, <1>1, <1>2 DEF Callers, Budget, Up, Rotating, Files, Existing,
     Output, Writing, Written, Inputs, Record
<1>8. Segments'
  BY <1>0, <1>2, <1>3, <1>5 DEF Segments, TypeOK
<1>9. Sequenced'
  <2>. DEFINE BelowNext(s) == s < lsn' \/ s <= highest'
  <2>1. \A s \in Nat : Below(s) => BelowNext(s)
    BY <1>0 DEF Below, TypeOK
  <2>2. BelowNext(r.sequence)
    BY <1>0, <1>1 DEF TypeOK
  <2>3. \A j \in KeysOf(memtable) : memtable[j].sequence \in Nat
    BY Zenon, EntryLemma DEF TypeOK
  <2>4. \A i \in SstId : \A j \in KeysOf(table[i]) : table[i][j].sequence \in Nat
    BY Zenon, EntryLemma DEF TypeOK
  <2>5. \A w \in WalId : \A n \in DOMAIN log[w] :
            log[w][n] # nullopt => log[w][n].sequence \in Nat
    BY DEF TypeOK, WalRecord, Sequence
  <2>6. /\ \A j \in KeysOf(memtable) : BelowNext(memtable[j].sequence)
        /\ \A i \in SstId : \A j \in KeysOf(table[i]) : BelowNext(table[i][j].sequence)
        /\ \A w \in WalId : \A n \in DOMAIN log[w] :
              log[w][n] # nullopt => BelowNext(log[w][n].sequence)
    BY Zenon, <1>2, <2>1, <2>3, <2>4, <2>5 DEF Sequenced
  <2>. HIDE DEF BelowNext
  <2>7. \A w \in WalId : \A n \in DOMAIN log'[w] :
            log'[w][n] # nullopt => BelowNext(log'[w][n].sequence)
    BY Zenon, <1>5, <2>2, <2>6
  <2>. QED
    BY Zenon, <1>0, <2>2, <2>6, <2>7 DEF Sequenced, KeysOf, Below, BelowNext
<1>10. PublishedFilesReadable'
  BY Zenon, <1>0 DEF PublishedFilesReadable, Complete
<1>. QED
  BY Zenon, <1>6, <1>7, <1>8, <1>9, <1>10

(***************************************************************************)
(* append() fails: the LSN has moved on, and the segment has a torn tail   *)
(* at most.                                                                *)
(***************************************************************************)
LEMMA PutAppendFailsIInv ==
    ASSUME IInv, NEW k \in Key, NEW v \in Value \cup {nullopt}, PutAppendFails(k, v)
    PROVE  IInv'
<1>. USE BoundsAssumption, LsnAssumption, EmptyTableLemma DEF IInv,
         PutAppendFails, files, disk, engine, task, recovery, history
<1>1. ~Recovering /\ Up /\ writer \in WalId /\ writer \in wals
  BY Zenon DEF Recovering, Up, Callers, Segments, TypeOK
<1>2. /\ log' \in [WalId -> Seq(WalRecord \cup {nullopt})]
      /\ \A w \in WalId : \A n \in DOMAIN log'[w] :
            \/ n \in DOMAIN log[w] /\ log'[w][n] = log[w][n]
            \/ log'[w][n] = nullopt
      /\ \A w \in WalId \ {writer} : log'[w] = log[w]
  <2>1. CASE UNCHANGED log
    BY Zenon, <2>1 DEF TypeOK
  <2>2. CASE log' = [log EXCEPT ![writer] = Append(@, nullopt)]
    <3>1. /\ Append(log[writer], nullopt) \in Seq(WalRecord \cup {nullopt})
          /\ \A n \in DOMAIN Append(log[writer], nullopt) :
                \/ /\ n \in DOMAIN log[writer]
                   /\ Append(log[writer], nullopt)[n] = log[writer][n]
                \/ Append(log[writer], nullopt)[n] = nullopt
      BY SMTT(30), <1>1, AppendLemma DEF TypeOK
    <3>. QED
      BY <1>1, <2>2, <3>1, Zenon DEF TypeOK
  <2>. QED
    BY Zenon, <2>1, <2>2
<1>3. TypeOK'
  BY <1>2 DEF TypeOK, PC
<1>4. Callers' /\ Budget' /\ Inputs' /\ Record'
  BY Zenon DEF Callers, TypeOK, Budget, Up, Rotating, Inputs, Output, Writing,
     Written, Record
<1>5. Files'
  BY Zenon DEF TypeOK, Files, Up, Existing, Output, Writing, Written, Budget
<1>6. Output'
  BY Zenon DEF TypeOK, Output, Writing, Written, Files, Existing, Complete,
     PublishedFilesReadable, Budget, Up
<1>7. Segments'
  BY <1>1, <1>2 DEF TypeOK, Segments, Up, Recovering
<1>8. Sequenced'
  <2>1. \A j \in KeysOf(memtable) : memtable[j].sequence \in Nat
    BY Zenon, EntryLemma DEF TypeOK
  <2>2. \A i \in SstId : \A j \in KeysOf(table[i]) : table[i][j].sequence \in Nat
    BY Zenon, EntryLemma DEF TypeOK
  <2>3. \A w \in WalId : \A n \in DOMAIN log[w] :
            log[w][n] # nullopt => log[w][n].sequence \in Nat
    BY DEF TypeOK, WalRecord, Sequence
  <2>4. \A s \in Nat : Below(s) => s < lsn' \/ s <= highest'
    BY DEF Below, TypeOK
  <2>5. \A w \in WalId : \A n \in DOMAIN log'[w] : log'[w][n] # nullopt =>
            \/ log'[w][n].sequence < lsn'
            \/ log'[w][n].sequence <= highest'
    BY Zenon, <1>1, <1>2, <2>3, <2>4 DEF Sequenced
  <2>. QED
    BY Zenon, <1>1, <2>1, <2>2, <2>4, <2>5 DEF Sequenced, Below, Up, KeysOf
<1>9. PublishedFilesReadable'
  BY Zenon DEF TypeOK, PublishedFilesReadable, Complete, Output, Writing, Written,
     Inputs, Files, Existing, Up, Budget
<1>. QED
  BY Zenon, <1>3, <1>4, <1>5, <1>6, <1>7, <1>8, <1>9

(***************************************************************************)
(* The process dies inside append(): only the log has changed.             *)
(***************************************************************************)
LEMMA PutAppendTornIInv ==
    ASSUME IInv, PutAppendTorn
    PROVE  IInv'
<1>1. writer \in WalId /\ writer \in wals
  BY Zenon DEF PutAppendTorn, IInv, TypeOK, Segments, Up
<1>2. log' = [log EXCEPT ![writer] = Append(@, nullopt)]
  BY Zenon DEF PutAppendTorn
<1>3. Append(log[writer], nullopt) \in Seq(WalRecord \cup {nullopt})
  BY Zenon, <1>1, AppendLemma DEF IInv, TypeOK
<1>4. /\ log' \in [WalId -> Seq(WalRecord \cup {nullopt})]
      /\ \A w \in WalId : log'[w] # <<>> => w \in wals
  BY Zenon, <1>1, <1>2, <1>3 DEF IInv, TypeOK, Segments
<1>5. /\ sst' \in [SstId -> {"absent", "torn", "complete"}]
      /\ table' \in [SstId -> Table]
      /\ DOMAIN size' = SstId
      /\ \A i \in SstId : sst'[i] # "complete" => table'[i] = EmptyTable
  BY Zenon DEF PutAppendTorn, files, IInv, TypeOK, Files
<1>6. Down /\ UNCHANGED <<wals, history>>
  BY Zenon DEF PutAppendTorn
<1>. QED
  BY Zenon, <1>4, <1>5, <1>6, DownIInv

(***************************************************************************)
(* The record of put() goes to the memtable; its sequence is below the LSN *)
(* already.                                                                *)
(***************************************************************************)
LEMMA PutApplyIInv ==
    ASSUME IInv, PutApply
    PROVE  IInv'
<1>. USE BoundsAssumption, LsnAssumption, EmptyTableLemma DEF IInv, PutApply,
         files, disk, engine, task, recovery, history
<1>1. op \in WalRecord /\ op.sequence \in Nat
  BY DEF Record, WalRecord, Sequence
<1>2. /\ memtable' \in Table
      /\ \A k \in KeysOf(memtable') :
            \/ k \in KeysOf(memtable) /\ memtable'[k] = memtable[k]
            \/ memtable'[k].sequence = op.sequence
  BY <1>1, ApplyRecordLemma DEF TypeOK
<1>3. ~Recovering /\ ~Recovering' /\ Up
  BY Zenon DEF Recovering, Up, Callers
<1>4. TypeOK'
  BY Zenon, <1>2 DEF TypeOK, PC
<1>5. Callers' /\ Budget' /\ Inputs' /\ Record'
  BY Zenon DEF Callers, TypeOK, Budget, Up, Rotating, Inputs, Output, Writing,
     Written, Record
<1>6. Files'
  BY Zenon DEF TypeOK, Files, Up, Existing, Output, Writing, Written, Budget
<1>7. Output'
  BY Zenon DEF TypeOK, Output, Writing, Written, Files, Existing, Complete,
     PublishedFilesReadable, Budget, Up
<1>8. Segments'
  BY Zenon DEF TypeOK, Segments, Up, Recovering, Callers, Budget, Rotating
<1>9. Sequenced'
  <2>1. \A k \in KeysOf(memtable') : \/ memtable'[k].sequence < lsn
                                     \/ memtable'[k].sequence <= highest
    BY <1>2, <1>3, Zenon DEF Sequenced, Below
  <2>. QED
    BY <1>3, <2>1, Zenon DEF Sequenced, Below, KeysOf
<1>10. PublishedFilesReadable'
  BY Zenon DEF TypeOK, PublishedFilesReadable, Complete, Output, Writing, Written,
     Inputs, Files, Existing, Up, Budget
<1>. QED
  BY Zenon, <1>4, <1>5, <1>6, <1>7, <1>8, <1>9, <1>10

(***************************************************************************)
(* sync() fails: the record stays in the log.                              *)
(***************************************************************************)
LEMMA PutSyncFailsIInv ==
    ASSUME IInv, PutSyncFails
    PROVE  IInv'
<1>. USE BoundsAssumption, LsnAssumption, EmptyTableLemma DEF IInv,
         PutSyncFails, files, disk, engine, task, recovery, history
<1>1. TypeOK'
  <2>1. op.key \in Key
    BY Zenon DEF Record, WalRecord
  <2>. QED
    BY Zenon, <2>1 DEF TypeOK, PC
<1>2. Callers' /\ Budget' /\ Inputs' /\ Record'
  BY Zenon DEF Callers, TypeOK, Budget, Up, Rotating, Inputs, Output, Writing,
     Written, Record
<1>3. Files'
  BY Zenon DEF TypeOK, Files, Up, Existing, Output, Writing, Written, Budget
<1>4. Output'
  BY Zenon DEF TypeOK, Output, Writing, Written, Files, Existing, Complete,
     PublishedFilesReadable, Budget, Up
<1>5. Segments'
  BY Zenon DEF TypeOK, Segments, Up, Recovering, Callers, Budget, Rotating
<1>6. Sequenced'
  BY Zenon DEF TypeOK, Sequenced, Up, Recovering, Callers, Below, Segments
<1>7. PublishedFilesReadable'
  BY Zenon DEF TypeOK, PublishedFilesReadable, Complete, Output, Writing, Written,
     Inputs, Files, Existing, Up, Budget
<1>. QED
  BY Zenon, <1>1, <1>2, <1>3, <1>4, <1>5, <1>6, <1>7

-----------------------------------------------------------------------------
(***************************************************************************)
(* flush().                                                                *)
(***************************************************************************)

(***************************************************************************)
(* flush() is called by the client.                                        *)
(***************************************************************************)
LEMMA FlushCallIInv ==
    ASSUME IInv, FlushCall
    PROVE  IInv'
<1>. USE BoundsAssumption, LsnAssumption, EmptyTableLemma DEF IInv,
         FlushCall, Room, files, disk, engine, task, recovery, history
<1>1. TypeOK'
  BY Zenon DEF TypeOK, PC
<1>2. Callers' /\ Budget' /\ Inputs' /\ Record'
  BY Zenon DEF Callers, TypeOK, Budget, Up, Rotating, Inputs, Output, Writing,
     Written, Record
<1>3. Files'
  BY Zenon DEF TypeOK, Files, Up, Existing, Output, Writing, Written, Budget
<1>4. Output'
  BY Zenon DEF TypeOK, Output, Writing, Written, Files, Existing, Complete,
     PublishedFilesReadable, Budget, Up
<1>5. Segments'
  BY Zenon DEF TypeOK, Segments, Up, Recovering, Callers, Budget, Rotating
<1>6. Sequenced'
  BY Zenon DEF TypeOK, Sequenced, Up, Recovering, Callers, Below, Segments
<1>7. PublishedFilesReadable'
  BY Zenon DEF TypeOK, PublishedFilesReadable, Complete, Output, Writing, Written,
     Inputs, Files, Existing, Up, Budget
<1>. QED
  BY Zenon, <1>1, <1>2, <1>3, <1>4, <1>5, <1>6, <1>7

(***************************************************************************)
(* flush() mints an id: that of no file on disk.                           *)
(***************************************************************************)
LEMMA FlushCreateIInv ==
    ASSUME IInv, FlushCreate
    PROVE  IInv'
<1>. USE BoundsAssumption, LsnAssumption, EmptyTableLemma DEF IInv,
         FlushCreate, Resume, files, disk, engine, task, recovery, history
<1>1. next_sst <= MaxSst /\ Up
  BY DEF Budget, TypeOK, Up
<1>2. /\ next_sst \in SstId
      /\ next_sst \notin version
      /\ sst[next_sst] = "absent"
      /\ table[next_sst] = EmptyTable
  BY Zenon, <1>1, NewIdLemma
<1>3. TypeOK'
  <2>1. sst' \in [SstId -> {"absent", "torn", "complete"}]
    BY Zenon, <1>2 DEF TypeOK
  <2>2. next_sst' \in 0..MaxSst + 1 /\ out' \in 0..MaxSst /\ pc' \in PC
    BY <1>2 DEF TypeOK, PC, SstId
  <2>. QED
    BY Zenon, <2>1, <2>2 DEF TypeOK
<1>4. Callers' /\ Inputs' /\ Record'
  BY Zenon DEF Callers, TypeOK, Inputs, Output, Writing, Written, Record
<1>5. Budget'
  BY <1>1, <1>2 DEF TypeOK, Budget, Callers, Up, Rotating, SstId
<1>6. Files'
  BY <1>1, <1>2 DEF TypeOK, Files, Existing, Up, SstId
<1>7. Output'
  BY <1>1, <1>2 DEF TypeOK, Output, Writing, Written, SstId
<1>8. Segments'
  BY Zenon DEF TypeOK, Segments, Up, Recovering, Callers, Budget, Rotating
<1>9. Sequenced'
  BY Zenon DEF TypeOK, Sequenced, Up, Recovering, Callers, Below, Segments
<1>10. PublishedFilesReadable'
  BY Zenon, <1>2 DEF TypeOK, PublishedFilesReadable, Complete
<1>. QED
  BY Zenon, <1>3, <1>4, <1>5, <1>6, <1>7, <1>8, <1>9, <1>10

(***************************************************************************)
(* The file becomes complete, with entries of the memtable.                *)
(***************************************************************************)
LEMMA FlushWriteIInv ==
    ASSUME IInv, FlushWrite
    PROVE  IInv'
<1>. USE BoundsAssumption, LsnAssumption, EmptyTableLemma DEF IInv,
         FlushWrite, Finished, files, disk, engine, task, recovery, history
<1>1. TypeOK'
  BY Zenon DEF TypeOK, PC
<1>2. Callers' /\ Budget' /\ Inputs' /\ Record'
  BY Zenon DEF Callers, TypeOK, Budget, Up, Rotating, Inputs, Output, Writing,
     Written, Record
<1>3. Files'
  BY Zenon DEF TypeOK, Files, Up, Existing, Output, Writing, Written, Budget
<1>4. Output'
  BY Zenon DEF TypeOK, Output, Writing, Written, Files, Existing, Complete,
     PublishedFilesReadable, Budget, Up
<1>5. Segments'
  BY Zenon DEF TypeOK, Segments, Up, Recovering, Callers, Budget, Rotating
<1>6. Sequenced'
  BY Zenon DEF TypeOK, Sequenced, Up, Recovering, Callers, Below, Segments
<1>7. PublishedFilesReadable'
  BY Zenon DEF TypeOK, PublishedFilesReadable, Complete, Output, Writing, Written,
     Inputs, Files, Existing, Up, Budget
<1>. QED
  BY Zenon, <1>1, <1>2, <1>3, <1>4, <1>5, <1>6, <1>7

(***************************************************************************)
(* flush() fails for recover(): open() gives up, whatever became of the    *)
(* file it was writing.                                                    *)
(***************************************************************************)
LEMMA FlushGivesUpIInv ==
    ASSUME IInv, Down, UNCHANGED <<wals, log, history>>,
           sst' \in [SstId -> {"absent", "torn", "complete"}],
           table' \in [SstId -> Table],
           DOMAIN size' = SstId,
           \A i \in SstId : sst'[i] # "complete" => table'[i] = EmptyTable
    PROVE  IInv'
<1>1. /\ log' \in [WalId -> Seq(WalRecord \cup {nullopt})]
      /\ \A w \in WalId : log'[w] # <<>> => w \in wals
  BY Zenon DEF IInv, TypeOK, Segments
<1>. QED
  BY Zenon, <1>1, DownIInv

(***************************************************************************)
(* create(), add() or finish() fails: what is left of the file is not      *)
(* published.                                                              *)
(***************************************************************************)
LEMMA FlushWriteFailsIInv ==
    ASSUME IInv, FlushWriteFails
    PROVE  IInv'
<1>. USE BoundsAssumption, LsnAssumption, EmptyTableLemma DEF IInv,
         FlushWriteFails, FlushFailed, files, disk, engine, task, recovery,
         history
<1>1. /\ sst' \in [SstId -> {"absent", "torn", "complete"}]
      /\ table' \in [SstId -> Table]
      /\ DOMAIN size' = SstId
      /\ \A i \in SstId : sst'[i] # "complete" => table'[i] = EmptyTable
      /\ \A i \in SstId : sst'[i] # "absent" => i < next_sst
      /\ \A i \in version : sst'[i] = "complete"
  BY Zenon DEF TypeOK, Files, Output, Writing, Existing, Up, PublishedFilesReadable, Complete
<1>2. CASE caller = "recover"
  BY Zenon, <1>1, <1>2, FlushGivesUpIInv
<1>3. CASE caller # "recover"
  <2>. USE <1>3
  <2>1. TypeOK'
    BY <1>1 DEF TypeOK, PC
  <2>2. Callers' /\ Budget' /\ Inputs' /\ Record'
    BY Zenon DEF Callers, TypeOK, Budget, Up, Rotating, Inputs, Output, Writing,
       Written, Record
  <2>3. Files'
    BY <1>1 DEF Files, Up, Existing
  <2>4. Output'
    BY Zenon DEF Output, Writing, Written
  <2>5. Segments'
    BY Zenon DEF TypeOK, Segments, Up, Recovering, Callers, Budget, Rotating
  <2>6. Sequenced'
    BY DEF TypeOK, Sequenced, Up, Recovering, Callers, Below, Segments
  <2>7. PublishedFilesReadable'
    BY Zenon, <1>1 DEF TypeOK, PublishedFilesReadable, Complete
  <2>. QED
    BY Zenon, <2>1, <2>2, <2>3, <2>4, <2>5, <2>6, <2>7
<1>. QED
  BY Zenon, <1>2, <1>3

(***************************************************************************)
(* finish() fails after the file is complete: it holds the memtable's      *)
(* entries, and is not published.                                          *)
(***************************************************************************)
LEMMA FlushSyncFailsIInv ==
    ASSUME IInv, FlushSyncFails
    PROVE  IInv'
<1>. USE BoundsAssumption, LsnAssumption, EmptyTableLemma DEF IInv,
         FlushSyncFails, FlushFailed, Finished, files, disk, engine, task,
         recovery, history
<1>1. /\ sst' \in [SstId -> {"absent", "torn", "complete"}]
      /\ table' \in [SstId -> Table]
      /\ DOMAIN size' = SstId
      /\ \A i \in SstId : sst'[i] # "complete" => table'[i] = EmptyTable
      /\ \A i \in SstId : sst'[i] # "absent" => i < next_sst
      /\ \A i \in version : sst'[i] = "complete"
  BY Zenon DEF TypeOK, Files, Output, Writing, Existing, Up, PublishedFilesReadable, Complete
<1>2. CASE caller = "recover"
  BY Zenon, <1>1, <1>2, FlushGivesUpIInv
<1>3. CASE caller # "recover"
  <2>. USE <1>3
  <2>1. TypeOK'
    BY <1>1 DEF TypeOK, PC
  <2>2. Callers' /\ Budget' /\ Inputs' /\ Record'
    BY Zenon DEF Callers, TypeOK, Budget, Up, Rotating, Inputs, Output, Writing,
       Written, Record
  <2>3. Files'
    BY <1>1 DEF Files, Up, Existing
  <2>4. Output'
    BY Zenon DEF Output, Writing, Written
  <2>5. Segments'
    BY Zenon DEF TypeOK, Segments, Up, Recovering, Callers, Budget, Rotating
  <2>6. Sequenced'
    BY DEF TypeOK, Sequenced, Up, Recovering, Callers, Below, Segments
  <2>7. PublishedFilesReadable'
    BY Zenon, <1>1 DEF TypeOK, PublishedFilesReadable, Complete
  <2>. QED
    BY Zenon, <2>1, <2>2, <2>3, <2>4, <2>5, <2>6, <2>7
<1>. QED
  BY Zenon, <1>2, <1>3

(***************************************************************************)
(* The file is published, the writer moves to the segment minted, and the  *)
(* memtable is emptied.                                                    *)
(***************************************************************************)
LEMMA FlushRotateIInv ==
    ASSUME IInv, FlushRotate
    PROVE  IInv'
<1>. USE BoundsAssumption, LsnAssumption, EmptyTableLemma DEF IInv,
         FlushRotate, files, disk, engine, task, recovery, history
<1>1. TypeOK'
  <2>1. next_wal \in WalId /\ out \in SstId
    BY DEF TypeOK, Budget, Rotating, Up, Output, Written, WalId
  <2>. QED
    BY <2>1 DEF TypeOK, PC, WalId
<1>2. Callers' /\ Budget' /\ Inputs' /\ Record'
  BY DEF Callers, TypeOK, Budget, Up, Rotating, Inputs, Output, Writing,
     Written, Record
<1>3. Files'
  BY Zenon DEF TypeOK, Files, Up, Existing, Output, Writing, Written, Budget
<1>4. Output'
  BY Zenon DEF TypeOK, Output, Writing, Written, Files, Existing, Complete,
     PublishedFilesReadable, Budget, Up
<1>5. Segments'
  <2>1. next_wal \in WalId
    BY DEF TypeOK, Budget, Rotating, Up, WalId
  <2>. QED
    BY <2>1 DEF TypeOK, Segments, Up, Recovering, WalId
<1>6. Sequenced'
  BY Zenon DEF TypeOK, Sequenced, Up, Recovering, Callers, Below, Segments
<1>7. PublishedFilesReadable'
  BY Zenon DEF TypeOK, PublishedFilesReadable, Complete, Output, Writing, Written,
     Inputs, Files, Existing, Up, Budget
<1>. QED
  BY Zenon, <1>1, <1>2, <1>3, <1>4, <1>5, <1>6, <1>7

(***************************************************************************)
(* The segment cannot be created: nothing is published.                    *)
(***************************************************************************)
LEMMA FlushRotateFailsIInv ==
    ASSUME IInv, FlushRotateFails
    PROVE  IInv'
<1>1. CASE caller = "recover"
  BY Zenon, <1>1, CrashIInv DEF FlushRotateFails
<1>2. CASE caller # "recover"
  <2>. USE <1>2, BoundsAssumption DEF IInv, FlushRotateFails, disk, files, task,
           recovery, history
  <2>1. TypeOK'
    BY DEF TypeOK, PC, Budget, Rotating
  <2>2. Callers' /\ Budget' /\ Output' /\ Inputs' /\ Record'
    BY DEF Callers, Budget, Output, Inputs, Record, Up, Writing, Written,
           Rotating, TypeOK
  <2>3. Files'
    BY Zenon DEF Files, Up, Existing
  <2>4. Segments'
    BY Zenon DEF Segments, Up, Recovering, TypeOK
  <2>5. Sequenced'
    BY Zenon DEF Sequenced, Up, Recovering, Below
  <2>6. PublishedFilesReadable'
    BY Zenon DEF PublishedFilesReadable, Complete
  <2>. QED
    BY Zenon, <2>1, <2>2, <2>3, <2>4, <2>5, <2>6
<1>. QED
  BY Zenon, <1>1, <1>2

(***************************************************************************)
(* The old segment goes; the writer's is never the one removed.            *)
(***************************************************************************)
LEMMA FlushRemoveWalIInv ==
    ASSUME IInv, FlushRemoveWal
    PROVE  IInv'
<1>. USE BoundsAssumption, LsnAssumption, EmptyTableLemma DEF IInv,
         FlushRemoveWal, OldWal, files, disk, engine, task, recovery, history
<1>1. TypeOK'
  BY DEF TypeOK, PC
<1>2. Callers' /\ Budget' /\ Inputs' /\ Record'
  BY Zenon DEF Callers, TypeOK, Budget, Up, Rotating, Inputs, Output, Writing,
     Written, Record
<1>3. Files'
  BY Zenon DEF TypeOK, Files, Up, Existing, Output, Writing, Written, Budget
<1>4. Output'
  BY Zenon DEF TypeOK, Output, Writing, Written, Files, Existing, Complete,
     PublishedFilesReadable, Budget, Up
<1>5. Segments'
  BY SMTT(30) DEF TypeOK, Segments, Up, Recovering, Callers, Budget, Rotating
<1>6. Sequenced'
  BY DEF TypeOK, Sequenced, Up, Recovering, Callers, Below, Segments
<1>7. PublishedFilesReadable'
  BY Zenon DEF TypeOK, PublishedFilesReadable, Complete, Output, Writing, Written,
     Inputs, Files, Existing, Up, Budget
<1>. QED
  BY Zenon, <1>1, <1>2, <1>3, <1>4, <1>5, <1>6, <1>7

(***************************************************************************)
(* fs::remove throws out of flush().                                       *)
(***************************************************************************)
LEMMA FlushRemoveWalThrowsIInv ==
    ASSUME IInv, FlushRemoveWalThrows
    PROVE  IInv'
<1>1. CASE caller = "recover"
  BY Zenon, <1>1, CrashIInv DEF FlushRemoveWalThrows, FlushFailed
<1>2. CASE caller # "recover"
  <2>. USE <1>2 DEF IInv, FlushRemoveWalThrows, FlushFailed, disk, files, engine,
           task, recovery, history
  <2>1. TypeOK'
    BY Zenon DEF TypeOK, PC
  <2>2. Callers' /\ Budget' /\ Output' /\ Inputs' /\ Record'
    BY Zenon DEF Callers, Budget, Output, Inputs, Record, Up, Writing, Written, Rotating
  <2>3. Files' /\ PublishedFilesReadable'
    BY Zenon DEF Files, Up, Existing, PublishedFilesReadable, Complete
  <2>4. Segments'
    BY Zenon DEF Segments, Up, Recovering
  <2>5. Sequenced'
    BY Zenon DEF Sequenced, Up, Recovering, Below
  <2>. QED
    BY Zenon, <2>1, <2>2, <2>3, <2>4, <2>5
<1>. QED
  BY Zenon, <1>1, <1>2

-----------------------------------------------------------------------------
(***************************************************************************)
(* Compaction.                                                             *)
(***************************************************************************)

(***************************************************************************)
(* The policy's candidate starts a task, or there is nothing to do.        *)
(***************************************************************************)
LEMMA DoCompactWorkIInv ==
    ASSUME IInv, DoCompactWork
    PROVE  IInv'
<1>. USE BoundsAssumption, LsnAssumption, EmptyTableLemma DEF IInv, files,
         disk, engine, task, recovery, history
<1>1. next_sst <= MaxSst /\ Up /\ pc = "compact"
  BY Zenon DEF Budget, TypeOK, Up, DoCompactWork
<1>2. /\ next_sst \in SstId
      /\ next_sst \notin version
      /\ sst[next_sst] = "absent"
      /\ table[next_sst] = EmptyTable
  BY Zenon, <1>1, NewIdLemma
<1>3. /\ UNCHANGED <<table, size, wals, log, memtable, lsn, next_wal, writer,
                     version, caller, op, recovery, history>>
      /\ \/ /\ pc' \in {"clean", "idle"}
            /\ pc' = "clean" <=> caller = "recover"
            /\ UNCHANGED <<next_sst, out, inputs, drop, sst>>
         \/ /\ pc' = "merge"
            /\ next_sst' = next_sst + 1
            /\ out' = next_sst
            /\ inputs' \subseteq version
            /\ drop' \in BOOLEAN
            /\ sst' = [sst EXCEPT ![next_sst] = "torn"]
  BY DEF DoCompactWork, Candidates, StartTask, Resume, TypeOK
<1>4. TypeOK'
  <2>1. drop' \in BOOLEAN
    BY <1>3, Zenon DEF TypeOK
  <2>2. inputs' \subseteq SstId /\ pc' \in PC
    BY Zenon, <1>1, <1>3 DEF TypeOK, PC
  <2>3. sst' \in [SstId -> {"absent", "torn", "complete"}]
    BY Zenon, <1>2, <1>3 DEF TypeOK
  <2>. QED
    BY <1>1, <1>2, <1>3, <2>1, <2>2, <2>3 DEF TypeOK, SstId
<1>5. Callers'
  BY Zenon, <1>3 DEF Callers
<1>6. Budget'
  BY SMTT(30), <1>1, <1>2, <1>3 DEF TypeOK, Budget, Callers, Up, Rotating, SstId
<1>7. Files'
  BY SMTT(30), <1>1, <1>2, <1>3 DEF TypeOK, Files, Existing, Up, SstId
<1>8. Output'
  BY <1>1, <1>2, <1>3 DEF TypeOK, Output, Writing, Written, SstId
<1>9. Inputs'
  BY Zenon, <1>3 DEF Inputs
<1>10. Record'
  BY Zenon, <1>3 DEF Record
<1>11. Segments'
  BY Zenon, <1>1, <1>3 DEF TypeOK, Segments, Up, Recovering, Callers, Rotating
<1>12. Sequenced'
  BY Zenon, <1>1, <1>3 DEF TypeOK, Sequenced, Up, Recovering, Callers, Below
<1>13. PublishedFilesReadable'
  BY ZenonT(30), <1>2, <1>3 DEF TypeOK, PublishedFilesReadable, Complete
<1>. QED
  BY Zenon, <1>4, <1>5, <1>6, <1>7, <1>8, <1>9, <1>10, <1>11, <1>12, <1>13

(***************************************************************************)
(* compact_now() starts a task on every live file.                         *)
(***************************************************************************)
LEMMA CompactNowIInv ==
    ASSUME IInv, CompactNow
    PROVE  IInv'
<1>. USE BoundsAssumption, LsnAssumption, EmptyTableLemma DEF IInv, files,
         disk, engine, task, recovery, history
<1>1. next_sst <= MaxSst /\ Up /\ pc = "idle"
  BY DEF Budget, TypeOK, Up, CompactNow, Room
<1>2. /\ next_sst \in SstId
      /\ next_sst \notin version
      /\ sst[next_sst] = "absent"
      /\ table[next_sst] = EmptyTable
  BY Zenon, <1>1, NewIdLemma
<1>3. /\ UNCHANGED <<table, size, wals, log, memtable, lsn, next_wal, writer,
                     version, op, recovery, history>>
      /\ pc' = "merge" /\ caller' = "client"
      /\ next_sst' = next_sst + 1
      /\ out' = next_sst
      /\ inputs' = version
      /\ drop' = TRUE
      /\ sst' = [sst EXCEPT ![next_sst] = "torn"]
  BY Zenon DEF CompactNow, StartTask
<1>4. TypeOK'
  <2>1. drop' \in BOOLEAN
    BY <1>3, Zenon DEF TypeOK
  <2>2. inputs' \subseteq SstId /\ pc' \in PC
    BY Zenon, <1>1, <1>3 DEF TypeOK, PC
  <2>3. sst' \in [SstId -> {"absent", "torn", "complete"}]
    BY Zenon, <1>2, <1>3 DEF TypeOK
  <2>. QED
    BY <1>1, <1>2, <1>3, <2>1, <2>2, <2>3 DEF TypeOK, SstId
<1>5. Callers'
  BY Zenon, <1>3 DEF Callers
<1>6. Budget'
  BY SMTT(30), <1>1, <1>2, <1>3 DEF TypeOK, Budget, Callers, Up, Rotating, SstId
<1>7. Files'
  BY SMTT(30), <1>1, <1>2, <1>3 DEF TypeOK, Files, Existing, Up, SstId
<1>8. Output'
  BY <1>1, <1>2, <1>3 DEF TypeOK, Output, Writing, Written, SstId
<1>9. Inputs'
  BY Zenon, <1>3 DEF Inputs
<1>10. Record'
  BY Zenon, <1>3 DEF Record
<1>11. Segments'
  BY Zenon, <1>1, <1>3 DEF TypeOK, Segments, Up, Recovering, Callers, Rotating
<1>12. Sequenced'
  BY Zenon, <1>1, <1>3 DEF TypeOK, Sequenced, Up, Recovering, Callers, Below
<1>13. PublishedFilesReadable'
  BY Zenon, <1>2, <1>3 DEF TypeOK, PublishedFilesReadable, Complete
<1>. QED
  BY Zenon, <1>4, <1>5, <1>6, <1>7, <1>8, <1>9, <1>10, <1>11, <1>12, <1>13

(***************************************************************************)
(* The output is complete, with entries of the inputs: common to a merge   *)
(* that goes through, one cut short, and one whose sync fails.             *)
(***************************************************************************)
LEMMA MergedOutputIInv ==
    ASSUME IInv, NEW ks, NEW n, pc = "merge",
           Finished(Merged(inputs, drop, ks), n),
           pc' = "install" \/ Resume,
           UNCHANGED <<wals, log, engine, caller, op, task, recovery, history>>
    PROVE  IInv'
<1>. DEFINE m == Merged(inputs, drop, ks)
<1>. USE DEF IInv, engine, task, recovery, history
<1>1. /\ m \in Table
      /\ \A k \in KeysOf(m) : \E i \in inputs : /\ k \in KeysOf(table[i])
                                             /\ m[k] = table[i][k]
  <2>1. table \in [SstId -> Table] /\ inputs \in SUBSET SstId
    BY Zenon DEF TypeOK
  <2>. HIDE DEF IInv
  <2>. QED
    BY <2>1, MergedLemma
<1>2. /\ sst' = [sst EXCEPT ![out] = "complete"]
      /\ table' = [table EXCEPT ![out] = m]
      /\ DOMAIN size' = DOMAIN size
  BY Zenon DEF Finished
<1>. HIDE DEF m
<1>3. out \in SstId /\ out < next_sst /\ out \notin version /\ Up
  BY Zenon DEF Output, Writing, Up
<1>4. /\ pc' \in {"install", "clean", "idle"}
      /\ pc' = "clean" => caller = "recover"
      /\ pc' = "idle" => caller # "recover"
  BY Zenon DEF Resume
<1>5. TypeOK'
  BY Zenon, <1>1, <1>2, <1>3, <1>4 DEF TypeOK, PC
<1>6. Callers' /\ Budget' /\ Inputs' /\ Record'
  BY Zenon, <1>4 DEF Callers, Budget, Up, Rotating, Inputs, Record
<1>7. Files'
  BY Zenon, <1>1, <1>2, <1>3 DEF TypeOK, Files, Existing, Up
<1>8. Output'
  BY Zenon, <1>2, <1>3, <1>4 DEF TypeOK, Output, Writing, Written
<1>9. Segments'
  BY Zenon, <1>3, <1>4 DEF Segments, Up, Recovering
<1>10. Sequenced'
  <2>1. \A k \in KeysOf(m) : Below(m[k].sequence)
    BY Zenon, <1>1, <1>3 DEF Sequenced, TypeOK
  <2>2. \A i \in SstId : \A k \in KeysOf(table'[i]) :
            table'[i][k].sequence < lsn \/ table'[i][k].sequence <= highest
    BY Zenon, <1>2, <1>3, <2>1 DEF Sequenced, TypeOK, Below
  <2>. QED
    BY Zenon, <1>3, <1>4, <2>2 DEF Sequenced, Below, KeysOf, Up, Recovering
<1>11. PublishedFilesReadable'
  BY Zenon, <1>2, <1>3 DEF TypeOK, PublishedFilesReadable, Complete
<1>. QED
  BY Zenon, <1>5, <1>6, <1>7, <1>8, <1>9, <1>10, <1>11

(***************************************************************************)
(* The three outcomes of the merge loop.                                   *)
(***************************************************************************)
LEMMA CompactWriteIInv ==
    ASSUME IInv,
           CompactWrite \/ CompactSyncFails \/ \E k \in Key : CompactReadFails(k)
    PROVE  IInv'
<1>1. CASE CompactWrite
  BY Zenon, <1>1, MergedOutputIInv DEF CompactWrite
<1>2. CASE CompactSyncFails
  BY Zenon, <1>2, MergedOutputIInv DEF CompactSyncFails
<1>3. ASSUME NEW k \in Key, CompactReadFails(k)
      PROVE  IInv'
  BY Zenon, <1>3, MergedOutputIInv DEF CompactReadFails
<1>. QED
  BY Zenon, <1>1, <1>2, <1>3

(***************************************************************************)
(* The output cannot be written: what is left of it is not published.      *)
(***************************************************************************)
LEMMA CompactWriteFailsIInv ==
    ASSUME IInv, CompactWriteFails \/ CompactEmptyRejected
    PROVE  IInv'
<1>. USE BoundsAssumption, LsnAssumption, EmptyTableLemma DEF IInv, files,
         disk, engine, task, recovery, history
<1>1. pc = "merge" /\ Up /\ out \in SstId /\ out \notin version
      /\ sst[out] = "torn"
  BY Zenon DEF CompactWriteFails, CompactEmptyRejected, Up, Output, Writing
<1>2. /\ sst' \in {sst, [sst EXCEPT ![out] = "absent"]}
      /\ UNCHANGED <<table, size, wals, log, engine, caller, op, task, recovery,
                     history>>
      /\ pc' \in {"clean", "idle"}
      /\ pc' = "clean" <=> caller = "recover"
  BY Zenon DEF CompactWriteFails, CompactEmptyRejected, Resume
<1>3. TypeOK'
  BY Zenon, <1>1, <1>2 DEF TypeOK, PC
<1>4. Callers'
  BY Zenon, <1>2 DEF Callers
<1>5. Budget'
  BY Zenon, <1>1, <1>2 DEF Budget, Up, Rotating
<1>6. Files'
  BY Zenon, <1>1, <1>2 DEF TypeOK, Files, Existing, Up
<1>7. Output'
  BY Zenon, <1>2 DEF Output, Writing, Written
<1>8. Inputs'
  BY Zenon, <1>2 DEF Inputs
<1>9. Record'
  BY Zenon, <1>2 DEF Record
<1>10. Segments'
  BY Zenon, <1>1, <1>2 DEF Segments, Up, Recovering, Callers
<1>11. Sequenced'
  BY Zenon, <1>1, <1>2 DEF Sequenced, Up, Recovering, Callers, Below
<1>12. PublishedFilesReadable'
  BY Zenon, <1>1, <1>2 DEF TypeOK, PublishedFilesReadable, Complete
<1>. QED
  BY Zenon, <1>3, <1>4, <1>5, <1>6, <1>7, <1>8, <1>9, <1>10, <1>11, <1>12

(***************************************************************************)
(* The output takes the inputs' place.                                     *)
(***************************************************************************)
LEMMA CompactInstallIInv ==
    ASSUME IInv, CompactInstall
    PROVE  IInv'
<1>. USE BoundsAssumption, LsnAssumption, EmptyTableLemma DEF IInv,
         CompactInstall, Installed, files, disk, engine, task, recovery,
         history
<1>1. TypeOK'
  BY Zenon DEF TypeOK, PC, Output, Written
<1>2. Callers' /\ Budget' /\ Inputs' /\ Record'
  BY Zenon DEF Callers, TypeOK, Budget, Up, Rotating, Inputs, Output, Writing,
     Written, Record
<1>3. Files'
  BY Zenon DEF TypeOK, Files, Up, Existing, Output, Writing, Written, Budget
<1>4. Output'
  BY Zenon DEF TypeOK, Output, Writing, Written, Files, Existing, Complete,
     PublishedFilesReadable, Budget, Up
<1>5. Segments'
  BY Zenon DEF TypeOK, Segments, Up, Recovering, Callers, Budget, Rotating
<1>6. Sequenced'
  BY Zenon DEF TypeOK, Sequenced, Up, Recovering, Callers, Below, Segments
<1>7. PublishedFilesReadable'
  BY Zenon DEF TypeOK, PublishedFilesReadable, Complete, Output, Writing, Written,
     Inputs, Files, Existing, Up, Budget
<1>. QED
  BY Zenon, <1>1, <1>2, <1>3, <1>4, <1>5, <1>6, <1>7

(***************************************************************************)
(* An input is unlinked: it is no longer published.                        *)
(***************************************************************************)
LEMMA ReclaimIInv ==
    ASSUME IInv, Reclaim
    PROVE  IInv'
<1>. USE BoundsAssumption, LsnAssumption, EmptyTableLemma DEF IInv, Reclaim,
         files, disk, engine, task, recovery, history
<1>1. Min(inputs) \in inputs /\ Min(inputs) \in SstId
  <2>1. inputs \in SUBSET Nat
    BY DEF TypeOK, SstId
  <2>. QED
    BY Zenon, <2>1, MinProperties DEF TypeOK
<1>2. TypeOK'
  BY Zenon DEF TypeOK, PC
<1>3. Callers' /\ Budget' /\ Inputs' /\ Record'
  BY Zenon DEF Callers, TypeOK, Budget, Up, Rotating, Inputs, Output, Writing,
     Written, Record
<1>4. Files'
  BY Zenon DEF TypeOK, Files, Up, Existing, Output, Writing, Written, Budget
<1>5. Output'
  BY Zenon DEF TypeOK, Output, Writing, Written, Files, Existing, Complete,
     PublishedFilesReadable, Budget, Up
<1>6. Segments'
  BY Zenon DEF TypeOK, Segments, Up, Recovering, Callers, Budget, Rotating
<1>7. Sequenced'
  BY Zenon DEF TypeOK, Sequenced, Up, Recovering, Callers, Below, Segments
<1>8. PublishedFilesReadable'
  BY Zenon, <1>1 DEF TypeOK, PublishedFilesReadable, Complete, Inputs
<1>. QED
  BY Zenon, <1>2, <1>3, <1>4, <1>5, <1>6, <1>7, <1>8

(***************************************************************************)
(* unlink fails: the file stays.                                           *)
(***************************************************************************)
LEMMA ReclaimFailsIInv ==
    ASSUME IInv, ReclaimFails
    PROVE  IInv'
<1>. USE BoundsAssumption, LsnAssumption, EmptyTableLemma DEF IInv,
         ReclaimFails, files, disk, engine, task, recovery, history
<1>1. TypeOK'
  BY Zenon DEF TypeOK, PC
<1>2. Callers' /\ Budget' /\ Inputs' /\ Record'
  BY Zenon DEF Callers, TypeOK, Budget, Up, Rotating, Inputs, Output, Writing,
     Written, Record
<1>3. Files'
  BY Zenon DEF TypeOK, Files, Up, Existing, Output, Writing, Written, Budget
<1>4. Output'
  BY Zenon DEF TypeOK, Output, Writing, Written, Files, Existing, Complete,
     PublishedFilesReadable, Budget, Up
<1>5. Segments'
  BY Zenon DEF TypeOK, Segments, Up, Recovering, Callers, Budget, Rotating
<1>6. Sequenced'
  BY Zenon DEF TypeOK, Sequenced, Up, Recovering, Callers, Below, Segments
<1>7. PublishedFilesReadable'
  BY Zenon DEF TypeOK, PublishedFilesReadable, Complete, Output, Writing, Written,
     Inputs, Files, Existing, Up, Budget
<1>. QED
  BY Zenon, <1>1, <1>2, <1>3, <1>4, <1>5, <1>6, <1>7

(***************************************************************************)
(* The compaction returns.                                                 *)
(***************************************************************************)
LEMMA CompactDoneIInv ==
    ASSUME IInv, CompactDone
    PROVE  IInv'
<1>. USE BoundsAssumption, LsnAssumption, EmptyTableLemma DEF IInv,
         CompactDone, Resume, files, disk, engine, task, recovery, history
<1>1. TypeOK'
  BY Zenon DEF TypeOK, PC
<1>2. Callers' /\ Budget' /\ Inputs' /\ Record'
  BY Zenon DEF Callers, TypeOK, Budget, Up, Rotating, Inputs, Output, Writing,
     Written, Record
<1>3. Files'
  BY Zenon DEF TypeOK, Files, Up, Existing, Output, Writing, Written, Budget
<1>4. Output'
  BY Zenon DEF TypeOK, Output, Writing, Written, Files, Existing, Complete,
     PublishedFilesReadable, Budget, Up
<1>5. Segments'
  BY Zenon DEF TypeOK, Segments, Up, Recovering, Callers, Budget, Rotating
<1>6. Sequenced'
  BY Zenon DEF TypeOK, Sequenced, Up, Recovering, Callers, Below, Segments
<1>7. PublishedFilesReadable'
  BY Zenon DEF TypeOK, PublishedFilesReadable, Complete, Output, Writing, Written,
     Inputs, Files, Existing, Up, Budget
<1>. QED
  BY Zenon, <1>1, <1>2, <1>3, <1>4, <1>5, <1>6, <1>7

-----------------------------------------------------------------------------
(***************************************************************************)
(* open() and recover().                                                   *)
(***************************************************************************)

(***************************************************************************)
(* open() starts above every id on disk and every sequence a footer        *)
(* records; all records are in old segments.                               *)
(***************************************************************************)
LEMMA OpenIInv ==
    ASSUME IInv, Open
    PROVE  IInv'
<1>. USE BoundsAssumption, LsnAssumption, EmptyTableLemma DEF IInv, recovery,
         files, task, history
<1>1. /\ Highest(Existing) \in 0..MaxSst
      /\ \A i \in Existing : i <= Highest(Existing)
  <2>1. Existing \in SUBSET (0..MaxSst)
    BY DEF Existing, SstId
  <2>. QED
    BY Zenon, <2>1, HighestLemma
<1>2. /\ Highest(wals) \in 0..MaxWal
      /\ \A w \in wals : w <= Highest(wals)
  <2>1. wals \in SUBSET (0..MaxWal)
    BY DEF TypeOK, WalId
  <2>. QED
    BY Zenon, <2>1, HighestLemma
<1>3. /\ NextLsn(Existing) \in Nat
      /\ NextLsn(Existing) >= 1
      /\ \A i \in Existing : \A k \in KeysOf(table[i]) :
            table[i][k].sequence < NextLsn(Existing)
  <2>1. Existing \in SUBSET SstId /\ table \in [SstId -> Table]
    BY Zenon DEF TypeOK, Existing
  <2>. QED
    BY Zenon, <2>1, NextLsnLemma
<1>4. /\ pc = "down" /\ Existing = Complete
      /\ Highest(Existing) + 1 + 1 <= MaxSst
      /\ Highest(wals) + 1 <= MaxWal
      /\ wals' = wals \cup {writer'}
      /\ writer' = Highest(wals) + 1
      /\ next_wal' = Highest(wals) + 1
      /\ next_sst' = Highest(Existing) + 1
      /\ version' = Existing
      /\ lsn' = NextLsn(Existing)
      /\ memtable' = EmptyTable
      /\ old_wals' = wals /\ unread' = wals /\ pos' = 1 /\ highest' = 0
      /\ pc' = IF wals = {} THEN "idle" ELSE "replay"
      /\ UNCHANGED <<sst, table, size, log, caller, op, out, inputs, drop, kv,
                     unsure>>
  BY Zenon DEF Open, Room
<1>5. pc' \in {"idle", "replay"} /\ Up' /\ caller = "client"
  BY Zenon, <1>4 DEF Up, Callers, TypeOK
<1>6. writer' \in WalId
  BY <1>2, <1>4 DEF WalId
<1>7. TypeOK'
  <2>1. wals' \subseteq WalId /\ pc' \in PC
    BY <1>4, <1>5, <1>6, Zenon DEF TypeOK, PC
  <2>2. version' \subseteq SstId
    BY Zenon, <1>4 DEF Existing
  <2>3. writer' \in 0..MaxWal /\ next_wal' \in 0..MaxWal + 1 /\ next_sst' \in 0..MaxSst + 1
    BY <1>1, <1>2, <1>4
  <2>4. old_wals' \subseteq WalId /\ unread' \subseteq old_wals'
    BY Zenon, <1>4 DEF TypeOK
  <2>5. lsn' \in Nat /\ memtable' \in Table /\ pos' \in Nat \ {0} /\ highest' \in Nat
    BY <1>3, <1>4
  <2>6. /\ sst' \in [SstId -> {"absent", "torn", "complete"}]
        /\ table' \in [SstId -> Table] /\ DOMAIN size' = SstId
        /\ log' \in [WalId -> Seq(WalRecord \cup {nullopt})]
        /\ caller' \in {"client", "recover"} /\ op' \in WalRecord \cup {nullopt}
        /\ out' \in 0..MaxSst /\ inputs' \subseteq SstId /\ drop' \in BOOLEAN
        /\ kv' \in [Key -> Value \cup {nullopt}] /\ unsure' \subseteq Key
    BY Zenon, <1>4 DEF TypeOK
  <2>. QED
    BY Zenon, <2>1, <2>2, <2>3, <2>4, <2>5, <2>6 DEF TypeOK
<1>8. Callers'
  BY Zenon, <1>4, <1>5 DEF Callers
<1>9. Budget'
  BY SMTT(30), <1>1, <1>2, <1>4, <1>5 DEF Budget, Rotating
<1>10. Files'
  <2>1. Existing' = Existing
    BY Zenon, <1>4 DEF Existing
  <2>2. \A i \in Existing : i \in Int
    BY DEF Existing, SstId
  <2>. QED
    BY <1>1, <1>4, <2>1, <2>2 DEF Files
<1>11. Output'
  BY Zenon, <1>5 DEF Output, Writing, Written
<1>12. Inputs'
  BY Zenon, <1>5 DEF Inputs
<1>13. Record'
  BY Zenon, <1>5 DEF Record
<1>14. Segments'
  <2>1. \A w \in wals : w \in Int
    BY DEF TypeOK, WalId
  <2>2. \A w \in WalId : log[w] # <<>> => w \in wals
    BY Zenon DEF Segments
  <2>. QED
    BY SMTT(30), <1>2, <1>3, <1>4, <1>5, <1>6, <2>1, <2>2 DEF Segments, Recovering
<1>15. Sequenced'
  <2>1. \A i \in SstId : \A k \in KeysOf(table[i]) : table[i][k].sequence < lsn'
    BY Zenon, <1>3, <1>4 DEF Files, Existing
  <2>2. CASE wals = {}
    <3>1. \A w \in WalId : log[w] = <<>>
      BY Zenon, <2>2 DEF Segments
    <3>2. \A w \in WalId : DOMAIN log'[w] = {}
      BY Zenon, <1>4, <3>1, EmptyLogLemma
    <3>. QED
      BY Zenon, <1>4, <1>5, <2>1, <3>2 DEF Sequenced, Below
  <2>3. CASE wals # {}
    BY Zenon, <1>4, <1>5, <2>1, <2>3 DEF Sequenced, Below, KeysOf, EmptyTable, Recovering
  <2>. QED
    BY Zenon, <2>2, <2>3
<1>16. PublishedFilesReadable'
  BY Zenon, <1>4 DEF PublishedFilesReadable, Complete
<1>. QED
  BY Zenon, <1>7, <1>8, <1>9, <1>10, <1>11, <1>12, <1>13, <1>14, <1>15, <1>16

(***************************************************************************)
(* A record is replayed: its sequence counts in highest_wal_lsn_sequence,  *)
(* so the memtable's entries stay accounted for.                           *)
(***************************************************************************)
LEMMA ReplayRecordIInv ==
    ASSUME IInv, ReplayRecord
    PROVE  IInv'
<1>. USE BoundsAssumption, LsnAssumption, EmptyTableLemma DEF IInv, recovery,
         files, disk, task, history
<1>. DEFINE w == Min(unread)
            r == log[w][pos]
<1>1. /\ pc = "replay" /\ unread # {} /\ pos <= Len(log[w]) /\ r # nullopt
      /\ memtable' = ApplyRecord(memtable, r)
      /\ highest' = Max({highest, r.sequence})
      /\ pos' = pos + 1
      /\ UNCHANGED <<sst, table, size, wals, log, lsn, next_wal, next_sst, writer,
                     version, pc, caller, op, out, inputs, drop, old_wals,
                     unread, kv, unsure>>
  BY Zenon DEF ReplayRecord, HasNext, Deserializes, HighestReplayed
<1>2. w \in WalId
  <2>1. unread \in SUBSET Nat /\ unread \subseteq WalId
    BY SMTT(30) DEF TypeOK, WalId
  <2>. QED
    BY Zenon, <1>1, <2>1, MinProperties
<1>. HIDE DEF w
<1>3. r \in WalRecord /\ r.sequence \in Nat
  <2>1. log[w] \in Seq(WalRecord \cup {nullopt}) /\ pos \in Nat \ {0}
    BY Zenon, <1>1, <1>2 DEF TypeOK
  <2>2. r \in WalRecord
    <3>1. log[w][pos] \in WalRecord \cup {nullopt}
      BY ONLY <1>1, <2>1, ElementLemma, Zenon
    <3>. QED
      BY Zenon, <1>1, <3>1
  <2>. QED
    BY Zenon, <2>2, RecordSequenceLemma
<1>. HIDE DEF r
<1>4. /\ memtable' \in Table
      /\ \A k \in KeysOf(memtable') :
            \/ k \in KeysOf(memtable) /\ memtable'[k] = memtable[k]
            \/ memtable'[k].sequence = r.sequence
  BY ZenonT(30), <1>1, <1>3, ApplyRecordLemma DEF TypeOK
<1>5. highest' \in Nat /\ highest <= highest' /\ r.sequence <= highest'
  BY <1>1, <1>3, MaxOfTwo, ZenonT(30) DEF TypeOK
<1>6. TypeOK'
  <2>1. pos' \in Nat \ {0}
    BY ONLY TypeOK, <1>1 DEF TypeOK
  <2>. QED
    BY ZenonT(30), <1>1, <1>4, <1>5, <2>1 DEF TypeOK
<1>7. Callers'
  BY Zenon, <1>1 DEF Callers
<1>8. Budget'
  BY Zenon, <1>1 DEF Budget, Up, Rotating
<1>9. Files'
  BY Zenon, <1>1 DEF Files, Existing, Up
<1>10. Output'
  BY Zenon, <1>1 DEF Output, Writing, Written
<1>11. Inputs'
  BY Zenon, <1>1 DEF Inputs
<1>12. Record'
  BY Zenon, <1>1 DEF Record
<1>13. Segments'
  BY Zenon, <1>1 DEF Segments, Up, Recovering
<1>14. Sequenced'
  <2>1. \A j \in KeysOf(memtable) : memtable[j].sequence \in Nat
    BY Zenon, EntryLemma DEF TypeOK
  <2>2. \A i \in SstId : \A j \in KeysOf(table[i]) : table[i][j].sequence \in Nat
    BY Zenon, EntryLemma DEF TypeOK
  <2>3. \A s \in Nat : Below(s) => s < lsn \/ s <= highest'
    BY <1>5 DEF Below, TypeOK
  <2>4. \A k \in KeysOf(memtable') : \/ memtable'[k].sequence < lsn
                                     \/ memtable'[k].sequence <= highest'
    BY <1>1, <1>4, <1>5, <2>1, <2>3, Zenon DEF Sequenced, Up
  <2>. QED
    BY <1>1, <2>2, <2>3, <2>4, Zenon DEF Sequenced, Below, Up, Recovering, KeysOf
<1>15. PublishedFilesReadable'
  BY Zenon, <1>1 DEF PublishedFilesReadable, Complete
<1>. QED
  BY Zenon, <1>6, <1>7, <1>8, <1>9, <1>10, <1>11, <1>12, <1>13, <1>14, <1>15

(***************************************************************************)
(* A segment is done.                                                      *)
(***************************************************************************)
LEMMA ReplayNextWalIInv ==
    ASSUME IInv, ReplayNextWal
    PROVE  IInv'
<1>. USE BoundsAssumption, LsnAssumption, EmptyTableLemma DEF IInv,
         ReplayNextWal, files, disk, engine, task, recovery, history
<1>1. TypeOK'
  BY DEF TypeOK, PC
<1>2. Callers' /\ Budget' /\ Inputs' /\ Record'
  BY Zenon DEF Callers, TypeOK, Budget, Up, Rotating, Inputs, Output, Writing,
     Written, Record
<1>3. Files'
  BY Zenon DEF TypeOK, Files, Up, Existing, Output, Writing, Written, Budget
<1>4. Output'
  BY Zenon DEF TypeOK, Output, Writing, Written, Files, Existing, Complete,
     PublishedFilesReadable, Budget, Up
<1>5. Segments'
  BY Zenon DEF TypeOK, Segments, Up, Recovering, Callers, Budget, Rotating
<1>6. Sequenced'
  BY Zenon DEF TypeOK, Sequenced, Up, Recovering, Callers, Below, Segments
<1>7. PublishedFilesReadable'
  BY Zenon DEF TypeOK, PublishedFilesReadable, Complete, Output, Writing, Written,
     Inputs, Files, Existing, Up, Budget
<1>. QED
  BY Zenon, <1>1, <1>2, <1>3, <1>4, <1>5, <1>6, <1>7

(***************************************************************************)
(* Replay ends and recover() calls flush().                                *)
(***************************************************************************)
LEMMA ReplayDoneIInv ==
    ASSUME IInv, ReplayDone
    PROVE  IInv'
<1>. USE BoundsAssumption, LsnAssumption, EmptyTableLemma DEF IInv,
         ReplayDone, files, disk, engine, task, recovery, history
<1>1. TypeOK'
  BY Zenon DEF TypeOK, PC
<1>2. Callers' /\ Budget' /\ Inputs' /\ Record'
  BY Zenon DEF Callers, TypeOK, Budget, Up, Rotating, Inputs, Output, Writing,
     Written, Record
<1>3. Files'
  BY Zenon DEF TypeOK, Files, Up, Existing, Output, Writing, Written, Budget
<1>4. Output'
  BY Zenon DEF TypeOK, Output, Writing, Written, Files, Existing, Complete,
     PublishedFilesReadable, Budget, Up
<1>5. Segments'
  BY Zenon DEF TypeOK, Segments, Up, Recovering, Callers, Budget, Rotating
<1>6. Sequenced'
  BY Zenon DEF TypeOK, Sequenced, Up, Recovering, Callers, Below, Segments
<1>7. PublishedFilesReadable'
  BY Zenon DEF TypeOK, PublishedFilesReadable, Complete, Output, Writing, Written,
     Inputs, Files, Existing, Up, Budget
<1>. QED
  BY Zenon, <1>1, <1>2, <1>3, <1>4, <1>5, <1>6, <1>7

(***************************************************************************)
(* An old segment goes, with its records.                                  *)
(***************************************************************************)
LEMMA RecoverRemoveWalIInv ==
    ASSUME IInv, RecoverRemoveWal
    PROVE  IInv'
<1>. USE BoundsAssumption, LsnAssumption, EmptyTableLemma DEF IInv,
         RecoverRemoveWal, files, disk, engine, task, recovery, history
<1>1. Min(old_wals) \in old_wals /\ Min(old_wals) \in WalId
  <2>1. old_wals \in SUBSET Nat
    BY DEF TypeOK, WalId
  <2>. QED
    BY Zenon, <2>1, MinProperties DEF TypeOK
<1>2. caller = "recover" /\ unread = {}
  BY Zenon DEF Callers
<1>3. TypeOK'
  BY <1>1, <1>2 DEF TypeOK, PC
<1>4. Callers' /\ Budget' /\ Inputs' /\ Record'
  BY Zenon DEF Callers, TypeOK, Budget, Up, Rotating, Inputs, Output, Writing,
     Written, Record
<1>5. Files'
  BY Zenon DEF TypeOK, Files, Up, Existing, Output, Writing, Written, Budget
<1>6. Output'
  BY Zenon DEF TypeOK, Output, Writing, Written, Files, Existing, Complete,
     PublishedFilesReadable, Budget, Up
<1>7. Segments'
  <2>1. writer # Min(old_wals)
    BY <1>1, <1>2 DEF Segments, Recovering, TypeOK, WalId
  <2>. QED
    BY Zenon, <1>1, <1>2, <2>1 DEF TypeOK, Segments, Up, Recovering
<1>8. Sequenced'
  BY Zenon DEF TypeOK, Sequenced, Up, Recovering, Callers, Below, Segments
<1>9. PublishedFilesReadable'
  BY Zenon DEF TypeOK, PublishedFilesReadable, Complete, Output, Writing, Written,
     Inputs, Files, Existing, Up, Budget
<1>. QED
  BY Zenon, <1>3, <1>4, <1>5, <1>6, <1>7, <1>8, <1>9

(***************************************************************************)
(* The LSN passes what was replayed; no old segment, hence no record, is   *)
(* left.                                                                   *)
(***************************************************************************)
LEMMA RecoverDoneIInv ==
    ASSUME IInv, RecoverDone
    PROVE  IInv'
<1>. USE BoundsAssumption, LsnAssumption, EmptyTableLemma DEF IInv, recovery,
         files, disk, task, history
<1>1. /\ pc = "clean" /\ old_wals = {} /\ pc' = "idle"
      /\ lsn' = Max({lsn, highest}) + 1
      /\ highest' = 0
      /\ caller' = "client"
      /\ UNCHANGED <<sst, table, size, wals, log, memtable, next_wal, next_sst,
                     writer, version, op, out, inputs, drop, old_wals, unread,
                     pos, kv, unsure>>
  BY Zenon DEF RecoverDone, ReconciledLsn
<1>2. Recovering /\ Up /\ Up' /\ ~Recovering'
  BY Zenon, <1>1 DEF Recovering, Up, Callers
<1>3. lsn' \in Nat /\ lsn' >= 1 /\ lsn < lsn' /\ highest < lsn'
  <2>1. /\ Max({lsn, highest}) \in Nat
        /\ lsn <= Max({lsn, highest})
        /\ highest <= Max({lsn, highest})
    BY Zenon, MaxOfTwo DEF TypeOK
  <2>. QED
    BY <1>1, <2>1 DEF TypeOK
<1>4. \A w \in WalId : log[w] = <<>>
  BY Zenon, <1>1, <1>2 DEF Segments
<1>5. TypeOK'
  BY Zenon, <1>1, <1>3 DEF TypeOK, PC
<1>6. Callers'
  BY Zenon, <1>1 DEF Callers
<1>7. Budget'
  BY Zenon, <1>1, <1>2 DEF Budget, Rotating
<1>8. Files'
  BY Zenon, <1>1, <1>2 DEF Files, Existing
<1>9. Output'
  BY Zenon, <1>1 DEF Output, Writing, Written
<1>10. Inputs'
  BY Zenon, <1>1 DEF Inputs
<1>11. Record'
  BY Zenon, <1>1 DEF Record
<1>12. Segments'
  BY Zenon, <1>1, <1>2, <1>3, <1>4 DEF Segments
<1>13. Sequenced'
  <2>1. \A j \in KeysOf(memtable) : memtable[j].sequence \in Nat
    BY Zenon, EntryLemma DEF TypeOK
  <2>2. \A i \in SstId : \A j \in KeysOf(table[i]) : table[i][j].sequence \in Nat
    BY Zenon, EntryLemma DEF TypeOK
  <2>3. \A s \in Nat : Below(s) => s < lsn'
    BY <1>3 DEF Below, TypeOK
  <2>4. /\ \A j \in KeysOf(memtable) : memtable[j].sequence < lsn'
        /\ \A i \in SstId : \A j \in KeysOf(table[i]) : table[i][j].sequence < lsn'
    BY Zenon, <1>2, <2>1, <2>2, <2>3 DEF Sequenced
  <2>5. \A w \in WalId : DOMAIN log[w] = {}
    BY <1>4
  <2>. QED
    BY <1>1, <1>2, <2>4, <2>5, Zenon DEF Sequenced, Below, KeysOf
<1>14. PublishedFilesReadable'
  BY Zenon, <1>1 DEF PublishedFilesReadable, Complete
<1>. QED
  BY Zenon, <1>5, <1>6, <1>7, <1>8, <1>9, <1>10, <1>11, <1>12, <1>13, <1>14

-----------------------------------------------------------------------------
(***************************************************************************)
(* A new, empty data directory satisfies the invariant.                    *)
(***************************************************************************)
LEMMA InitIInv ==
    Init => IInv
<1>. SUFFICES ASSUME Init PROVE IInv
  BY Zenon
<1>. USE BoundsAssumption, EmptyTableLemma DEF Init
<1>1. TypeOK
  <2>1. drop \in BOOLEAN
    BY Zenon
  <2>2. log \in [WalId -> Seq(WalRecord \cup {nullopt})]
    OBVIOUS
  <2>. QED
    BY <2>1, <2>2 DEF TypeOK, PC
<1>2. Callers /\ Budget /\ Files /\ Output /\ Inputs /\ Record /\ Segments /\ Sequenced
  BY Zenon DEF Callers, Budget, Files, Output, Inputs, Record, Segments, Sequenced, Up,
         Writing, Written, Rotating, Recovering
<1>3. PublishedFilesReadable
  BY Zenon DEF PublishedFilesReadable
<1>. QED
  BY Zenon, <1>1, <1>2, <1>3 DEF IInv

(***************************************************************************)
(* The invariant is inductive.                                             *)
(***************************************************************************)
LEMMA NextIInv ==
    IInv /\ [Next]_vars => IInv'
<1>. SUFFICES ASSUME IInv, [Next]_vars PROVE IInv'
  BY Zenon
<1>1. CASE PutStep \/ PutAppendTorn
  BY Zenon, <1>1, PutAppendIInv, PutAppendFailsIInv, PutApplyIInv, PutSyncFailsIInv,
     PutAppendTornIInv DEF PutStep
<1>2. CASE FlushStep \/ FlushCall
  BY Zenon, <1>2, FlushCallIInv, FlushCreateIInv, FlushWriteIInv, FlushWriteFailsIInv,
     FlushSyncFailsIInv, FlushRotateIInv, FlushRotateFailsIInv,
     FlushRemoveWalIInv, FlushRemoveWalThrowsIInv DEF FlushStep
<1>3. CASE CompactStep \/ CompactNow
  <2>1. CASE CompactEmptyAborts
    BY Zenon, <2>1, CrashIInv DEF CompactEmptyAborts
  <2>. QED
    BY Zenon, <1>3, <2>1, DoCompactWorkIInv, CompactNowIInv, CompactWriteIInv,
       CompactWriteFailsIInv, CompactInstallIInv, ReclaimIInv, ReclaimFailsIInv,
       CompactDoneIInv DEF CompactStep
<1>4. CASE RecoverStep \/ Open \/ Crash
  <2>1. CASE ReplayOpenFails \/ RecoverRemoveWalThrows \/ Crash
    BY Zenon, <2>1, CrashIInv DEF ReplayOpenFails, RecoverRemoveWalThrows, Crash
  <2>. QED
    BY Zenon, <1>4, <2>1, OpenIInv, ReplayRecordIInv, ReplayNextWalIInv, ReplayDoneIInv,
       RecoverRemoveWalIInv, RecoverDoneIInv DEF RecoverStep
<1>5. CASE OpenFails \/ UNCHANGED vars
  <2>1. UNCHANGED vars
    BY ZenonT(30), <1>5 DEF OpenFails
  <2>. USE <2>1 DEF IInv, vars, disk, files, engine, task, recovery, history
  <2>2. TypeOK' /\ Callers' /\ Budget' /\ Files' /\ Output' /\ Inputs' /\ Record'
    BY DEF TypeOK, Callers, Budget, Files, Existing, Output, Inputs, Record, Up,
           Writing, Written, Rotating
  <2>3. Segments'
    <3>1. Segments /\ UNCHANGED <<wals, log, writer, next_wal, pc, caller, old_wals,
                                  lsn, highest>>
      BY Zenon
    <3>. QED
      BY ONLY <3>1, Zenon DEF Segments, Up, Recovering
  <2>4. Sequenced'
    <3>1. Sequenced /\ UNCHANGED <<table, log, memtable, pc, caller, op, lsn, highest>>
      BY Zenon
    <3>. QED
      BY ONLY <3>1, Zenon DEF Sequenced, Below, KeysOf, Up, Recovering
  <2>5. PublishedFilesReadable'
    BY Zenon DEF PublishedFilesReadable, Complete
  <2>. QED
    BY Zenon, <2>2, <2>3, <2>4, <2>5
<1>. QED
  BY Zenon, <1>1, <1>2, <1>3, <1>4, <1>5 DEF Next

(***************************************************************************)
(* The inductive invariant holds of every reachable state of the engine,   *)
(* whichever I/O calls fail and wherever the process dies.                 *)
(***************************************************************************)
THEOREM Invariance == Spec => []IInv
  BY InitIInv, NextIInv, PTL DEF Spec

(***************************************************************************)
(* The engine's state is always of its type; for instance recover() never  *)
(* has a segment to replay that it does not also have to remove.           *)
(***************************************************************************)
THEOREM TypeCorrect == Spec => []TypeOK
<1>1. IInv => TypeOK
  BY Zenon DEF IInv
<1>. QED
  BY <1>1, Invariance, PTL

(***************************************************************************)
(* At every step of flush(), compaction and recovery, every file of the    *)
(* current version can be opened.                                          *)
(***************************************************************************)
THEOREM LiveFilesReadable == Spec => []PublishedFilesReadable
<1>1. IInv => PublishedFilesReadable
  BY Zenon DEF IInv
<1>. QED
  BY <1>1, Invariance, PTL

(***************************************************************************)
(* Whatever crashes and failed calls came before, an open engine hands out *)
(* sequences above all those in its logs and SSTables.                     *)
(***************************************************************************)
THEOREM RecoveredLsn == Spec => []LsnAboveDurable
<1>1. IInv => LsnAboveDurable
  <2>. SUFFICES ASSUME IInv, pc = "idle"
                PROVE  /\ \A i \in Complete : HighestSequence(table[i]) < lsn
                       /\ \A w \in WalId : \A n \in DOMAIN log[w] :
                              log[w][n] # nullopt => log[w][n].sequence < lsn
    BY Zenon DEF LsnAboveDurable
  <2>1. Up /\ ~Recovering
    BY Zenon DEF IInv, Callers, Up, Recovering
  <2>2. highest = 0 /\ lsn >= 1 /\ lsn \in Nat
    BY Zenon, <2>1 DEF IInv, Segments, TypeOK
  <2>3. \A s \in Nat : Below(s) => s < lsn
    BY <2>2 DEF Below
  <2>4. ASSUME NEW i \in Complete
        PROVE  HighestSequence(table[i]) < lsn
    <3>1. i \in SstId /\ table[i] \in Table
      BY Zenon DEF Complete, IInv, TypeOK
    <3>2. \A k \in KeysOf(table[i]) : table[i][k].sequence < lsn
      BY Zenon, <2>1, <2>3, <3>1, EntryLemma DEF IInv, Sequenced
    <3>3. CASE HighestSequence(table[i]) = 0
      BY <2>2, <3>3
    <3>4. CASE \E k \in KeysOf(table[i]) : HighestSequence(table[i]) = table[i][k].sequence
      BY Zenon, <3>2, <3>4
    <3>. QED
      BY Zenon, <3>1, <3>3, <3>4, HighestSequenceLemma
  <2>5. ASSUME NEW w \in WalId, NEW n \in DOMAIN log[w], log[w][n] # nullopt
        PROVE  log[w][n].sequence < lsn
    <3>1. log[w][n] \in WalRecord
      BY <2>5 DEF IInv, TypeOK
    <3>2. log[w][n].sequence \in Nat
      BY <3>1 DEF WalRecord, Sequence
    <3>. QED
      BY Zenon, <2>1, <2>3, <2>5, <3>2 DEF IInv, Sequenced
  <2>. QED
    BY Zenon, <2>4, <2>5
<1>. QED
  BY <1>1, Invariance, PTL

-----------------------------------------------------------------------------
(***************************************************************************)
(* Durability: why reads are right and the disk is enough to recover from, *)
(* as far as the engine promises it, which is when no I/O call fails but a *)
(* sync of the log or the writing of an SSTable, and a compaction takes    *)
(* every live file.  Here are the invariant DInv, its lemmas, and its      *)
(* preservation by put(), remove(), flush() and the death of the process.  *)
(* DazzleDurabilityProofs goes on with compaction and recovery and states  *)
(* the theorems.                                                           *)
(*                                                                         *)
(* The argument is one order on the versions of a key.  Going up in file   *)
(* id, then to the memtable, then to the last record in the log, entries   *)
(* only get newer or stay the same.  So the newest id decides a read as    *)
(* the highest sequence decides a merge, and replaying a log over files    *)
(* that already hold its records changes nothing.                          *)
(***************************************************************************)

(***************************************************************************)
(* What the promise depends on: the faults flush() and put() clean up      *)
(* after, FullCompactionPolicy (no inputs, or all of them) and that an     *)
(* entry counts bytes in the memtable, since no encoded key is empty.      *)
(***************************************************************************)
Survivable ==
    /\ Faults \subseteq {"sync", "sst_write"}
    /\ \A live : Pick(live).inputs \in {{}, {m.id : m \in live}}
    /\ \A t \in Table : KeysOf(t) # {} => ApproximateSize(t) > 0

-----------------------------------------------------------------------------
(***************************************************************************)
(* The invariant.                                                          *)
(***************************************************************************)

\* The entry that applying a record puts in the memtable.
EntryOf(r) ==
    IF r.op_type = "DELETE_ROW"
    THEN [data |-> nullopt, is_tombstone |-> TRUE, sequence |-> r.sequence]
    ELSE [data |-> r.value, is_tombstone |-> FALSE, sequence |-> r.sequence]

\* Of two versions of a key, f is newer than e or the same.
Older(e, f) == e.sequence < f.sequence \/ e = f

\* Record n of segment w writes key k; it is the last one there that does.
IsRecord(w, n, k) ==
    n \in DOMAIN log[w] /\ log[w][n] # nullopt /\ log[w][n].key = k

IsLast(w, n, k) ==
    IsRecord(w, n, k) /\ \A m \in DOMAIN log[w] : IsRecord(w, m, k) => m <= n

NoRecord(k) == \A w \in WalId : \A n \in DOMAIN log[w] : ~IsRecord(w, n, k)

\* One segment holds records, in ascending sequence; only its tail is torn.
LogShape ==
    /\ OneWalHoldsRecords
    /\ \A w \in WalId : \A n \in DOMAIN log[w] :
           log[w][n] = nullopt => n = Len(log[w])
    /\ \A w \in WalId : \A m, n \in DOMAIN log[w] :
           m < n /\ log[w][m] # nullopt /\ log[w][n] # nullopt
               => log[w][m].sequence < log[w][n].sequence
    /\ \A w \in WalId : \A n \in DOMAIN log[w] :
           log[w][n] # nullopt =>
               (log[w][n].op_type = "DELETE_ROW" <=> log[w][n].value = nullopt)

\* Files by id, and every file before the log.
DiskOrdered ==
    /\ \A i, j \in SstId : \A k \in Key :
           i < j /\ table[i][k] # nullopt /\ table[j][k] # nullopt
               => Older(table[i][k], table[j][k])
    /\ \A i \in SstId, k \in Key, w \in WalId : \A n \in DOMAIN log[w] :
           table[i][k] # nullopt /\ IsLast(w, n, k)
               => Older(table[i][k], EntryOf(log[w][n]))

\* The disk holds the value of every key: in the log or, failing that, in
\* the newest file.
Durable ==
    \A k \in Key \ unsure :
        /\ \A w \in WalId : \A n \in DOMAIN log[w] :
               IsLast(w, n, k) => log[w][n].value = kv[k]
        /\ NoRecord(k) => Visible(LookupInternal(SstId, k)) = kv[k]

\* The writer's segment is the newest and is intact.  Outside recovery only
\* it holds records, or the one flush() is about to remove.
WriterLast ==
    Up => /\ writer <= next_wal /\ next_wal <= writer + 1
          /\ \A w \in wals : w <= writer
          /\ \A n \in DOMAIN log[writer] : log[writer][n] # nullopt
          /\ ~Recovering => \A w \in WalId : log[w] # <<>> =>
                                w = writer \/ (pc = "flush_remove" /\ w = OldWal)

\* The readable files are the version's, and the output or the inputs of the
\* task in progress.
Unpublished ==
    IF Written THEN {out} ELSE IF pc = "reclaim" THEN inputs ELSE {}

OnDisk == Up => Complete = version \cup Unpublished

\* The output's id is the newest; it stands for everything it replaces.
TaskOutput ==
    /\ Writing \/ Written => next_sst = out + 1
    /\ pc \in {"merge", "install"} => inputs = version
    /\ pc = "flush_rotate" => table[out] = memtable
    /\ pc = "install" => \A k \in Key :
           Visible(table[out][k]) = Visible(LookupInternal(version, k))
    /\ pc = "reclaim" => /\ version = {out} /\ out \in SstId
                         /\ \A i \in inputs : i < out
                         /\ \A k \in Key : table[out][k] = nullopt =>
                                Visible(LookupInternal(inputs, k)) = nullopt

\* From its rotation to the end of recover(), flush() leaves nothing in the
\* memtable.
Flushed ==
    \/ pc \in {"flush_remove", "compact", "clean"}
    \/ caller = "recover" /\ pc \in {"merge", "install", "reclaim"}

MemtableEmpty == Flushed => KeysOf(memtable) = {}

\* Files before the memtable, the memtable before the log.
MemtableOrdered ==
    /\ Up /\ pc # "replay" => \A i \in SstId, k \in Key :
           table[i][k] # nullopt /\ memtable[k] # nullopt
               => Older(table[i][k], memtable[k])
    /\ Up => \A k \in Key : memtable[k] # nullopt =>
           \E w \in WalId : \E n \in DOMAIN log[w] :
               IsLast(w, n, k) /\ Older(memtable[k], EntryOf(log[w][n]))

\* The record put() has in hand is the last of the log, newer than anything
\* a reader can find.
InHand ==
    /\ op # nullopt => pc = "sync"
    /\ pc = "sync" =>
         /\ log[writer] # <<>> /\ log[writer][Len(log[writer])] = op
         /\ \A i \in SstId : table[i][op.key] # nullopt =>
                                 table[i][op.key].sequence < op.sequence
         /\ memtable[op.key] # nullopt =>
                memtable[op.key].sequence < op.sequence
         /\ kv[op.key] = op.value /\ op.key \notin unsure

\* What recover() has read: the memtable holds the last record read of each
\* key.
Read(w, n) == w \notin unread \/ (w = Min(unread) /\ n < pos)

Replayed ==
    pc = "replay" => \A k \in Key :
        /\ memtable[k] = nullopt =>
               \A w \in WalId : \A n \in DOMAIN log[w] :
                   IsRecord(w, n, k) => ~Read(w, n)
        /\ memtable[k] # nullopt =>
               \E w \in WalId : \E n \in DOMAIN log[w] :
                   /\ IsRecord(w, n, k) /\ Read(w, n)
                   /\ memtable[k] = EntryOf(log[w][n])
                   /\ \A m \in DOMAIN log[w] :
                          IsRecord(w, m, k) /\ Read(w, m) => m <= n

\* Reads are right, except of a key whose write is in hand.
Current ==
    Up /\ pc # "replay" => \A k \in Key \ unsure :
        (pc = "sync" /\ k = op.key) \/ Get(k) = kv[k]

DInv ==
    /\ LogShape /\ DiskOrdered /\ Durable
    /\ WriterLast /\ OnDisk /\ TaskOutput /\ MemtableEmpty
    /\ MemtableOrdered /\ InHand /\ Replayed /\ Current

-----------------------------------------------------------------------------
(***************************************************************************)
(* Lemmas about lookups.  LookupIn is LookupInternal on the files of a     *)
(* given state, so that one lemma serves for a state and its successor.    *)
(***************************************************************************)
LookupIn(tbl, ids, k) ==
    LET holders == {i \in ids : tbl[i][k] # nullopt}
    IN  IF holders = {} THEN nullopt ELSE tbl[Max(holders)][k]

(***************************************************************************)
(* File ids are numbers with an upper bound.                               *)
(***************************************************************************)
LEMMA IdsLemma ==
    SstId \subseteq 0..MaxSst
  BY BoundsAssumption DEF SstId

(***************************************************************************)
(* Version::lookup_internal finds nothing, or the entry of the newest file *)
(* that has one.                                                           *)
(***************************************************************************)
LEMMA LookupLemma ==
    ASSUME NEW tbl, NEW ids \in SUBSET SstId, NEW k
    PROVE  \/ /\ \A i \in ids : tbl[i][k] = nullopt
              /\ LookupIn(tbl, ids, k) = nullopt
           \/ \E i \in ids : /\ tbl[i][k] # nullopt
                             /\ LookupIn(tbl, ids, k) = tbl[i][k]
                             /\ \A j \in ids : tbl[j][k] # nullopt => j <= i
<1>. DEFINE holders == {i \in ids : tbl[i][k] # nullopt}
<1>1. CASE holders = {}
  BY Zenon, <1>1 DEF LookupIn
<1>2. CASE holders # {}
  <2>1. holders \in SUBSET (0..MaxSst)
    BY Zenon, IdsLemma
  <2>2. Max(holders) \in holders /\ \A j \in holders : j <= Max(holders)
    BY <1>2, <2>1, BoundsAssumption, MaxProperties, Zenon
  <2>3. LookupIn(tbl, ids, k) = tbl[Max(holders)][k]
    BY Zenon, <1>2 DEF LookupIn
  <2>4. \A j \in ids : tbl[j][k] # nullopt => j <= Max(holders)
    BY Zenon, <2>2
  <2>. QED
    BY Zenon, <2>2, <2>3, <2>4
<1>. QED
  BY Zenon, <1>1, <1>2

(***************************************************************************)
(* What a lookup finds is the entry of the newest file that has one.       *)
(***************************************************************************)
LEMMA LookupFound ==
    ASSUME NEW tbl, NEW ids \in SUBSET SstId, NEW k, LookupIn(tbl, ids, k) # nullopt
    PROVE  \E i \in ids : /\ tbl[i][k] # nullopt
                          /\ LookupIn(tbl, ids, k) = tbl[i][k]
                          /\ \A j \in ids : tbl[j][k] # nullopt => j <= i
  BY LookupLemma, SMTT(30)

(***************************************************************************)
(* Lookups that find the same holders with the same entries agree.         *)
(***************************************************************************)
LEMMA LookupSame ==
    ASSUME NEW t, NEW S \in SUBSET SstId, NEW u, NEW T \in SUBSET SstId, NEW k,
           {i \in S : t[i][k] # nullopt} = {i \in T : u[i][k] # nullopt},
           \A i \in S : t[i][k] # nullopt => t[i][k] = u[i][k]
    PROVE  LookupIn(t, S, k) = LookupIn(u, T, k)
<1>. DEFINE holders == {i \in S : t[i][k] # nullopt}
<1>1. CASE holders = {}
  BY Zenon, <1>1 DEF LookupIn
<1>2. CASE holders # {}
  <2>1. holders \in SUBSET (0..MaxSst)
    BY Zenon, IdsLemma
  <2>2. Max(holders) \in holders
    BY <1>2, <2>1, BoundsAssumption, MaxProperties, Zenon
  <2>3. LookupIn(t, S, k) = t[Max(holders)][k]
    BY Zenon, <1>2 DEF LookupIn
  <2>4. LookupIn(u, T, k) = u[Max(holders)][k]
    BY Zenon, <1>2 DEF LookupIn
  <2>. QED
    BY Zenon, <2>2, <2>3, <2>4
<1>. QED
  BY Zenon, <1>1, <1>2

(***************************************************************************)
(* A holder above all the other ids decides.                               *)
(***************************************************************************)
LEMMA LookupNewest ==
    ASSUME NEW t, NEW S \in SUBSET SstId, NEW k, NEW o \in S,
           t[o][k] # nullopt, \A i \in S : t[i][k] # nullopt => i <= o
    PROVE  LookupIn(t, S, k) = t[o][k]
<1>0. \/ /\ \A i \in S : t[i][k] = nullopt
         /\ LookupIn(t, S, k) = nullopt
      \/ \E i \in S : /\ t[i][k] # nullopt
                      /\ LookupIn(t, S, k) = t[i][k]
                      /\ \A j \in S : t[j][k] # nullopt => j <= i
  BY LookupLemma
<1>1. PICK i \in S : /\ t[i][k] # nullopt
                     /\ LookupIn(t, S, k) = t[i][k]
                     /\ \A j \in S : t[j][k] # nullopt => j <= i
  BY Zenon, <1>0
<1>2. i \in Int /\ o \in Int /\ i <= o /\ o <= i
  BY <1>1 DEF SstId
<1>. QED
  BY SMTT(30), <1>1, <1>2

(***************************************************************************)
(* The engine's lookups are LookupIn on the state's files.                 *)
(***************************************************************************)
LEMMA LookupDef ==
    \A ids, k : LookupInternal(ids, k) = LookupIn(table, ids, k)
  BY Zenon DEF LookupInternal, LookupIn

-----------------------------------------------------------------------------
(***************************************************************************)
(* Lemmas about the log.                                                   *)
(***************************************************************************)

(***************************************************************************)
(* A segment is a sequence of whole records and torn tails.                *)
(***************************************************************************)
LEMMA SegmentLemma ==
    ASSUME IInv, NEW w \in WalId
    PROVE  /\ Len(log[w]) \in Nat
           /\ DOMAIN log[w] = 1..Len(log[w])
           /\ \A n \in DOMAIN log[w] : n \in Nat /\ n >= 1
           /\ \A n \in DOMAIN log[w] : log[w][n] # nullopt =>
                 /\ log[w][n] \in WalRecord
                 /\ log[w][n].key \in Key
                 /\ log[w][n].sequence \in Nat
<1>1. log[w] \in Seq(WalRecord \cup {nullopt})
  BY Zenon DEF IInv, TypeOK
<1>. QED
  BY <1>1, LsnAssumption DEF WalRecord, Sequence

(***************************************************************************)
(* WalWriter::append adds one record, or the beginning of one, at the end  *)
(* of the writer's segment.                                                *)
(***************************************************************************)
LEMMA AppendedLog ==
    ASSUME IInv, Up, NEW r \in WalRecord \cup {nullopt},
           log' = [log EXCEPT ![writer] = Append(@, r)]
    PROVE  /\ writer \in WalId
           /\ \A w \in WalId : w # writer => log'[w] = log[w]
           /\ log'[writer] = Append(log[writer], r)
           /\ Len(log'[writer]) = Len(log[writer]) + 1
           /\ DOMAIN log'[writer] = 1..(Len(log[writer]) + 1)
           /\ log'[writer][Len(log[writer]) + 1] = r
           /\ \A n \in DOMAIN log[writer] : log'[writer][n] = log[writer][n]
<1>1. writer \in WalId
  BY Zenon DEF IInv, Segments, TypeOK
<1>2. log[writer] \in Seq(WalRecord \cup {nullopt}) /\ log \in [WalId -> Seq(WalRecord \cup {nullopt})]
  BY Zenon, <1>1 DEF IInv, TypeOK
<1>3. log'[writer] = Append(log[writer], r)
  BY Zenon, <1>1, <1>2
<1>4. \A w \in WalId : w # writer => log'[w] = log[w]
  BY Zenon, <1>2
<1>. QED
  BY <1>1, <1>2, <1>3, <1>4

(***************************************************************************)
(* The records of key j after an append: those before it, and the new one  *)
(* if it writes j.                                                         *)
(***************************************************************************)
LEMMA AppendedRecords ==
    ASSUME IInv, Up, NEW r \in WalRecord \cup {nullopt},
           log' = [log EXCEPT ![writer] = Append(@, r)],
           NEW w \in WalId, NEW j
    PROVE  /\ \A n : IsRecord(w, n, j) =>
                        IsRecord(w, n, j)' /\ log'[w][n] = log[w][n]
           /\ \A n : IsRecord(w, n, j)' =>
                        \/ IsRecord(w, n, j)
                        \/ /\ w = writer /\ n = Len(log[writer]) + 1
                           /\ r # nullopt /\ r.key = j
<1>. DEFINE L == Len(log[writer])
<1>1. /\ writer \in WalId
      /\ \A v \in WalId : v # writer => log'[v] = log[v]
      /\ DOMAIN log'[writer] = 1..(L + 1)
      /\ log'[writer][L + 1] = r
      /\ \A n \in DOMAIN log[writer] : log'[writer][n] = log[writer][n]
  BY Zenon, AppendedLog
<1>2. L \in Nat /\ DOMAIN log[writer] = 1..L
  BY Zenon, <1>1, SegmentLemma
<1>3. CASE w # writer
  BY Zenon, <1>1, <1>3 DEF IsRecord
<1>4. CASE w = writer
  <2>1. \A n \in 1..L : n \in 1..(L + 1) /\ n \in DOMAIN log[writer]
    BY <1>2
  <2>2. \A n \in 1..(L + 1) : n \in 1..L \/ n = L + 1
    BY <1>2
  <2>. HIDE DEF L
  <2>3. \A n : IsRecord(w, n, j) => IsRecord(w, n, j)' /\ log'[w][n] = log[w][n]
    BY Zenon, <1>1, <1>2, <1>4, <2>1 DEF IsRecord
  <2>4. \A n : IsRecord(w, n, j)' => IsRecord(w, n, j) \/ (n = L + 1 /\ r # nullopt /\ r.key = j)
    BY Zenon, <1>1, <1>2, <1>4, <2>2 DEF IsRecord
  <2>. QED
    BY Zenon, <1>4, <2>3, <2>4 DEF L
<1>. QED
  BY Zenon, <1>3, <1>4

(***************************************************************************)
(* If the records of key j in a segment are the same, so is the last one.  *)
(***************************************************************************)
LEMMA LastKept ==
    ASSUME NEW w, NEW j, \A n : IsRecord(w, n, j)' <=> IsRecord(w, n, j)
    PROVE  \A n : IsLast(w, n, j)' <=> IsLast(w, n, j)
<1>1. \A n : IsLast(w, n, j) <=> IsRecord(w, n, j) /\ \A m : IsRecord(w, m, j) => m <= n
  BY Zenon DEF IsLast, IsRecord
<1>2. \A n : IsLast(w, n, j)' <=> IsRecord(w, n, j)' /\ \A m : IsRecord(w, m, j)' => m <= n
  BY Zenon DEF IsLast, IsRecord
<1>. QED
  BY Zenon, <1>1, <1>2

-----------------------------------------------------------------------------
(***************************************************************************)
(* What the invariant says of the disk survives a step that leaves tables, *)
(* records and the expected values alone, or makes a key uncertain.        *)
(***************************************************************************)
LEMMA SameDisk ==
    ASSUME LogShape, DiskOrdered, Durable,
           UNCHANGED <<log, table, kv>>, unsure \subseteq unsure'
    PROVE  LogShape' /\ DiskOrdered' /\ Durable'
<1>1. LogShape'
  BY Zenon DEF LogShape, OneWalHoldsRecords
<1>2. \A w, n, k : IsLast(w, n, k)' <=> IsLast(w, n, k)
  BY DEF IsLast, IsRecord
<1>3. DiskOrdered'
  BY Zenon, <1>2 DEF DiskOrdered
<1>4. \A k : NoRecord(k)' <=> NoRecord(k)
  BY Zenon DEF NoRecord, IsRecord
<1>5. \A k : LookupInternal(SstId, k)' = LookupInternal(SstId, k)
  BY Zenon DEF LookupInternal
<1>6. Durable'
  BY Zenon, <1>2, <1>4, <1>5 DEF Durable
<1>. QED
  BY Zenon, <1>1, <1>3, <1>6

(***************************************************************************)
(* When the object is gone, only the disk is left to be right.             *)
(***************************************************************************)
LEMMA DownDInv ==
    ASSUME Down, LogShape', DiskOrdered', Durable'
    PROVE  DInv'
<1>. USE DEF Down, Up
<1>1. WriterLast' /\ OnDisk' /\ MemtableEmpty'
  BY Zenon DEF WriterLast, OnDisk, MemtableEmpty, Flushed
<1>2. TaskOutput'
  BY Zenon DEF TaskOutput, Writing, Written
<1>3. MemtableOrdered' /\ InHand' /\ Replayed' /\ Current'
  BY Zenon DEF MemtableOrdered, InHand, Replayed, Current
<1>. QED
  BY Zenon, <1>1, <1>2, <1>3 DEF DInv

(***************************************************************************)
(* The process dies between two steps, or open() gives up.                 *)
(***************************************************************************)
LEMMA CrashDInv ==
    ASSUME DInv, Down, UNCHANGED <<log, table, kv, unsure>>
    PROVE  DInv'
  BY Zenon, DownDInv, SameDisk DEF DInv

(***************************************************************************)
(* A step within an open engine that leaves tables, records, memtable and  *)
(* version alone keeps reads, and everything they rest on.                 *)
(***************************************************************************)
LEMMA QuietStep ==
    ASSUME DInv, UNCHANGED <<log, table, kv, unsure>>,
           UNCHANGED <<memtable, wals, writer, next_wal, version, op>>,
           Up, pc \notin {"replay", "sync", "flush_remove"},
           Up', pc' \notin {"replay", "sync", "flush_remove"},
           Recovering => Recovering'
    PROVE  /\ LogShape' /\ DiskOrdered' /\ Durable' /\ WriterLast'
           /\ MemtableOrdered' /\ InHand' /\ Replayed' /\ Current'
<1>1. LogShape' /\ DiskOrdered' /\ Durable'
  BY Zenon, SameDisk DEF DInv
<1>2. WriterLast'
  BY Zenon DEF DInv, WriterLast
<1>3. \A w, n, k : IsLast(w, n, k)' <=> IsLast(w, n, k)
  BY DEF IsLast, IsRecord
<1>4. MemtableOrdered'
  BY Zenon, <1>3 DEF DInv, MemtableOrdered
<1>5. InHand' /\ Replayed'
  BY Zenon DEF DInv, InHand, Replayed
<1>6. \A k : Get(k)' = Get(k)
  BY Zenon DEF Get, GetInternal, LookupInternal
<1>7. Current'
  BY Zenon, <1>6 DEF DInv, Current
<1>. QED
  BY Zenon, <1>1, <1>2, <1>4, <1>5, <1>7

-----------------------------------------------------------------------------
(***************************************************************************)
(* put() and remove().                                                     *)
(***************************************************************************)

(***************************************************************************)
(* Outside recovery the LSN is above every sequence in use.                *)
(***************************************************************************)
LEMMA SequencesBelow ==
    ASSUME IInv, Up, ~Recovering
    PROVE  /\ lsn \in Nat
           /\ \A k \in Key : memtable[k] # nullopt => memtable[k].sequence < lsn
           /\ \A i \in SstId, k \in Key : table[i][k] # nullopt => table[i][k].sequence < lsn
           /\ \A w \in WalId : \A n \in DOMAIN log[w] :
                 log[w][n] # nullopt => log[w][n].sequence < lsn
<1>1. highest = 0 /\ lsn >= 1 /\ lsn \in Nat
  BY Zenon DEF IInv, Segments, TypeOK
<1>2. \A s \in Nat : Below(s) => s < lsn
  BY <1>1 DEF Below
<1>3. ASSUME NEW k \in Key, memtable[k] # nullopt
      PROVE  memtable[k].sequence < lsn
  <2>1. k \in KeysOf(memtable) /\ memtable \in Table
    BY Zenon, <1>3 DEF KeysOf, IInv, TypeOK
  <2>. QED
    BY Zenon, <1>2, <2>1, EntryLemma DEF IInv, Sequenced
<1>4. ASSUME NEW i \in SstId, NEW k \in Key, table[i][k] # nullopt
      PROVE  table[i][k].sequence < lsn
  <2>1. k \in KeysOf(table[i]) /\ table[i] \in Table
    BY Zenon, <1>4 DEF KeysOf, IInv, TypeOK
  <2>. QED
    BY Zenon, <1>2, <2>1, EntryLemma DEF IInv, Sequenced
<1>5. ASSUME NEW w \in WalId, NEW n \in DOMAIN log[w], log[w][n] # nullopt
      PROVE  log[w][n].sequence < lsn
  <2>1. log[w][n].sequence \in Nat
    BY Zenon, <1>5, SegmentLemma
  <2>. QED
    BY Zenon, <1>2, <1>5, <2>1 DEF IInv, Sequenced
<1>. QED
  BY Zenon, <1>1, <1>3, <1>4, <1>5

(***************************************************************************)
(* The record is appended: it is the newest version of its key anywhere,   *)
(* and its value is what the key now reads after a recovery.               *)
(***************************************************************************)
LEMMA PutAppendDInv ==
    ASSUME IInv, DInv, NEW k \in Key, NEW v \in Value \cup {nullopt}, PutAppend(k, v)
    PROVE  DInv'
<1>1. PICK r : r = RecordOf(k, v)
  BY Zenon
<1>2. Up /\ Up' /\ ~Recovering
  BY Zenon DEF PutAppend, Up, Recovering, IInv, Callers
<1>3. writer \in WalId
  BY Zenon, <1>2 DEF IInv, Segments, TypeOK
<1>4. PICK a \in WalId : a = writer
  BY Zenon, <1>3
<1>5. PICK L \in Nat : L = Len(log[a]) /\ DOMAIN log[a] = 1..L
  BY Zenon, SegmentLemma
<1>6. /\ pc = "idle" /\ pc' = "sync" /\ lsn <= MaxLsn
      /\ log' = [log EXCEPT ![writer] = Append(@, r)]
      /\ op' = r
      /\ kv' = [kv EXCEPT ![k] = v]
      /\ unsure' = unsure \ {k}
      /\ UNCHANGED <<sst, table, wals, memtable, next_wal, writer, version, caller>>
  BY Zenon, <1>1, <1>4 DEF PutAppend, files
<1>7. /\ r \in WalRecord /\ r # nullopt
      /\ r.key = k /\ r.value = v /\ r.sequence = lsn
      /\ r.op_type = "DELETE_ROW" <=> r.value = nullopt
  <2>1. r \in WalRecord
    <3>1. lsn \in Sequence
      <4>1. lsn \in Nat
        BY Zenon DEF IInv, TypeOK
      <4>. QED
        BY ONLY SMTT(30), <1>6, <4>1, LsnAssumption DEF Sequence
    <3>2. (IF v = nullopt THEN "DELETE_ROW" ELSE "PUT_ROW") \in {"PUT_ROW", "DELETE_ROW"}
      BY Zenon
    <3>. QED
      BY Zenon, <1>1, <3>1, <3>2 DEF RecordOf, WalRecord
  <2>2. r # nullopt
    BY Zenon, <2>1, NulloptAssumption
  <2>. QED
    BY ZenonT(30), <1>1, <2>1, <2>2 DEF RecordOf
<1>8. EntryOf(r).sequence = lsn
  BY Zenon, <1>7 DEF EntryOf
<1>9. /\ \A w \in WalId : w # a => log'[w] = log[w]
      /\ Len(log'[a]) = L + 1
      /\ DOMAIN log'[a] = 1..(L + 1)
      /\ log'[a][L + 1] = r
      /\ \A n \in DOMAIN log[a] : log'[a][n] = log[a][n]
  BY Zenon, <1>2, <1>4, <1>5, <1>6, <1>7, AppendedLog
<1>10. \A w \in WalId : w # a => log[w] = <<>> /\ log'[w] = <<>>
  BY Zenon, <1>2, <1>4, <1>6, <1>9 DEF DInv, WriterLast
<1>11. /\ \A j \in Key : memtable[j] # nullopt => memtable[j].sequence < lsn
       /\ \A i \in SstId, j \in Key : table[i][j] # nullopt => table[i][j].sequence < lsn
       /\ \A n \in DOMAIN log[a] : log[a][n] # nullopt => log[a][n].sequence < lsn
  BY Zenon, <1>2, <1>9, SequencesBelow
<1>12. \A n \in DOMAIN log[a] : log[a][n] # nullopt
  BY Zenon, <1>2, <1>4 DEF DInv, WriterLast
<1>13. /\ \A n \in 1..(L + 1) : n \in DOMAIN log[a] \/ n = L + 1
       /\ L + 1 \in 1..(L + 1) /\ \A n \in DOMAIN log[a] : n # L + 1 /\ n <= L + 1
  BY <1>5
<1>14. LogShape'
  <2>1. OneWalHoldsRecords'
    BY Zenon, <1>10 DEF OneWalHoldsRecords
  <2>2. \A n \in DOMAIN log'[a] : log'[a][n] # nullopt
    BY Zenon, <1>7, <1>9, <1>12, <1>13
  <2>3. \A w \in WalId : w # a => DOMAIN log'[w] = {}
    BY <1>10
  <2>4. \A w \in WalId : \A n \in DOMAIN log'[w] : log'[w][n] = nullopt => n = Len(log'[w])
    BY Zenon, <2>2, <2>3
  <2>5. \A m, n \in DOMAIN log'[a] : m < n =>
            log'[a][m].sequence < log'[a][n].sequence
    <3>. SUFFICES ASSUME NEW m \in DOMAIN log'[a], NEW n \in DOMAIN log'[a], m < n
                  PROVE  log'[a][m].sequence < log'[a][n].sequence
      BY ZenonT(30)
    <3>1. m \in DOMAIN log[a]
      BY Zenon, <1>5, <1>9, TailLemma
    <3>2. CASE n \in DOMAIN log[a]
      BY Zenon, <1>9, <1>12, <3>1, <3>2 DEF DInv, LogShape
    <3>3. CASE n = L + 1
      BY ZenonT(30), <1>7, <1>9, <1>11, <1>12, <3>1, <3>3
    <3>. QED
      BY Zenon, <1>9, <1>13, <3>2, <3>3
  <2>6. \A n \in DOMAIN log'[a] :
            log'[a][n].op_type = "DELETE_ROW" <=> log'[a][n].value = nullopt
    <3>1. \A n \in DOMAIN log[a] :
              log[a][n].op_type = "DELETE_ROW" <=> log[a][n].value = nullopt
      BY Zenon, <1>12 DEF DInv, LogShape
    <3>. SUFFICES ASSUME NEW n \in DOMAIN log'[a]
                  PROVE  log'[a][n].op_type = "DELETE_ROW" <=> log'[a][n].value = nullopt
      BY Zenon
    <3>2. CASE n \in DOMAIN log[a]
      BY ZenonT(30), <1>9, <3>1, <3>2
    <3>3. CASE n = L + 1
      BY ZenonT(30), <1>7, <1>9, <3>3
    <3>. QED
      BY Zenon, <1>9, <1>13, <3>2, <3>3
  <2>. QED
    BY Zenon, <2>1, <2>3, <2>4, <2>5, <2>6 DEF LogShape
<1>15. /\ \A w \in WalId, j \in Key : \A n : IsRecord(w, n, j) =>
              IsRecord(w, n, j)' /\ log'[w][n] = log[w][n]
       /\ \A w \in WalId, j \in Key : \A n : IsRecord(w, n, j)' =>
              IsRecord(w, n, j) \/ (w = a /\ n = L + 1 /\ j = k)
  <2>. SUFFICES ASSUME NEW w \in WalId, NEW j \in Key
                PROVE  /\ \A n : IsRecord(w, n, j) =>
                             IsRecord(w, n, j)' /\ log'[w][n] = log[w][n]
                       /\ \A n : IsRecord(w, n, j)' =>
                             IsRecord(w, n, j) \/ (w = a /\ n = L + 1 /\ j = k)
    BY Zenon
  <2>1. /\ \A n : IsRecord(w, n, j) => IsRecord(w, n, j)' /\ log'[w][n] = log[w][n]
        /\ \A n : IsRecord(w, n, j)' =>
                     \/ IsRecord(w, n, j)
                     \/ w = a /\ n = L + 1 /\ r # nullopt /\ r.key = j
    <3>1. r \in WalRecord \cup {nullopt} /\ log' = [log EXCEPT ![writer] = Append(@, r)]
      BY Zenon, <1>6, <1>7
    <3>2. /\ \A n : IsRecord(w, n, j) => IsRecord(w, n, j)' /\ log'[w][n] = log[w][n]
          /\ \A n : IsRecord(w, n, j)' =>
                     \/ IsRecord(w, n, j)
                     \/ /\ w = writer /\ n = Len(log[writer]) + 1
                        /\ r # nullopt /\ r.key = j
      BY <1>2, <3>1, AppendedRecords, ZenonT(30)
    <3>. QED
      BY Zenon, <1>4, <1>5, <3>2
  <2>. QED
    BY Zenon, <1>7, <2>1
<1>16. \A w \in WalId, j \in Key : j # k => \A n : IsLast(w, n, j)' <=> IsLast(w, n, j)
  <2>. SUFFICES ASSUME NEW w \in WalId, NEW j \in Key, j # k
                PROVE  \A n : IsLast(w, n, j)' <=> IsLast(w, n, j)
    BY Zenon
  <2>1. \A n : IsRecord(w, n, j)' <=> IsRecord(w, n, j)
    BY Zenon, <1>15
  <2>. QED
    BY Zenon, <2>1, LastKept
<1>16a. \A w \in WalId, j \in Key : j # k => \A n : IsLast(w, n, j) =>
            /\ IsLast(w, n, j)' /\ n \in DOMAIN log[w] /\ n \in DOMAIN log'[w]
            /\ log'[w][n] = log[w][n]
  <2>. SUFFICES ASSUME NEW w \in WalId, NEW j \in Key, j # k, NEW n, IsLast(w, n, j)
                PROVE  /\ IsLast(w, n, j)' /\ n \in DOMAIN log[w] /\ n \in DOMAIN log'[w]
                       /\ log'[w][n] = log[w][n]
    BY Zenon
  <2>1. IsLast(w, n, j)' /\ IsRecord(w, n, j) /\ IsRecord(w, n, j)'
    BY Zenon, <1>16 DEF IsLast
  <2>2. log'[w][n] = log[w][n]
    BY Zenon, <1>15, <2>1
  <2>3. n \in DOMAIN log[w] /\ n \in DOMAIN log'[w]
    BY ONLY <2>1, Zenon DEF IsRecord
  <2>. QED
    BY Zenon, <2>1, <2>2, <2>3
<1>17. /\ IsRecord(a, L + 1, k)'
       /\ \A w \in WalId : \A n : IsRecord(w, n, k)' => w = a /\ n <= L + 1
  <2>1. IsRecord(a, L + 1, k)'
    BY Zenon, <1>7, <1>9, <1>13 DEF IsRecord
  <2>2. \A w \in WalId : \A n \in DOMAIN log'[w] : w = a /\ n <= L + 1
    BY Zenon, <1>9, <1>10, EmptyLogLemma, TailLemma
  <2>. QED
    BY Zenon, <2>1, <2>2 DEF IsRecord
<1>18. /\ IsLast(a, L + 1, k)'
       /\ \A w \in WalId : \A n : IsLast(w, n, k)' => w = a /\ n = L + 1
  <2>1. IsLast(a, L + 1, k)'
    BY Zenon, <1>9, <1>17 DEF IsLast
  <2>2. ASSUME NEW w \in WalId, NEW n, IsLast(w, n, k)'
        PROVE  w = a /\ n = L + 1
    <3>1. IsRecord(w, n, k)' /\ w = a /\ n <= L + 1
      BY Zenon, <1>17, <2>2 DEF IsLast
    <3>2. n \in 1..(L + 1) /\ L + 1 <= n
      BY Zenon, <1>9, <1>13, <1>17, <2>2, <3>1 DEF IsLast, IsRecord
    <3>. QED
      BY <3>1, <3>2
  <2>. QED
    BY Zenon, <2>1, <2>2
<1>19. DiskOrdered'
  <2>1. \A i \in SstId, j \in Key, w \in WalId : \A n \in DOMAIN log'[w] :
            table[i][j] # nullopt /\ IsLast(w, n, j)' => Older(table[i][j], EntryOf(log'[w][n]))
    <3>. SUFFICES ASSUME NEW i \in SstId, NEW j \in Key, NEW w \in WalId, NEW n \in DOMAIN log'[w],
                         table[i][j] # nullopt, IsLast(w, n, j)'
                  PROVE  Older(table[i][j], EntryOf(log'[w][n]))
      BY Zenon
    <3>1. CASE j = k
      BY Zenon, <1>8, <1>9, <1>11, <1>18, <3>1 DEF Older
    <3>2. CASE j # k
      <4>1. IsLast(w, n, j) /\ n \in DOMAIN log[w] /\ log'[w][n] = log[w][n]
        BY Zenon, <1>16, <1>16a, <3>2
      <4>. QED
        BY Zenon, <4>1 DEF DInv, DiskOrdered
    <3>. QED
      BY Zenon, <3>1, <3>2
  <2>. QED
    BY Zenon, <1>6, <2>1 DEF DInv, DiskOrdered
<1>20. Durable'
  <2>. SUFFICES ASSUME NEW j \in Key \ unsure'
                PROVE  /\ \A w \in WalId : \A n \in DOMAIN log'[w] :
                              IsLast(w, n, j)' => log'[w][n].value = kv'[j]
                       /\ NoRecord(j)' => Visible(LookupInternal(SstId, j))' = kv'[j]
    BY Zenon DEF Durable
  <2>1. CASE j = k
    <3>1. kv'[k] = v
      BY Zenon, <1>6 DEF IInv, TypeOK
    <3>2. ~NoRecord(k)'
      BY Zenon, <1>9, <1>13, <1>17 DEF NoRecord
    <3>. QED
      BY Zenon, <1>7, <1>9, <1>18, <2>1, <3>1, <3>2
  <2>2. CASE j # k
    <3>1. j \in Key \ unsure /\ kv'[j] = kv[j]
      BY Zenon, <1>6, <2>2 DEF IInv, TypeOK
    <3>2. LookupInternal(SstId, j)' = LookupInternal(SstId, j)
      BY Zenon, <1>6 DEF LookupInternal
    <3>3. NoRecord(j)' => NoRecord(j)
      <4>1. \A w, n : IsRecord(w, n, j)' => n \in DOMAIN log'[w]
        BY Zenon DEF IsRecord
      <4>. QED
        BY Zenon, <1>15, <4>1 DEF NoRecord
    <3>4. \A w \in WalId : \A n : IsLast(w, n, j)' =>
              IsLast(w, n, j) /\ n \in DOMAIN log[w] /\ log'[w][n] = log[w][n]
      BY Zenon, <1>16, <1>16a, <2>2
    <3>5. /\ \A w \in WalId : \A n \in DOMAIN log[w] :
                 IsLast(w, n, j) => log[w][n].value = kv[j]
          /\ NoRecord(j) => Visible(LookupInternal(SstId, j)) = kv[j]
      BY Zenon, <3>1 DEF DInv, Durable
    <3>6. Visible(LookupInternal(SstId, j))' = Visible(LookupInternal(SstId, j))
      BY Zenon, <3>2 DEF Visible
    <3>7. ASSUME NEW w \in WalId, NEW n, IsLast(w, n, j)'
          PROVE  log'[w][n].value = kv'[j]
      <4>1. IsLast(w, n, j) /\ n \in DOMAIN log[w] /\ log'[w][n] = log[w][n]
        BY Zenon, <3>4, <3>7
      <4>2. log[w][n].value = kv[j]
        BY Zenon, <3>5, <4>1
      <4>. QED
        BY Zenon, <3>1, <4>1, <4>2
    <3>8. NoRecord(j)' => Visible(LookupInternal(SstId, j))' = kv'[j]
      BY Zenon, <3>1, <3>3, <3>5, <3>6
    <3>. QED
      BY Zenon, <3>7, <3>8
  <2>. QED
    BY Zenon, <2>1, <2>2
<1>21. WriterLast'
  <2>1. \A n \in DOMAIN log'[a] : log'[a][n] # nullopt
    BY Zenon, <1>7, <1>9, <1>12, <1>13
  <2>. QED
    BY Zenon, <1>2, <1>4, <1>6, <1>10, <2>1 DEF DInv, WriterLast
<1>22. OnDisk' /\ TaskOutput' /\ MemtableEmpty' /\ Replayed'
  BY Zenon, <1>2, <1>6 DEF DInv, OnDisk, Complete, Unpublished, Written, Writing, TaskOutput,
     MemtableEmpty, Flushed, Replayed, IInv, Callers
<1>23. MemtableOrdered'
  <2>1. ASSUME NEW j \in Key, memtable[j] # nullopt
        PROVE  \E w \in WalId : \E n \in DOMAIN log'[w] :
                   IsLast(w, n, j)' /\ Older(memtable[j], EntryOf(log'[w][n]))
    <3>1. CASE j = k
      BY Zenon, <1>8, <1>9, <1>11, <1>13, <1>18, <2>1, <3>1 DEF Older
    <3>2. CASE j # k
      <4>1. PICK w \in WalId : \E n \in DOMAIN log[w] :
                IsLast(w, n, j) /\ Older(memtable[j], EntryOf(log[w][n]))
        BY Zenon, <1>2, <2>1 DEF DInv, MemtableOrdered
      <4>2. PICK n \in DOMAIN log[w] : IsLast(w, n, j) /\ Older(memtable[j], EntryOf(log[w][n]))
        BY Zenon, <4>1
      <4>3. IsLast(w, n, j)' /\ n \in DOMAIN log'[w] /\ log'[w][n] = log[w][n]
        BY Zenon, <1>16a, <3>2, <4>2
      <4>. QED
        BY Zenon, <4>2, <4>3
    <3>. QED
      BY Zenon, <3>1, <3>2
  <2>. QED
    BY Zenon, <1>2, <1>6, <2>1 DEF DInv, MemtableOrdered
<1>24. InHand'
  <2>1. log'[a] # <<>> /\ log'[a][Len(log'[a])] = r
    BY Zenon, <1>9, EmptyLogLemma
  <2>2. kv'[k] = v /\ k \notin unsure'
    BY Zenon, <1>6 DEF IInv, TypeOK
  <2>. QED
    BY ZenonT(30), <1>4, <1>6, <1>7, <1>11, <2>1, <2>2 DEF InHand
<1>25. Current'
  <2>1. \A j : Get(j)' = Get(j)
    BY Zenon, <1>6 DEF Get, GetInternal, LookupInternal
  <2>2. \A j \in Key : j # k => kv'[j] = kv[j]
    BY Zenon, <1>6 DEF IInv, TypeOK
  <2>. QED
    BY Zenon, <1>2, <1>6, <1>7, <2>1, <2>2 DEF DInv, Current
<1>. QED
  BY Zenon, <1>14, <1>19, <1>20, <1>21, <1>22, <1>23, <1>24, <1>25 DEF DInv

(***************************************************************************)
(* The process dies inside append(): a torn tail is no record.             *)
(***************************************************************************)
LEMMA PutAppendTornDInv ==
    ASSUME IInv, DInv, PutAppendTorn
    PROVE  DInv'
<1>1. Up /\ ~Recovering /\ pc = "idle"
  BY Zenon DEF PutAppendTorn, Up, Recovering, IInv, Callers
<1>2. log' = [log EXCEPT ![writer] = Append(@, nullopt)] /\ nullopt \in WalRecord \cup {nullopt}
  BY Zenon DEF PutAppendTorn
<1>3. Down /\ UNCHANGED <<table, kv, unsure>>
  BY Zenon DEF PutAppendTorn, files, history
<1>4. PICK a \in WalId : a = writer
  BY Zenon, <1>1 DEF IInv, Segments, TypeOK
<1>5. PICK L \in Nat : L = Len(log[a]) /\ DOMAIN log[a] = 1..L
  BY Zenon, SegmentLemma
<1>6. /\ \A w \in WalId : w # a => log'[w] = log[w]
      /\ Len(log'[a]) = L + 1
      /\ DOMAIN log'[a] = 1..(L + 1)
      /\ log'[a][L + 1] = nullopt
      /\ \A n \in DOMAIN log[a] : log'[a][n] = log[a][n]
  BY <1>1, <1>2, <1>4, <1>5, AppendedLog, ZenonT(30)
<1>7. \A w \in WalId : w # a => log'[w] = <<>> /\ DOMAIN log'[w] = {}
  <2>1. \A w \in WalId : w # a => log[w] = <<>>
    BY Zenon, <1>1, <1>4 DEF DInv, WriterLast
  <2>. QED
    BY Zenon, <1>6, <2>1, EmptyLogLemma
<1>8. \A n \in DOMAIN log'[a] : \/ n \in DOMAIN log[a] /\ log'[a][n] = log[a][n]
                                \/ n = Len(log'[a]) /\ log'[a][n] = nullopt
  <2>1. \A n \in 1..(L + 1) : n \in 1..L \/ n = L + 1
    OBVIOUS
  <2>. QED
    BY Zenon, <1>5, <1>6, <2>1
<1>9. LogShape'
  <2>1. OneWalHoldsRecords'
    BY Zenon, <1>7 DEF OneWalHoldsRecords
  <2>2. \A n \in DOMAIN log[a] : log[a][n] # nullopt
    BY Zenon, <1>1, <1>4 DEF DInv, WriterLast
  <2>3. \A n \in DOMAIN log'[a] : log'[a][n] = nullopt => n = Len(log'[a])
    BY Zenon, <1>8, <2>2
  <2>4. \A m, n \in DOMAIN log'[a] : m < n /\ log'[a][m] # nullopt /\ log'[a][n] # nullopt =>
            log'[a][m].sequence < log'[a][n].sequence
    BY ZenonT(30), <1>8 DEF DInv, LogShape
  <2>5. \A n \in DOMAIN log'[a] : log'[a][n] # nullopt =>
            (log'[a][n].op_type = "DELETE_ROW" <=> log'[a][n].value = nullopt)
    BY ZenonT(30), <1>8 DEF DInv, LogShape
  <2>. QED
    BY Zenon, <1>7, <2>1, <2>3, <2>4, <2>5 DEF LogShape
<1>10. /\ \A w \in WalId, j \in Key : \A n : IsRecord(w, n, j)' <=> IsRecord(w, n, j)
       /\ \A w \in WalId, j \in Key : \A n : IsRecord(w, n, j) => log'[w][n] = log[w][n]
  <2>. SUFFICES ASSUME NEW w \in WalId, NEW j \in Key
                PROVE  /\ \A n : IsRecord(w, n, j)' <=> IsRecord(w, n, j)
                       /\ \A n : IsRecord(w, n, j) => log'[w][n] = log[w][n]
    BY Zenon
  <2>1. /\ \A n : IsRecord(w, n, j) => IsRecord(w, n, j)' /\ log'[w][n] = log[w][n]
        /\ \A n : IsRecord(w, n, j)' =>
                     \/ IsRecord(w, n, j)
                     \/ /\ w = writer /\ n = Len(log[writer]) + 1
                        /\ nullopt # nullopt /\ nullopt.key = j
    BY <1>1, <1>2, AppendedRecords, Zenon
  <2>. QED
    BY <2>1, Zenon
<1>11. \A w \in WalId, j \in Key : \A n : IsLast(w, n, j)' <=> IsLast(w, n, j)
  BY Zenon, <1>10, LastKept
<1>12. \A w \in WalId, j \in Key : \A n : IsLast(w, n, j)' =>
           IsLast(w, n, j) /\ n \in DOMAIN log[w] /\ log'[w][n] = log[w][n]
  <2>1. \A w, n, j : IsLast(w, n, j) => IsRecord(w, n, j) /\ n \in DOMAIN log[w]
    BY Zenon DEF IsLast, IsRecord
  <2>. QED
    BY Zenon, <1>10, <1>11, <2>1
<1>13. DiskOrdered'
  <2>1. ASSUME NEW i \in SstId, NEW j \in Key, NEW w \in WalId, NEW n \in DOMAIN log'[w],
               table[i][j] # nullopt, IsLast(w, n, j)'
        PROVE  Older(table[i][j], EntryOf(log'[w][n]))
    <3>1. IsLast(w, n, j) /\ n \in DOMAIN log[w] /\ log'[w][n] = log[w][n]
      BY Zenon, <1>12, <2>1
    <3>. QED
      BY Zenon, <2>1, <3>1 DEF DInv, DiskOrdered
  <2>. QED
    BY Zenon, <1>3, <2>1 DEF DInv, DiskOrdered
<1>14. Durable'
  <2>1. \A j \in Key : NoRecord(j)' => NoRecord(j)
    <3>1. \A w, n, j : IsRecord(w, n, j)' => n \in DOMAIN log'[w]
      BY Zenon DEF IsRecord
    <3>. QED
      BY Zenon, <1>10, <3>1 DEF NoRecord
  <2>2. ASSUME NEW j \in Key \ unsure
        PROVE  /\ \A w \in WalId : \A n \in DOMAIN log'[w] :
                      IsLast(w, n, j)' => log'[w][n].value = kv[j]
               /\ NoRecord(j)' => Visible(LookupInternal(SstId, j))' = kv[j]
    <3>1. /\ \A w \in WalId : \A n \in DOMAIN log[w] :
                 IsLast(w, n, j) => log[w][n].value = kv[j]
          /\ NoRecord(j) => Visible(LookupInternal(SstId, j)) = kv[j]
      BY Zenon DEF DInv, Durable
    <3>2. Visible(LookupInternal(SstId, j))' = Visible(LookupInternal(SstId, j))
      <4>1. LookupInternal(SstId, j)' = LookupInternal(SstId, j)
        BY Zenon, <1>3 DEF LookupInternal
      <4>. QED
        BY Zenon, <4>1 DEF Visible
    <3>3. ASSUME NEW w \in WalId, NEW n, IsLast(w, n, j)'
          PROVE  log'[w][n].value = kv[j]
      <4>1. IsLast(w, n, j) /\ n \in DOMAIN log[w] /\ log'[w][n] = log[w][n]
        BY Zenon, <1>12, <3>3
      <4>2. log[w][n].value = kv[j]
        BY Zenon, <3>1, <4>1
      <4>. QED
        BY Zenon, <4>1, <4>2
    <3>. QED
      BY Zenon, <2>1, <3>1, <3>2, <3>3
  <2>. QED
    BY Zenon, <1>3, <2>2 DEF Durable
<1>. QED
  BY Zenon, <1>3, <1>9, <1>13, <1>14, DownDInv

(***************************************************************************)
(* Applying a record writes its entry, and nothing else.                   *)
(***************************************************************************)
LEMMA AppliedEntry ==
    ASSUME NEW t \in Table, NEW r \in WalRecord
    PROVE  /\ ApplyRecord(t, r)[r.key] = EntryOf(r)
           /\ \A j \in Key : j # r.key => ApplyRecord(t, r)[j] = t[j]
           /\ EntryOf(r) # nullopt
           /\ EntryOf(r).sequence = r.sequence
           /\ (r.op_type = "DELETE_ROW" <=> r.value = nullopt) => Visible(EntryOf(r)) = r.value
<1>1. r.key \in Key
  BY Zenon DEF WalRecord
<1>2. ApplyRecord(t, r) = [t EXCEPT ![r.key] = EntryOf(r)]
  BY Zenon DEF ApplyRecord, MemtablePut, MemtableRemove, EntryOf
<1>3. EntryOf(r) \in InternalValue
  BY Zenon DEF EntryOf, InternalValue, WalRecord
<1>4. EntryOf(r) # nullopt
  BY Zenon, <1>3, NulloptAssumption
<1>5. EntryOf(r).sequence = r.sequence
  BY Zenon DEF EntryOf
<1>6. (r.op_type = "DELETE_ROW" <=> r.value = nullopt) => Visible(EntryOf(r)) = r.value
  BY Zenon, <1>4 DEF EntryOf, Visible
<1>. QED
  BY Zenon, <1>1, <1>2, <1>4, <1>5, <1>6 DEF Table

(***************************************************************************)
(* The record goes to the memtable, where its key now reads its value.     *)
(***************************************************************************)
LEMMA PutApplyDInv ==
    ASSUME IInv, DInv, PutApply
    PROVE  DInv'
<1>1. /\ pc = "sync" /\ pc' \in {"flush", "idle"}
      /\ memtable' = ApplyRecord(memtable, op)
      /\ op' = nullopt /\ caller' = "client"
      /\ UNCHANGED <<sst, table, wals, log, next_wal, writer, version, kv, unsure>>
  BY Zenon DEF PutApply, disk, files, history
<1>2. Up /\ Up' /\ ~Recovering
  BY Zenon, <1>1 DEF Up, Recovering, IInv, Callers
<1>3. PICK r \in WalRecord : r = op
  BY Zenon, <1>1 DEF IInv, Record
<1>4. r.key \in Key
  BY Zenon DEF WalRecord
<1>5. PICK a \in WalId : a = writer
  BY Zenon, <1>2 DEF IInv, Segments, TypeOK
<1>6. PICK L \in Nat : L = Len(log[a]) /\ DOMAIN log[a] = 1..L
  BY Zenon, SegmentLemma
<1>7. L \in DOMAIN log[a] /\ log[a][L] = r
  <2>1. log[a] # <<>> /\ log[a][L] = r
    BY Zenon, <1>1, <1>3, <1>5, <1>6 DEF DInv, InHand
  <2>2. log[a] \in Seq(WalRecord \cup {nullopt})
    BY Zenon DEF IInv, TypeOK
  <2>. QED
    BY <1>6, <2>1, <2>2
<1>8. r # nullopt
  BY Zenon, NulloptAssumption
<1>9. IsLast(a, L, r.key)
  BY <1>6, <1>7, <1>8 DEF IsLast, IsRecord
<1>10. /\ memtable'[r.key] = EntryOf(r)
       /\ \A j \in Key : j # r.key => memtable'[j] = memtable[j]
       /\ EntryOf(r) # nullopt
       /\ EntryOf(r).sequence = r.sequence
       /\ Visible(EntryOf(r)) = r.value
  <2>1. r.op_type = "DELETE_ROW" <=> r.value = nullopt
    BY Zenon, <1>7, <1>8 DEF DInv, LogShape
  <2>2. memtable \in Table
    BY Zenon DEF IInv, TypeOK
  <2>. QED
    BY Zenon, <1>1, <1>3, <2>1, <2>2, AppliedEntry
<1>11. LogShape' /\ DiskOrdered' /\ Durable'
  BY Zenon, <1>1, SameDisk DEF DInv
<1>12. WriterLast' /\ InHand' /\ Replayed'
  BY Zenon, <1>1, <1>2 DEF DInv, WriterLast, InHand, Replayed
<1>13. OnDisk' /\ TaskOutput' /\ MemtableEmpty'
  BY Zenon, <1>1, <1>2 DEF DInv, OnDisk, Complete, Unpublished, Written, Writing, TaskOutput,
     MemtableEmpty, Flushed
<1>14. MemtableOrdered'
  <2>1. \A w, n, j : IsLast(w, n, j)' <=> IsLast(w, n, j)
    BY ZenonT(30), <1>1 DEF IsLast, IsRecord
  <2>2. \A i \in SstId : table[i][r.key] # nullopt => Older(table[i][r.key], EntryOf(r))
    BY Zenon, <1>1, <1>3, <1>10 DEF DInv, InHand, Older
  <2>3. \A i \in SstId, j \in Key : table[i][j] # nullopt /\ memtable'[j] # nullopt =>
            Older(table[i][j], memtable'[j])
    BY Zenon, <1>1, <1>2, <1>10, <2>2 DEF DInv, MemtableOrdered
  <2>4. Older(EntryOf(r), EntryOf(r))
    BY ZenonT(30) DEF Older
  <2>5. \A j \in Key : memtable'[j] # nullopt =>
            \E w \in WalId : \E n \in DOMAIN log[w] :
                IsLast(w, n, j) /\ Older(memtable'[j], EntryOf(log[w][n]))
    <3>. SUFFICES ASSUME NEW j \in Key, memtable'[j] # nullopt
                  PROVE  \E w \in WalId : \E n \in DOMAIN log[w] :
                             IsLast(w, n, j) /\ Older(memtable'[j], EntryOf(log[w][n]))
      BY Zenon
    <3>1. CASE j = r.key
      BY Zenon, <1>7, <1>9, <1>10, <2>4, <3>1
    <3>2. CASE j # r.key
      BY Zenon, <1>2, <1>10, <3>2 DEF DInv, MemtableOrdered
    <3>. QED
      BY Zenon, <3>1, <3>2
  <2>. QED
    BY Zenon, <1>1, <2>1, <2>3, <2>5 DEF MemtableOrdered
<1>15. Current'
  <2>1. Get(r.key)' = kv[r.key]
    <3>1. kv[r.key] = r.value
      BY Zenon, <1>1, <1>3 DEF DInv, InHand
    <3>. QED
      BY Zenon, <1>10, <3>1 DEF Get, GetInternal
  <2>2. \A j \in Key : j # r.key => Get(j)' = Get(j)
    BY Zenon, <1>1, <1>10 DEF Get, GetInternal, LookupInternal
  <2>. QED
    BY Zenon, <1>1, <1>2, <1>3, <2>1, <2>2 DEF DInv, Current
<1>. QED
  BY Zenon, <1>11, <1>12, <1>13, <1>14, <1>15 DEF DInv

(***************************************************************************)
(* sync() fails: the record stays in the log and its key is uncertain.     *)
(***************************************************************************)
LEMMA PutSyncFailsDInv ==
    ASSUME IInv, DInv, PutSyncFails
    PROVE  DInv'
<1>1. /\ pc = "sync" /\ pc' = "idle" /\ op' = nullopt
      /\ unsure' = unsure \cup {op.key}
      /\ UNCHANGED <<sst, table, wals, log, memtable, next_wal, writer, version,
                     caller, kv>>
  BY Zenon DEF PutSyncFails, disk, files, engine
<1>2. Up /\ Up' /\ ~Recovering
  BY Zenon, <1>1 DEF Up, Recovering, IInv, Callers
<1>3. LogShape' /\ DiskOrdered' /\ Durable'
  BY Zenon, <1>1, SameDisk DEF DInv
<1>4. WriterLast' /\ InHand' /\ Replayed'
  BY Zenon, <1>1, <1>2 DEF DInv, WriterLast, InHand, Replayed
<1>5. OnDisk' /\ TaskOutput' /\ MemtableEmpty'
  BY Zenon, <1>1, <1>2 DEF DInv, OnDisk, Complete, Unpublished, Written, Writing, TaskOutput,
     MemtableEmpty, Flushed
<1>6. MemtableOrdered'
  <2>1. \A w, n, j : IsLast(w, n, j)' <=> IsLast(w, n, j)
    BY ZenonT(30), <1>1 DEF IsLast, IsRecord
  <2>. QED
    BY ZenonT(30), <1>1, <1>2, <2>1 DEF DInv, MemtableOrdered
<1>7. Current'
  <2>1. \A j : Get(j)' = Get(j)
    BY Zenon, <1>1 DEF Get, GetInternal, LookupInternal
  <2>. QED
    BY Zenon, <1>1, <1>2, <2>1 DEF DInv, Current
<1>. QED
  BY Zenon, <1>3, <1>4, <1>5, <1>6, <1>7 DEF DInv

-----------------------------------------------------------------------------
(***************************************************************************)
(* flush().                                                                *)
(***************************************************************************)

(***************************************************************************)
(* A key has one last record.                                              *)
(***************************************************************************)
LEMMA LastUnique ==
    ASSUME IInv, LogShape, NEW v \in WalId, NEW w \in WalId, NEW m, NEW n, NEW k,
           IsLast(v, m, k), IsLast(w, n, k)
    PROVE  v = w /\ m = n
<1>1. m \in DOMAIN log[v] /\ n \in DOMAIN log[w]
  BY Zenon DEF IsLast, IsRecord
<1>2. log[v] # <<>> /\ log[w] # <<>>
  BY <1>1
<1>3. v = w
  BY Zenon, <1>2 DEF LogShape, OneWalHoldsRecords
<1>4. m \in Nat /\ n \in Nat
  BY Zenon, <1>1, SegmentLemma
<1>5. m <= n /\ n <= m
  BY Zenon, <1>1, <1>3 DEF IsLast
<1>. QED
  BY <1>3, <1>4, <1>5

(***************************************************************************)
(* Every entry on disk is in a readable file.                              *)
(***************************************************************************)
LEMMA HoldersComplete ==
    ASSUME IInv
    PROVE  \A i \in SstId, k \in Key : table[i][k] # nullopt => i \in Complete
  BY Zenon DEF IInv, Files, Complete, EmptyTable

(***************************************************************************)
(* The file a task writes is empty so far, and newer than every other.     *)
(***************************************************************************)
LEMMA OutputNewest ==
    ASSUME IInv, DInv, Writing
    PROVE  /\ out \in SstId /\ out \notin version /\ out \notin Complete
           /\ table[out] = EmptyTable
           /\ \A i \in Complete : i < out
           /\ \A i \in SstId, k \in Key : table[i][k] # nullopt => i < out
<1>1. out \in SstId /\ out \notin version /\ sst[out] = "torn" /\ next_sst = out + 1
  BY Zenon DEF IInv, Output, DInv, TaskOutput
<1>2. out \notin Complete /\ table[out] = EmptyTable
  BY Zenon, <1>1 DEF IInv, Files, Complete
<1>3. ASSUME NEW i \in Complete
      PROVE  i < out
  <2>1. i < next_sst
    BY Zenon DEF Writing, Up, Complete, Existing, IInv, Files
  <2>2. i \in Int /\ out \in Int /\ i # out
    BY <1>1, <1>2 DEF Complete, SstId
  <2>. QED
    BY <1>1, <2>1, <2>2
<1>. QED
  BY Zenon, <1>1, <1>2, <1>3, HoldersComplete

(***************************************************************************)
(* Lookups once the file is finished: its entries come first, and a        *)
(* version without it reads as before.                                     *)
(***************************************************************************)
LEMMA FinishedLookup ==
    ASSUME IInv, DInv, Writing, NEW t \in Table, table' = [table EXCEPT ![out] = t],
           NEW k \in Key
    PROVE  /\ \A ids \in SUBSET SstId : out \notin ids =>
                 LookupIn(table', ids, k) = LookupIn(table, ids, k)
           /\ t[k] = nullopt => LookupIn(table', SstId, k) = LookupIn(table, SstId, k)
           /\ t[k] # nullopt => LookupIn(table', SstId, k) = t[k]
<1>1. /\ out \in SstId
      /\ table[out] = EmptyTable
      /\ \A i \in SstId : table[i][k] # nullopt => i < out
  BY Zenon, OutputNewest
<1>2. table'[out] = t /\ \A i \in SstId : i # out => table'[i] = table[i]
  BY Zenon, <1>1 DEF IInv, TypeOK
<1>3. ASSUME NEW ids \in SUBSET SstId, out \notin ids
      PROVE  LookupIn(table', ids, k) = LookupIn(table, ids, k)
  <2>1. \A i \in ids : table'[i] = table[i]
    BY Zenon, <1>2, <1>3
  <2>2. /\ {i \in ids : table'[i][k] # nullopt} = {i \in ids : table[i][k] # nullopt}
        /\ \A i \in ids : table'[i][k] # nullopt => table'[i][k] = table[i][k]
    BY Zenon, <2>1
  <2>. QED
    BY ONLY <2>2, LookupSame
<1>4. ASSUME t[k] = nullopt
      PROVE  LookupIn(table', SstId, k) = LookupIn(table, SstId, k)
  <2>1. \A i \in SstId : table'[i][k] = table[i][k]
    BY Zenon, <1>1, <1>2, <1>4 DEF EmptyTable
  <2>2. /\ {i \in SstId : table'[i][k] # nullopt} = {i \in SstId : table[i][k] # nullopt}
        /\ \A i \in SstId : table'[i][k] # nullopt => table'[i][k] = table[i][k]
    BY Zenon, <2>1
  <2>3. SstId \in SUBSET SstId
    BY Zenon
  <2>. QED
    BY ONLY <2>2, <2>3, LookupSame
<1>5. ASSUME t[k] # nullopt
      PROVE  LookupIn(table', SstId, k) = t[k]
  <2>1. \A i \in SstId : table'[i][k] # nullopt => i <= out
    BY <1>1, <1>2 DEF SstId
  <2>2. table'[out][k] # nullopt
    BY Zenon, <1>2, <1>5
  <2>3. SstId \in SUBSET SstId
    BY Zenon
  <2>4. LookupIn(table', SstId, k) = table'[out][k]
    BY <1>1, <2>1, <2>2, <2>3, LookupNewest, ZenonT(30)
  <2>. QED
    BY Zenon, <1>2, <2>4
<1>. QED
  BY Zenon, <1>3, <1>4, <1>5

(***************************************************************************)
(* flush() is called by the client.                                        *)
(***************************************************************************)
LEMMA FlushCallDInv ==
    ASSUME IInv, DInv, FlushCall
    PROVE  DInv'
<1>1. /\ pc = "idle" /\ pc' = "flush" /\ caller' = "client"
      /\ UNCHANGED <<sst, table, log, kv, unsure>>
      /\ UNCHANGED <<memtable, wals, writer, next_wal, version, op>>
  BY Zenon DEF FlushCall, disk, files, engine, history
<1>2. Up /\ Up' /\ ~Recovering
  BY Zenon, <1>1 DEF Up, Recovering, IInv, Callers
<1>3. OnDisk' /\ TaskOutput' /\ MemtableEmpty'
  BY Zenon, <1>1, <1>2 DEF DInv, OnDisk, Complete, Unpublished, Written, Writing, TaskOutput,
     MemtableEmpty, Flushed
<1>. QED
  BY Zenon, <1>1, <1>2, <1>3, QuietStep DEF DInv

(***************************************************************************)
(* A file is created: it is not readable yet.  Without entries to write,   *)
(* flush() is over.                                                        *)
(***************************************************************************)
LEMMA FlushCreateDInv ==
    ASSUME IInv, DInv, FlushCreate
    PROVE  DInv'
<1>1. /\ pc = "flush"
      /\ UNCHANGED <<table, log, kv, unsure, caller>>
      /\ UNCHANGED <<memtable, wals, writer, next_wal, version, op>>
  BY Zenon DEF FlushCreate, history
<1>2. CASE KeysOf(memtable) = {}
  <2>1. pc' \in {"clean", "idle"} /\ sst' = sst
    BY Zenon, <1>2 DEF FlushCreate, Resume
  <2>2. Up /\ Up' /\ Recovering' = Recovering
    BY Zenon, <1>1, <2>1 DEF Up, Recovering
  <2>3. OnDisk' /\ TaskOutput' /\ MemtableEmpty'
    BY Zenon, <1>1, <1>2, <2>1, <2>2 DEF DInv, OnDisk, Complete, Unpublished, Written, Writing,
       TaskOutput, MemtableEmpty, Flushed, KeysOf
  <2>. QED
    BY Zenon, <1>1, <2>1, <2>2, <2>3, QuietStep DEF DInv
<1>3. CASE KeysOf(memtable) # {}
  <2>1. /\ pc' = "flush_write" /\ out' = next_sst /\ next_sst' = next_sst + 1
        /\ sst' = [sst EXCEPT ![next_sst] = "torn"]
    BY Zenon, <1>3 DEF FlushCreate
  <2>2. Up /\ Up' /\ Recovering' = Recovering
    BY Zenon, <1>1, <2>1 DEF Up, Recovering
  <2>3. next_sst <= MaxSst
    BY <1>1, BoundsAssumption DEF IInv, Budget, TypeOK
  <2>4. next_sst \in SstId /\ sst[next_sst] = "absent"
    BY Zenon, <2>2, <2>3, NewIdLemma
  <2>5. Complete' = Complete
    BY Zenon, <2>1, <2>4 DEF Complete, IInv, TypeOK
  <2>6. OnDisk' /\ TaskOutput' /\ MemtableEmpty'
    BY Zenon, <1>1, <2>1, <2>2, <2>5 DEF DInv, OnDisk, Unpublished, Written, Writing,
       TaskOutput, MemtableEmpty, Flushed
  <2>. QED
    BY Zenon, <1>1, <2>1, <2>2, <2>6, QuietStep DEF DInv
<1>. QED
  BY Zenon, <1>2, <1>3

(***************************************************************************)
(* The memtable becomes the newest file: it is newer than the other files  *)
(* and older than the log, and no key without a record is in it.           *)
(***************************************************************************)
LEMMA FlushWriteDInv ==
    ASSUME IInv, DInv, FlushWrite
    PROVE  DInv'
<1>1. /\ pc = "flush_write" /\ pc' = "flush_rotate"
      /\ table' = [table EXCEPT ![out] = memtable]
      /\ sst' = [sst EXCEPT ![out] = "complete"]
      /\ UNCHANGED <<wals, log, memtable, next_wal, next_sst, writer, version,
                     caller, op, out, kv, unsure>>
  BY Zenon DEF FlushWrite, Finished, engine, task, history
<1>2. Up /\ Up' /\ Writing /\ Recovering' = Recovering
  BY Zenon, <1>1 DEF Up, Writing, Recovering
<1>3. /\ out \in SstId /\ out \notin version
      /\ \A i \in SstId, k \in Key : table[i][k] # nullopt => i < out
  BY Zenon, <1>2, OutputNewest
<1>4. /\ table'[out] = memtable
      /\ \A i \in SstId : i # out => table'[i] = table[i]
  BY Zenon, <1>1, <1>3 DEF IInv, TypeOK
<1>5. memtable \in Table
  BY Zenon DEF IInv, TypeOK
<1>6. \A w, n, k : IsLast(w, n, k)' <=> IsLast(w, n, k)
  BY ZenonT(30), <1>1 DEF IsLast, IsRecord
<1>7. /\ \A i \in SstId, k \in Key : table[i][k] # nullopt /\ memtable[k] # nullopt
             => Older(table[i][k], memtable[k])
      /\ \A k \in Key : memtable[k] # nullopt =>
             \E w \in WalId : \E n \in DOMAIN log[w] :
                 IsLast(w, n, k) /\ Older(memtable[k], EntryOf(log[w][n]))
  BY Zenon, <1>1, <1>2 DEF DInv, MemtableOrdered
<1>8. LogShape'
  BY Zenon, <1>1 DEF DInv, LogShape, OneWalHoldsRecords
<1>9. DiskOrdered'
  <2>1. ASSUME NEW i \in SstId, NEW j \in SstId, NEW k \in Key, i < j,
               table'[i][k] # nullopt, table'[j][k] # nullopt
        PROVE  Older(table'[i][k], table'[j][k])
    <3>1. i # out
      <4>1. CASE i = out
        <5>1. j # out /\ ~(j < out)
          BY <2>1, <4>1 DEF SstId
        <5>. QED
          BY Zenon, <1>3, <1>4, <2>1, <5>1
      <4>. QED
        BY Zenon, <4>1
    <3>2. CASE j = out
      BY Zenon, <1>4, <1>7, <2>1, <3>1, <3>2
    <3>3. CASE j # out
      BY Zenon, <1>4, <2>1, <3>1, <3>3 DEF DInv, DiskOrdered
    <3>. QED
      BY Zenon, <3>2, <3>3
  <2>2. ASSUME NEW i \in SstId, NEW k \in Key, NEW w \in WalId, NEW n \in DOMAIN log[w],
               table'[i][k] # nullopt, IsLast(w, n, k)
        PROVE  Older(table'[i][k], EntryOf(log[w][n]))
    <3>1. CASE i = out
      <4>1. PICK v \in WalId : \E m \in DOMAIN log[v] :
                IsLast(v, m, k) /\ Older(memtable[k], EntryOf(log[v][m]))
        BY Zenon, <1>4, <1>7, <2>2, <3>1
      <4>2. PICK m \in DOMAIN log[v] : IsLast(v, m, k) /\ Older(memtable[k], EntryOf(log[v][m]))
        BY Zenon, <4>1
      <4>3. v = w /\ m = n
        BY Zenon, <2>2, <4>2, LastUnique DEF DInv
      <4>. QED
        BY Zenon, <1>4, <3>1, <4>2, <4>3
    <3>2. CASE i # out
      BY Zenon, <1>4, <2>2, <3>2 DEF DInv, DiskOrdered
    <3>. QED
      BY Zenon, <3>1, <3>2
  <2>. QED
    BY Zenon, <1>1, <1>6, <2>1, <2>2 DEF DiskOrdered
<1>10. Durable'
  <2>1. ASSUME NEW k \in Key, NoRecord(k)
        PROVE  Visible(LookupInternal(SstId, k))' = Visible(LookupInternal(SstId, k))
    <3>1. memtable[k] = nullopt
      BY Zenon, <1>7, <2>1 DEF NoRecord, IsLast
    <3>2. LookupIn(table', SstId, k) = LookupIn(table, SstId, k)
      BY Zenon, <1>1, <1>2, <1>5, <3>1, FinishedLookup
    <3>. QED
      BY Zenon, <3>2 DEF LookupInternal, LookupIn, Visible
  <2>2. \A k : NoRecord(k)' <=> NoRecord(k)
    BY Zenon, <1>1 DEF NoRecord, IsRecord
  <2>. QED
    BY Zenon, <1>1, <1>6, <2>1, <2>2 DEF DInv, Durable
<1>11. WriterLast' /\ InHand' /\ Replayed' /\ MemtableEmpty'
  BY Zenon, <1>1, <1>2 DEF DInv, WriterLast, InHand, Replayed, MemtableEmpty, Flushed
<1>12. OnDisk'
  <2>1. Complete' = Complete \cup {out}
    BY Zenon, <1>1, <1>3 DEF Complete, IInv, TypeOK
  <2>2. Complete = version
    BY Zenon, <1>1, <1>2 DEF DInv, OnDisk, Unpublished, Written
  <2>. QED
    BY Zenon, <1>1, <2>1, <2>2 DEF OnDisk, Unpublished, Written
<1>13. TaskOutput'
  BY Zenon, <1>1, <1>2, <1>4 DEF DInv, TaskOutput, Writing, Written
<1>14. MemtableOrdered'
  <2>1. \A i \in SstId, k \in Key : table'[i][k] # nullopt /\ memtable[k] # nullopt
            => Older(table'[i][k], memtable[k])
    BY Zenon, <1>4, <1>7 DEF Older
  <2>. QED
    BY Zenon, <1>1, <1>6, <1>7, <2>1 DEF MemtableOrdered
<1>15. Current'
  <2>1. \A k \in Key : LookupIn(table', version, k) = LookupIn(table, version, k)
    <3>1. version \in SUBSET SstId
      BY Zenon DEF IInv, TypeOK
    <3>. QED
      BY Zenon, <1>1, <1>2, <1>3, <1>5, <3>1, FinishedLookup
  <2>2. \A k \in Key : Get(k)' = Get(k)
    BY Zenon, <1>1, <2>1 DEF Get, GetInternal, LookupInternal, LookupIn
  <2>. QED
    BY Zenon, <1>1, <1>2, <2>2 DEF DInv, Current
<1>. QED
  BY Zenon, <1>8, <1>9, <1>10, <1>11, <1>12, <1>13, <1>14, <1>15 DEF DInv

(***************************************************************************)
(* The file cannot be written: nothing readable has changed.               *)
(***************************************************************************)
LEMMA FlushWriteFailsDInv ==
    ASSUME IInv, DInv, FlushWriteFails
    PROVE  DInv'
<1>1. /\ pc = "flush_write"
      /\ FlushFailed
      /\ sst' \in {sst, [sst EXCEPT ![out] = "absent"]}
      /\ UNCHANGED <<log, table, kv, unsure, wals>>
  BY Zenon DEF FlushWriteFails, history
<1>2. CASE caller = "recover"
  BY Zenon, <1>1, <1>2, CrashDInv DEF FlushFailed
<1>3. CASE caller # "recover"
  <2>1. /\ pc' = "idle"
        /\ UNCHANGED <<memtable, wals, writer, next_wal, version, op, caller>>
    BY Zenon, <1>1, <1>3 DEF FlushFailed, engine
  <2>2. Up /\ Up' /\ Writing /\ ~Recovering
    BY Zenon, <1>1, <1>3, <2>1 DEF Up, Writing, Recovering
  <2>3. out \in SstId /\ sst[out] = "torn"
    BY Zenon, <2>2 DEF IInv, Output
  <2>4. Complete' = Complete
    BY Zenon, <1>1, <2>3 DEF Complete, IInv, TypeOK
  <2>5. OnDisk' /\ TaskOutput' /\ MemtableEmpty'
    BY Zenon, <1>1, <1>3, <2>1, <2>2, <2>4 DEF DInv, OnDisk, Unpublished, Written, Writing,
       TaskOutput, MemtableEmpty, Flushed
  <2>. QED
    BY Zenon, <1>1, <2>1, <2>2, <2>5, QuietStep DEF DInv
<1>. QED
  BY Zenon, <1>2, <1>3

(***************************************************************************)
(* The file is published and the memtable emptied: every key reads from    *)
(* the file what it read from the memtable.  The segment rotated out holds *)
(* the records.                                                            *)
(***************************************************************************)
LEMMA FlushRotateDInv ==
    ASSUME IInv, DInv, FlushRotate
    PROVE  DInv'
<1>1. /\ pc = "flush_rotate" /\ pc' = "flush_remove"
      /\ next_wal' = next_wal + 1
      /\ wals' = wals \cup {next_wal}
      /\ writer' = next_wal
      /\ version' = version \cup {out}
      /\ memtable' = EmptyTable
      /\ UNCHANGED <<log, table, kv, unsure>>
      /\ UNCHANGED <<sst, caller, op, out, inputs>>
  BY Zenon DEF FlushRotate, files, task, history
<1>2. Up /\ Up' /\ Written /\ Recovering' = Recovering
  BY Zenon, <1>1 DEF Up, Written, Recovering
<1>3. LogShape' /\ DiskOrdered' /\ Durable'
  BY Zenon, <1>1, SameDisk DEF DInv
<1>4. WriterLast'
  <2>1. /\ next_wal \in Int /\ writer \in Int /\ writer \in WalId
        /\ writer <= next_wal /\ next_wal <= writer + 1
        /\ \A w \in wals : w \in Int /\ w <= writer
    <3>1. /\ writer \in WalId /\ writer <= next_wal /\ next_wal <= writer + 1
          /\ \A w \in wals : w \in WalId /\ w <= writer
          /\ next_wal \in 0..MaxWal + 1
      BY Zenon, <1>2 DEF DInv, WriterLast, IInv, TypeOK, Segments
    <3>. QED
      BY ONLY <3>1, BoundsAssumption DEF WalId
  <2>2. next_wal \in WalId
    BY <1>1, <2>1, BoundsAssumption DEF IInv, Budget, Rotating, Up, WalId
  <2>3. \A n \in DOMAIN log[next_wal] : log[next_wal][n] # nullopt
    <3>1. CASE next_wal = writer
      BY Zenon, <1>2, <3>1 DEF DInv, WriterLast
    <3>2. CASE next_wal # writer
      <4>1. next_wal \notin wals
        BY <2>1, <3>2
      <4>2. log[next_wal] = <<>>
        BY Zenon, <2>2, <4>1 DEF IInv, Segments
      <4>. QED
        BY <4>2
    <3>. QED
      BY Zenon, <3>1, <3>2
  <2>4. \A w \in wals' : w <= writer'
    BY <1>1, <2>1
  <2>5. ~Recovering => \A w \in WalId : log[w] # <<>> => w = writer
    BY Zenon, <1>1, <1>2 DEF DInv, WriterLast
  <2>6. writer = writer' \/ writer = OldWal'
    BY <1>1, <2>1 DEF OldWal
  <2>. QED
    BY SMTT(30), <1>1, <1>2, <2>1, <2>3, <2>4, <2>5, <2>6 DEF WriterLast
<1>5. OnDisk'
  BY Zenon, <1>1, <1>2 DEF DInv, OnDisk, Complete, Unpublished, Written
<1>6. TaskOutput' /\ InHand' /\ Replayed'
  BY Zenon, <1>1 DEF DInv, TaskOutput, Writing, Written, InHand, Replayed
<1>7. MemtableEmpty' /\ MemtableOrdered'
  BY Zenon, <1>1, EmptyTableLemma DEF MemtableEmpty, MemtableOrdered, EmptyTable
<1>8. Current'
  <2>1. /\ table[out] = memtable /\ out \in SstId /\ version \in SUBSET SstId
        /\ \A i \in version : i < out
    <3>1. table[out] = memtable /\ next_sst = out + 1 /\ out \in SstId /\ out \notin version
      BY Zenon, <1>1, <1>2 DEF DInv, TaskOutput, IInv, Output
    <3>2. \A i \in version : i < next_sst /\ i \in SstId
      BY Zenon, <1>2 DEF IInv, PublishedFilesReadable, Files, Complete, Existing
    <3>3. \A i \in version : i < out
      BY <3>1, <3>2 DEF SstId
    <3>. QED
      BY Zenon, <3>1, <3>2, <3>3
  <2>2. ASSUME NEW k \in Key
        PROVE  GetInternal(k)' = GetInternal(k)
    <3>. DEFINE ids == version \cup {out}
    <3>1. GetInternal(k)' = LookupIn(table, ids, k)
      BY Zenon, <1>1 DEF GetInternal, EmptyTable, LookupInternal, LookupIn
    <3>2. ids \in SUBSET SstId /\ out \in ids /\ \A i \in ids : i <= out
      BY <2>1 DEF SstId
    <3>3. CASE memtable[k] # nullopt
      <4>1. LookupIn(table, ids, k) = table[out][k]
        BY Zenon, <2>1, <3>2, <3>3, LookupNewest
      <4>. QED
        BY Zenon, <2>1, <3>1, <3>3, <4>1 DEF GetInternal
    <3>4. CASE memtable[k] = nullopt
      <4>1. /\ {i \in ids : table[i][k] # nullopt} = {i \in version : table[i][k] # nullopt}
            /\ \A i \in ids : table[i][k] # nullopt => table[i][k] = table[i][k]
        BY Zenon, <2>1, <3>4
      <4>. HIDE DEF ids
      <4>2. LookupIn(table, ids, k) = LookupIn(table, version, k)
        BY ONLY <2>1, <3>2, <4>1, LookupSame
      <4>. QED
        BY Zenon, <3>1, <3>4, <4>2 DEF GetInternal, LookupInternal, LookupIn
    <3>. QED
      BY Zenon, <3>3, <3>4
  <2>. QED
    BY Zenon, <1>1, <1>2, <2>2 DEF DInv, Current, Get, Visible
<1>. QED
  BY Zenon, <1>3, <1>4, <1>5, <1>6, <1>7, <1>8 DEF DInv

(***************************************************************************)
(* With nothing in the memtable and no task in progress, what get() reads  *)
(* is what the files alone say.                                            *)
(***************************************************************************)
LEMMA DiskReads ==
    ASSUME IInv, DInv, Up, pc \notin {"replay", "sync"}, Unpublished = {},
           KeysOf(memtable) = {}
    PROVE  \A k \in Key \ unsure : Visible(LookupInternal(SstId, k)) = kv[k]
<1>. SUFFICES ASSUME NEW k \in Key \ unsure
              PROVE  Visible(LookupInternal(SstId, k)) = kv[k]
  BY Zenon
<1>1. Get(k) = kv[k]
  BY Zenon DEF DInv, Current
<1>2. memtable[k] = nullopt
  BY Zenon DEF KeysOf
<1>3. Complete = version
  BY Zenon DEF DInv, OnDisk
<1>4. \A i \in SstId : table[i][k] # nullopt => i \in version
  BY Zenon, <1>3, HoldersComplete
<1>5. version \in SUBSET SstId /\ SstId \in SUBSET SstId
  BY Zenon DEF IInv, TypeOK
<1>6. /\ {i \in SstId : table[i][k] # nullopt} = {i \in version : table[i][k] # nullopt}
      /\ \A i \in SstId : table[i][k] # nullopt => table[i][k] = table[i][k]
  BY Zenon, <1>4, <1>5
<1>7. LookupIn(table, SstId, k) = LookupIn(table, version, k)
  BY ONLY <1>5, <1>6, LookupSame
<1>. QED
  BY Zenon, <1>1, <1>2, <1>7, LookupDef DEF Get, GetInternal

(***************************************************************************)
(* A segment is removed when the files alone say what every key reads.     *)
(***************************************************************************)
LEMMA SegmentRemoved ==
    ASSUME IInv, DInv, NEW o, \A w \in WalId : log'[w] = IF w = o THEN <<>> ELSE log[w],
           UNCHANGED <<table, kv, unsure>>,
           \A k \in Key \ unsure : Visible(LookupInternal(SstId, k)) = kv[k]
    PROVE  LogShape' /\ DiskOrdered' /\ Durable'
<1>1. /\ \A w \in WalId : w # o => log'[w] = log[w]
      /\ \A w \in WalId : w = o => log'[w] = <<>> /\ DOMAIN log'[w] = {}
  BY Zenon, EmptyLogLemma
<1>2. LogShape'
  <2>1. OneWalHoldsRecords'
    BY ZenonT(30), <1>1 DEF DInv, LogShape, OneWalHoldsRecords
  <2>2. ASSUME NEW w \in WalId
        PROVE  /\ \A n \in DOMAIN log'[w] : log'[w][n] = nullopt => n = Len(log'[w])
               /\ \A m, n \in DOMAIN log'[w] :
                      m < n /\ log'[w][m] # nullopt /\ log'[w][n] # nullopt
                          => log'[w][m].sequence < log'[w][n].sequence
               /\ \A n \in DOMAIN log'[w] :
                      log'[w][n] # nullopt =>
                          (log'[w][n].op_type = "DELETE_ROW" <=> log'[w][n].value = nullopt)
    <3>1. CASE w = o
      BY Zenon, <1>1, <3>1
    <3>2. CASE w # o
      <4>1. log'[w] = log[w]
        BY Zenon, <1>1, <3>2
      <4>2. /\ \A n \in DOMAIN log[w] : log[w][n] = nullopt => n = Len(log[w])
            /\ \A m, n \in DOMAIN log[w] :
                   m < n /\ log[w][m] # nullopt /\ log[w][n] # nullopt
                       => log[w][m].sequence < log[w][n].sequence
            /\ \A n \in DOMAIN log[w] :
                   log[w][n] # nullopt =>
                       (log[w][n].op_type = "DELETE_ROW" <=> log[w][n].value = nullopt)
        BY Zenon DEF DInv, LogShape
      <4>. QED
        BY ONLY <4>1, <4>2, Zenon
    <3>. QED
      BY Zenon, <3>1, <3>2
  <2>. QED
    BY Zenon, <2>1, <2>2 DEF LogShape
<1>3. \A w \in WalId : \A n, k : IsLast(w, n, k)' => w # o /\ IsLast(w, n, k)
  BY ZenonT(30), <1>1 DEF IsLast, IsRecord
<1>4. DiskOrdered'
  BY Zenon, <1>1, <1>3 DEF DInv, DiskOrdered
<1>5. \A k : LookupInternal(SstId, k)' = LookupInternal(SstId, k)
  BY Zenon DEF LookupInternal
<1>6. Durable'
  <2>. SUFFICES ASSUME NEW k \in Key \ unsure
                PROVE  /\ \A w \in WalId : \A n \in DOMAIN log'[w] :
                              IsLast(w, n, k)' => log'[w][n].value = kv[k]
                       /\ Visible(LookupInternal(SstId, k))' = kv[k]
    BY Zenon DEF Durable
  <2>1. \A w \in WalId : \A n : IsLast(w, n, k) => n \in DOMAIN log[w]
    BY Zenon DEF IsLast, IsRecord
  <2>2. Visible(LookupInternal(SstId, k))' = Visible(LookupInternal(SstId, k))
    BY Zenon, <1>5 DEF Visible
  <2>3. ASSUME NEW w \in WalId, NEW n, IsLast(w, n, k)'
        PROVE  log'[w][n].value = kv[k]
    <3>1. IsLast(w, n, k) /\ n \in DOMAIN log[w] /\ log'[w] = log[w]
      BY Zenon, <1>1, <1>3, <2>1, <2>3
    <3>2. log[w][n].value = kv[k]
      BY Zenon, <3>1 DEF DInv, Durable
    <3>. QED
      BY Zenon, <3>1, <3>2
  <2>. QED
    BY Zenon, <2>2, <2>3
<1>. QED
  BY ZenonT(30), <1>2, <1>4, <1>6

(***************************************************************************)
(* The segment rotated out is removed: its records are all in files.       *)
(***************************************************************************)
LEMMA FlushRemoveWalDInv ==
    ASSUME IInv, DInv, FlushRemoveWal
    PROVE  DInv'
<1>1. /\ pc = "flush_remove" /\ pc' = "compact"
      /\ wals' = wals \ {OldWal}
      /\ log' = [w \in WalId |-> IF w = OldWal THEN <<>> ELSE log[w]]
      /\ UNCHANGED <<sst, table, kv, unsure>>
      /\ UNCHANGED <<memtable, writer, next_wal, version, caller, op, out, inputs>>
  BY Zenon DEF FlushRemoveWal, files, engine, task, history
<1>2. Up /\ Up' /\ Recovering' = Recovering
  BY Zenon, <1>1 DEF Up, Recovering
<1>3. KeysOf(memtable) = {}
  BY Zenon, <1>1 DEF DInv, MemtableEmpty, Flushed
<1>4. \A k \in Key \ unsure : Visible(LookupInternal(SstId, k)) = kv[k]
  BY Zenon, <1>1, <1>2, <1>3, DiskReads DEF Unpublished, Written
<1>5. LogShape' /\ DiskOrdered' /\ Durable'
  <2>1. PICK o : o = OldWal
    BY Zenon
  <2>2. \A w \in WalId : log'[w] = IF w = o THEN <<>> ELSE log[w]
    BY Zenon, <1>1, <2>1
  <2>. QED
    BY Zenon, <1>1, <1>4, <2>2, SegmentRemoved
<1>6. WriterLast'
  <2>1. writer \in WalId /\ writer # OldWal
    BY SMTT(30), <1>1, <1>2, BoundsAssumption DEF IInv, Segments, TypeOK, OldWal
  <2>2. log'[writer] = log[writer] /\ \A w \in WalId : w = OldWal \/ log'[w] = log[w]
    BY Zenon, <1>1, <2>1
  <2>3. \A w \in WalId : w = OldWal => log'[w] = <<>>
    BY Zenon, <1>1
  <2>. QED
    BY ZenonT(30), <1>1, <1>2, <2>1, <2>2, <2>3 DEF DInv, WriterLast
<1>7. OnDisk' /\ TaskOutput' /\ MemtableEmpty'
  BY Zenon, <1>1, <1>2, <1>3 DEF DInv, OnDisk, Complete, Unpublished, Written, Writing,
     TaskOutput, MemtableEmpty, KeysOf
<1>8. MemtableOrdered' /\ InHand' /\ Replayed'
  BY Zenon, <1>1, <1>3 DEF DInv, MemtableOrdered, InHand, Replayed, KeysOf
<1>9. Current'
  <2>1. \A k : Get(k)' = Get(k)
    BY Zenon, <1>1 DEF Get, GetInternal, LookupInternal
  <2>. QED
    BY Zenon, <1>1, <1>2, <2>1 DEF DInv, Current
<1>. QED
  BY Zenon, <1>5, <1>6, <1>7, <1>8, <1>9 DEF DInv

=============================================================================
