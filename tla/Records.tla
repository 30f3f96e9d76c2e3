------------------------------ MODULE Records ------------------------------
(***************************************************************************)
(* The data the engine stores, abstracted to what its control tells apart: *)
(* internal values, WAL records, and tables (the sorted maps held by a     *)
(* memtable and by an SSTable file).                                       *)
(*                                                                         *)
(* An encoded key is a number: encoded keys compare bytewise, and only     *)
(* their order matters.  A value is a member of an arbitrary set.          *)
(***************************************************************************)
EXTENDS Integers, FiniteSets, FiniteSetsExt

CONSTANTS
    Key,      \* the encoded keys
    Value,    \* the non-empty values a client can put
    nullopt,  \* std::nullopt: no entry, no value
    MaxLsn    \* bound: the highest sequence a write takes

ASSUME KeyAssumption == Key \subseteq Nat
ASSUME LsnAssumption == MaxLsn \in Nat

(***************************************************************************)
(* struct InternalValue.  A tombstone carries no data.                     *)
(***************************************************************************)
Sequence == 0..MaxLsn

InternalValue ==
    [data : Value \cup {nullopt}, is_tombstone : BOOLEAN, sequence : Sequence]

(***************************************************************************)
(* struct WalRecord, without the timestamp (nothing reads it back).        *)
(* DELETE_ROW carries no value.                                            *)
(***************************************************************************)
WalRecord ==
    [op_type : {"PUT_ROW", "DELETE_ROW"}, sequence : Sequence, key : Key,
     value : Value \cup {nullopt}]

\* std::nullopt is none of the values an optional can hold.
ASSUME NulloptAssumption ==
    /\ nullopt \notin Key /\ nullopt \notin Value
    /\ nullopt \notin InternalValue /\ nullopt \notin WalRecord

(***************************************************************************)
(* A sorted map from keys to internal values; nullopt is "not present".    *)
(***************************************************************************)
Table == [Key -> InternalValue \cup {nullopt}]

EmptyTable == [k \in Key |-> nullopt]

KeysOf(t) == {k \in Key : t[k] # nullopt}

Count(t) == Cardinality(KeysOf(t))

(***************************************************************************)
(* What a lookup that ended at entry e returns to the client: a tombstone  *)
(* is a definitive delete.                                                 *)
(***************************************************************************)
Visible(e) ==
    IF e = nullopt \/ e.is_tombstone THEN nullopt ELSE e.data

(***************************************************************************)
(* Memtable::put and Memtable::remove: both overwrite the key's entry.     *)
(***************************************************************************)
MemtablePut(t, key, value, sequence) ==
    [t EXCEPT ![key] = [data |-> value, is_tombstone |-> FALSE,
                        sequence |-> sequence]]

MemtableRemove(t, key, sequence) ==
    [t EXCEPT ![key] = [data |-> nullopt, is_tombstone |-> TRUE,
                        sequence |-> sequence]]

(***************************************************************************)
(* What put(), and recover() for each record it replays, do to the         *)
(* memtable.                                                               *)
(***************************************************************************)
ApplyRecord(t, r) ==
    IF r.op_type = "DELETE_ROW"
    THEN MemtableRemove(t, r.key, r.sequence)
    ELSE MemtablePut(t, r.key, r.value, r.sequence)

(***************************************************************************)
(* deserialize_wal_record: the bytes of a segment hold a whole record with *)
(* a matching checksum.  nullopt is a record cut short.                    *)
(***************************************************************************)
Deserializes(r) == r # nullopt

(***************************************************************************)
(* SSTableWriter::finish: footer.highest_sequence, 0 for an empty table.   *)
(***************************************************************************)
HighestSequence(t) == Max({t[k].sequence : k \in KeysOf(t)} \cup {0})
=============================================================================
