------------------------------- MODULE Dazzle -------------------------------
(***************************************************************************)
(* The storage engine: one client thread calling put, remove, flush and    *)
(* compact_now on an open Dazzle, the process crashing between any two     *)
(* steps that touch the disk, and open() with its recovery.                *)
(*                                                                         *)
(* The disk is the set of SSTable files and WAL segments.  A crash is the  *)
(* death of the process: what was written survives, what was in memory     *)
(* does not, and the file or record being written may be left torn.        *)
(* An I/O call may return an error only if Faults names it.                *)
(***************************************************************************)
EXTENDS Records, Sequences

CONSTANTS
    Pick(_),             \* CompactionPolicy::pick, on a set of metas
    SizeBytes(_, _),     \* footer.size_bytes of a table, given estimated_keys
    ApproximateSize(_),  \* Memtable::approximate_size of a table
    MemtableSize,        \* memtable_size_: flush threshold in bytes
    Faults,              \* the I/O calls that may return an error
    MaxSst, MaxWal       \* bounds: highest SSTable and WAL ids minted

SstId == 1..MaxSst
WalId == 1..MaxWal

FaultNames == {"append", "sync", "wal_create", "wal_remove", "wal_read",
               "sst_write", "sst_sync", "sst_read", "unlink"}

ASSUME FaultsAssumption == Faults \subseteq FaultNames
ASSUME BoundsAssumption ==
    MaxSst \in Nat /\ MaxWal \in Nat /\ MemtableSize \in Nat

VARIABLES
    \* --- on disk
    sst,        \* [SstId -> {"absent", "torn", "complete"}]: sst/sst_<id>.db
    table,      \* [SstId -> Table]: the entries of a complete file
    size,       \* [SstId -> Nat]: size_bytes in the footer of a complete file
    wals,       \* the WAL segments that exist
    log,        \* [WalId -> Seq]: the records of a segment; nullopt is torn
    \* --- in the Dazzle object
    memtable,   \* active_memtable_
    lsn,        \* lsn_
    next_wal,   \* next_wal_seq_
    next_sst,   \* next_sst_seq_
    writer,     \* the segment wal_writer_ appends to
    version,    \* the ids of the current Version
    \* --- in the activation records of the running call
    pc,         \* where the running call is; "idle" between calls, or "down"
    caller,     \* who called flush(): "client" (put, flush) or "recover"
    op,         \* put(): the record appended, not yet in the memtable
    out,        \* the SSTable being written
    inputs,     \* compaction inputs, then the ids reclaim() has left
    drop,       \* task.can_drop_tombstone
    old_wals,   \* recover(): old segments not removed yet
    unread,     \* recover(): old segments not replayed yet
    pos,        \* recover(): next record of Min(unread)
    highest,    \* recover(): highest_wal_lsn_sequence
    \* --- history
    kv,         \* what each key should read: the last write that took effect
    unsure      \* keys whose last write returned an error after its append

files  == <<sst, table, size>>
disk   == <<files, wals, log>>
engine == <<memtable, lsn, next_wal, next_sst, writer, version>>
task   == <<out, inputs, drop>>
recovery == <<old_wals, unread, pos, highest>>
history  == <<kv, unsure>>
vars == <<disk, engine, pc, caller, op, task, recovery, history>>

PC == {"down", "idle", "sync", "flush", "flush_write", "flush_rotate",
       "flush_remove", "compact", "merge", "install", "reclaim",
       "replay", "clean"}

TypeOK ==
    /\ sst \in [SstId -> {"absent", "torn", "complete"}]
    /\ table \in [SstId -> Table]
    /\ DOMAIN size = SstId
    /\ wals \subseteq WalId
    /\ log \in [WalId -> Seq(WalRecord \cup {nullopt})]
    /\ memtable \in Table
    /\ lsn \in Nat
    /\ next_wal \in 0..MaxWal + 1
    /\ next_sst \in 0..MaxSst + 1
    /\ writer \in 0..MaxWal
    /\ version \subseteq SstId
    /\ pc \in PC
    /\ caller \in {"client", "recover"}
    /\ op \in WalRecord \cup {nullopt}
    /\ out \in 0..MaxSst
    /\ inputs \subseteq SstId
    /\ drop \in BOOLEAN
    /\ old_wals \subseteq WalId
    /\ unread \subseteq old_wals
    /\ pos \in Nat \ {0}
    /\ highest \in Nat
    /\ kv \in [Key -> Value \cup {nullopt}]
    /\ unsure \subseteq Key

-----------------------------------------------------------------------------
(***************************************************************************)
(* Reading.                                                                *)
(***************************************************************************)

\* The SSTable files a directory scan finds, and those a reader can open.
Existing == {i \in SstId : sst[i] # "absent"}
Complete == {i \in SstId : sst[i] = "complete"}

Highest(S) == Max(S \cup {0})

\* Version::lookup_internal: newest id first, and the first file that holds
\* the key decides.
LookupInternal(ids, k) ==
    LET holders == {i \in ids : table[i][k] # nullopt}
    IN  IF holders = {} THEN nullopt ELSE table[Max(holders)][k]

\* Dazzle::get_internal: the memtable, then the current version.
GetInternal(k) ==
    IF memtable[k] # nullopt THEN memtable[k] ELSE LookupInternal(version, k)

\* Dazzle::get: a tombstone reads as nothing.
Get(k) == Visible(GetInternal(k))

-----------------------------------------------------------------------------
(***************************************************************************)
(* Compaction's merge: per key the entry with the highest sequence among   *)
(* the inputs; tombstones are skipped when the task may drop them.         *)
(***************************************************************************)

\* Mutant of Winner: the heap's order reversed.
OldestWins(ids, k) ==
    LET entries == {table[i][k] : i \in ids} \ {nullopt}
    IN  IF entries = {} THEN nullopt
        ELSE CHOOSE e \in entries :
                 \A f \in entries : e.sequence <= f.sequence

\* MergeIterator: the heap's winner for key k.
Winner(ids, k) ==
    LET entries == {table[i][k] : i \in ids} \ {nullopt}
    IN  IF entries = {} THEN nullopt
        ELSE CHOOSE e \in entries :
                 \A f \in entries : f.sequence <= e.sequence

\* Compactor::compact's loop over the merged keys that belong to ks.
Merged(ids, drop_tombstones, ks) ==
    [k \in Key |->
        LET w == Winner(ids, k)
        IN  IF \/ k \notin ks
               \/ w # nullopt /\ w.is_tombstone /\ drop_tombstones
            THEN nullopt ELSE w]

\* possible_keys: the sum of the inputs' entry_count.
PossibleKeys(ids) == MapThenSumSet(LAMBDA i : Count(table[i]), ids)

\* sst_meta_to_vector: what the policy sees of the current version.
Metas == {[id |-> i, size_bytes |-> size[i]] : i \in version}

\* CompactionCandidate: some of the live files.
Candidates == [inputs : SUBSET version, can_drop_tombstone : BOOLEAN]

-----------------------------------------------------------------------------
(***************************************************************************)
(* Control shared by the actions.                                          *)
(***************************************************************************)

Failing(call) == call \in Faults

\* A call starts only if the ids it can mint are within the bounds: flush()
\* and the compaction after it mint two SSTable ids and one WAL id.
Room(sst_id, wal_id) == sst_id + 1 <= MaxSst /\ wal_id <= MaxWal

\* The process dies, or open() fails and destroys the object it was building.
Down ==
    /\ pc' = "down" /\ caller' = "client" /\ op' = nullopt
    /\ memtable' = EmptyTable /\ lsn' = 0 /\ version' = {}
    /\ next_wal' = 0 /\ next_sst' = 0 /\ writer' = 0
    /\ out' = 0 /\ inputs' = {} /\ drop' = FALSE
    /\ old_wals' = {} /\ unread' = {} /\ pos' = 1 /\ highest' = 0

\* The file being written is finished: data, index, filter and footer.
Finished(t, estimated_keys) ==
    /\ sst' = [sst EXCEPT ![out] = "complete"]
    /\ table' = [table EXCEPT ![out] = t]
    /\ size' = [size EXCEPT ![out] = SizeBytes(t, estimated_keys)]

\* The call in progress returns to flush()'s caller.
Resume == pc' = IF caller = "recover" THEN "clean" ELSE "idle"

\* Mutant of FlushFailed: the memtable is gone before the error is known.
FlushFailsEmptied ==
    IF caller = "recover" THEN Down
    ELSE /\ pc' = "idle"
         /\ memtable' = EmptyTable
         /\ UNCHANGED <<lsn, next_wal, next_sst, writer, version, caller, op,
                        task, recovery>>

\* flush() returns an error: put() and flush() hand it to the client,
\* recover() and open() give up.
FlushFailed ==
    IF caller = "recover" THEN Down
    ELSE /\ pc' = "idle"
         /\ UNCHANGED <<engine, caller, op, task, recovery>>

Init ==
    /\ sst = [i \in SstId |-> "absent"]
    /\ table = [i \in SstId |-> EmptyTable]
    /\ size = [i \in SstId |-> 0]
    /\ wals = {} /\ log = [w \in WalId |-> <<>>]
    /\ pc = "down" /\ caller = "client" /\ op = nullopt
    /\ memtable = EmptyTable /\ lsn = 0 /\ version = {}
    /\ next_wal = 0 /\ next_sst = 0 /\ writer = 0
    /\ out = 0 /\ inputs = {} /\ drop = FALSE
    /\ old_wals = {} /\ unread = {} /\ pos = 1 /\ highest = 0
    /\ kv = [k \in Key |-> nullopt] /\ unsure = {}

-----------------------------------------------------------------------------
(***************************************************************************)
(* put() and remove(): bump the LSN, append, sync, apply to the memtable,  *)
(* flush when it is full.  v = nullopt is remove().                        *)
(***************************************************************************)
RecordOf(k, v) ==
    [op_type |-> IF v = nullopt THEN "DELETE_ROW" ELSE "PUT_ROW",
     sequence |-> lsn, key |-> k, value |-> v]

\* The write is in the log: from here on every recovery brings it back.
PutAppend(k, v) ==
    /\ pc = "idle" /\ lsn <= MaxLsn /\ Room(next_sst, next_wal)
    /\ lsn' = lsn + 1
    /\ log' = [log EXCEPT ![writer] = Append(@, RecordOf(k, v))]
    /\ op' = RecordOf(k, v)
    /\ pc' = "sync"
    /\ kv' = [kv EXCEPT ![k] = v]
    /\ unsure' = unsure \ {k}
    /\ UNCHANGED <<files, wals, memtable, next_wal, next_sst, writer, version,
                   caller, task, recovery>>

\* append() returns an error, after writing part or none of the record.
PutAppendFails(k, v) ==
    /\ pc = "idle" /\ lsn <= MaxLsn /\ Failing("append")
    /\ lsn' = lsn + 1
    /\ \/ UNCHANGED log
       \/ log' = [log EXCEPT ![writer] = Append(@, nullopt)]
    /\ UNCHANGED <<files, wals, memtable, next_wal, next_sst, writer, version,
                   pc, caller, op, task, recovery, history>>

\* The process dies inside append(): the tail of the segment is torn.
PutAppendTorn ==
    /\ pc = "idle" /\ lsn <= MaxLsn
    /\ log' = [log EXCEPT ![writer] = Append(@, nullopt)]
    /\ Down
    /\ UNCHANGED <<files, wals, history>>

PutApply ==
    /\ pc = "sync"
    /\ memtable' = ApplyRecord(memtable, op)
    /\ op' = nullopt
    /\ caller' = "client"
    /\ pc' = IF ApproximateSize(memtable') >= MemtableSize
             THEN "flush" ELSE "idle"
    /\ UNCHANGED <<disk, lsn, next_wal, next_sst, writer, version, task,
                   recovery, history>>

\* sync() returns an error: the record stays in the log, put() gives up.
PutSyncFails ==
    /\ pc = "sync" /\ Failing("sync")
    /\ unsure' = unsure \cup {op.key}
    /\ op' = nullopt
    /\ pc' = "idle"
    /\ UNCHANGED <<disk, engine, caller, task, recovery, kv>>

-----------------------------------------------------------------------------
(***************************************************************************)
(* flush().                                                                *)
(***************************************************************************)
FlushCall ==
    /\ pc = "idle" /\ Room(next_sst, next_wal)
    /\ KeysOf(memtable) # {}
    /\ caller' = "client"
    /\ pc' = "flush"
    /\ UNCHANGED <<disk, engine, op, task, recovery, history>>

\* Mint the id and create the file.  An empty memtable returns at once.
FlushCreate ==
    /\ pc = "flush"
    /\ IF KeysOf(memtable) = {}
       THEN Resume /\ UNCHANGED <<next_sst, out, sst>>
       ELSE /\ next_sst' = next_sst + 1
            /\ out' = next_sst
            /\ sst' = [sst EXCEPT ![next_sst] = "torn"]
            /\ pc' = "flush_write"
    /\ UNCHANGED <<table, size, wals, log, memtable, lsn, next_wal, writer,
                   version, caller, op, inputs, drop, recovery, history>>

\* Write every entry of the memtable, finish(), and open a reader on it.
FlushWrite ==
    /\ pc = "flush_write"
    /\ Finished(memtable, Count(memtable))
    /\ pc' = "flush_rotate"
    /\ UNCHANGED <<wals, log, engine, caller, op, task, recovery, history>>

\* create(), add() or finish() fails: there is no file, or part of one.
FlushWriteFails ==
    /\ pc = "flush_write" /\ Failing("sst_write")
    /\ FlushFailed
    /\ sst' \in {sst, [sst EXCEPT ![out] = "absent"]}
    /\ UNCHANGED <<table, size, wals, log, history>>

\* Syncing the file or its directory fails, or opening it: it is there.
FlushSyncFails ==
    /\ pc = "flush_write" /\ Failing("sst_sync")
    /\ Finished(memtable, Count(memtable))
    /\ FlushFailed
    /\ UNCHANGED <<wals, log, history>>

\* Mint the next WAL id and open that segment for append, publish the file
\* in a new version, switch to the segment and empty the memtable.
FlushRotate ==
    /\ pc = "flush_rotate"
    /\ next_wal' = next_wal + 1
    /\ wals' = wals \cup {next_wal}
    /\ writer' = next_wal
    /\ version' = version \cup {out}
    /\ memtable' = EmptyTable
    /\ pc' = "flush_remove"
    /\ UNCHANGED <<files, log, lsn, next_sst, caller, op, task, recovery,
                   history>>

\* The segment cannot be created: the id is spent, nothing is published.
FlushRotateFails ==
    /\ pc = "flush_rotate" /\ Failing("wal_create")
    /\ IF caller = "recover" THEN Down
       ELSE /\ next_wal' = next_wal + 1
            /\ pc' = "idle"
            /\ UNCHANGED <<memtable, lsn, next_sst, writer, version, caller,
                           op, task, recovery>>
    /\ UNCHANGED <<disk, history>>

\* Mutant of OldWal: off by one, the segment before it.
WalBeforeOld == next_wal - 3

\* new_wal_seq - 1, the segment flush() thinks it rotated out.
OldWal == next_wal - 2

\* Remove that segment, if there is one.
FlushRemoveWal ==
    /\ pc = "flush_remove"
    /\ wals' = wals \ {OldWal}
    /\ log' = [w \in WalId |-> IF w = OldWal THEN <<>> ELSE log[w]]
    /\ pc' = "compact"
    /\ UNCHANGED <<files, engine, caller, op, task, recovery, history>>

\* fs::remove throws: the exception leaves flush() before any compaction.
FlushRemoveWalThrows ==
    /\ pc = "flush_remove" /\ Failing("wal_remove")
    /\ OldWal \in wals
    /\ FlushFailed
    /\ UNCHANGED <<disk, history>>

-----------------------------------------------------------------------------
(***************************************************************************)
(* Compaction: do_compact_work() at the end of flush(), and compact_now(). *)
(***************************************************************************)

\* run_task: mint the output id, open the inputs, create the output.
StartTask(ids, can_drop) ==
    /\ next_sst' = next_sst + 1
    /\ out' = next_sst
    /\ inputs' = ids
    /\ drop' = can_drop
    /\ sst' = [sst EXCEPT ![next_sst] = "torn"]
    /\ pc' = "merge"

DoCompactWork ==
    /\ pc = "compact"
    /\ \E candidate \in Candidates :
          /\ candidate = Pick(Metas)
          /\ IF candidate.inputs = {}
             THEN Resume /\ UNCHANGED <<next_sst, task, sst>>
             ELSE StartTask(candidate.inputs, candidate.can_drop_tombstone)
    /\ UNCHANGED <<table, size, wals, log, memtable, lsn, next_wal, writer,
                   version, caller, op, recovery, history>>

CompactNow ==
    /\ pc = "idle" /\ Room(next_sst, next_wal)
    /\ version # {}
    /\ StartTask(version, TRUE)
    /\ caller' = "client"
    /\ UNCHANGED <<table, size, wals, log, memtable, lsn, next_wal, writer,
                   version, op, recovery, history>>

\* compactor_.compact: merge, write and finish the output, and open it.
CompactWrite ==
    /\ pc = "merge" /\ PossibleKeys(inputs) > 0
    /\ Finished(Merged(inputs, drop, Key), PossibleKeys(inputs))
    /\ pc' = "install"
    /\ UNCHANGED <<wals, log, engine, caller, op, task, recovery, history>>

\* A source iterator fails: the merge stops at some key, and what was merged
\* before it becomes the output (the loop never looks at status()).
CompactReadFails(k) ==
    /\ pc = "merge" /\ PossibleKeys(inputs) > 0 /\ Failing("sst_read")
    /\ Finished(Merged(inputs, drop, {j \in Key : j < k}), PossibleKeys(inputs))
    /\ pc' = "install"
    /\ UNCHANGED <<wals, log, engine, caller, op, task, recovery, history>>

\* Every input is empty: the Bloom filter is sized for zero keys.  With
\* assertions the process aborts; without them the file gets a filter block
\* that SSTableReader::create rejects, and the task returns that error.
CompactEmptyAborts ==
    /\ pc = "merge" /\ PossibleKeys(inputs) = 0
    /\ Down
    /\ UNCHANGED <<disk, history>>

CompactEmptyRejected ==
    /\ pc = "merge" /\ PossibleKeys(inputs) = 0
    /\ Resume
    /\ UNCHANGED <<disk, engine, caller, op, task, recovery, history>>

\* Mutants of CompactWriteFails: the error is ignored and the output
\* installed; the inputs are unpublished all the same.
CompactWriteErrorIgnored ==
    /\ pc = "merge" /\ Failing("sst_write")
    /\ pc' = "install"
    /\ UNCHANGED <<disk, engine, caller, op, task, recovery, history>>

CompactWriteFailsUnpublished ==
    /\ pc = "merge" /\ Failing("sst_write")
    /\ Resume
    /\ version' = version \ inputs
    /\ UNCHANGED <<disk, memtable, lsn, next_wal, next_sst, writer, caller, op,
                   task, recovery, history>>

\* Opening an input or writing the output fails: flush() only reports it,
\* compact_now() returns it.  There is no output, or part of one.
CompactWriteFails ==
    /\ pc = "merge" /\ Failing("sst_write")
    /\ Resume
    /\ sst' \in {sst, [sst EXCEPT ![out] = "absent"]}
    /\ UNCHANGED <<table, size, wals, log, engine, caller, op, task, recovery,
                   history>>

\* As FlushSyncFails: the output is complete, and nobody publishes it.
CompactSyncFails ==
    /\ pc = "merge" /\ PossibleKeys(inputs) > 0 /\ Failing("sst_sync")
    /\ Finished(Merged(inputs, drop, Key), PossibleKeys(inputs))
    /\ Resume
    /\ UNCHANGED <<wals, log, engine, caller, op, task, recovery, history>>

\* The version an edit {removed: inputs, added: out} leads to.
Installed == (version \ inputs) \cup {out}

\* install: publish the output in place of the inputs.  One thread and no
\* pinned reader: the edit is never stale and every input is reclaimable.
CompactInstall ==
    /\ pc = "install"
    /\ version' = Installed
    /\ pc' = "reclaim"
    /\ UNCHANGED <<disk, memtable, lsn, next_wal, next_sst, writer, caller, op,
                   task, recovery, history>>

\* reclaim: unlink the inputs in ascending id order.
Reclaim ==
    /\ pc = "reclaim" /\ inputs # {}
    /\ sst' = [sst EXCEPT ![Min(inputs)] = "absent"]
    /\ table' = [table EXCEPT ![Min(inputs)] = EmptyTable]
    /\ size' = [size EXCEPT ![Min(inputs)] = 0]
    /\ inputs' = inputs \ {Min(inputs)}
    /\ UNCHANGED <<wals, log, engine, pc, caller, op, out, drop, recovery,
                   history>>

\* unlink fails: the file stays, reclaim() goes on to the next one.
ReclaimFails ==
    /\ pc = "reclaim" /\ inputs # {} /\ Failing("unlink")
    /\ inputs' = inputs \ {Min(inputs)}
    /\ UNCHANGED <<disk, engine, pc, caller, op, out, drop, recovery, history>>

CompactDone ==
    /\ pc = "reclaim" /\ inputs = {}
    /\ Resume
    /\ UNCHANGED <<disk, engine, caller, op, task, recovery, history>>

-----------------------------------------------------------------------------
(***************************************************************************)
(* open() and recover().                                                   *)
(***************************************************************************)

\* Above the highest sequence any footer records.
NextLsn(ids) == Highest({HighestSequence(table[i]) : i \in ids}) + 1

\* Scan both directories, open every SSTable, create segment highest + 1.
\* next_wal_seq_ is that same number.
Open ==
    /\ pc = "down" /\ Existing = Complete
    /\ Room(Highest(Existing) + 1, Highest(wals) + 1)
    /\ wals' = wals \cup {Highest(wals) + 1}
    /\ writer' = Highest(wals) + 1
    /\ next_wal' = Highest(wals) + 1
    /\ next_sst' = Highest(Existing) + 1
    /\ version' = Existing
    /\ lsn' = NextLsn(Existing)
    /\ memtable' = EmptyTable
    /\ old_wals' = wals /\ unread' = wals /\ pos' = 1 /\ highest' = 0
    /\ pc' = IF wals = {} THEN "idle" ELSE "replay"
    /\ UNCHANGED <<files, log, caller, op, task, history>>

\* An SSTable that SSTableReader::create rejects makes open() fail, and so
\* does a segment that cannot be created.
OpenFails ==
    /\ pc = "down" /\ (Existing # Complete \/ Failing("wal_create"))
    /\ UNCHANGED vars

\* WalReader::create cannot open the next segment: open() fails.
ReplayOpenFails ==
    /\ pc = "replay" /\ unread # {} /\ pos = 1 /\ Failing("wal_read")
    /\ Down
    /\ UNCHANGED <<disk, history>>

\* WalReader::next finds an intact record in the oldest segment not read to
\* its end: not at the end of the file, and with a matching checksum.
HasNext ==
    LET w == Min(unread)
    IN  pos <= Len(log[w]) /\ Deserializes(log[w][pos])

\* Mutant of HighestReplayed: highest_wal_lsn_sequence is not kept up.
HighestUnchanged(r) == highest

HighestReplayed(r) == Max({highest, r.sequence})

ReplayRecord ==
    /\ pc = "replay" /\ unread # {} /\ HasNext
    /\ LET r == log[Min(unread)][pos]
       IN  /\ memtable' = ApplyRecord(memtable, r)
           /\ highest' = HighestReplayed(r)
    /\ pos' = pos + 1
    /\ UNCHANGED <<disk, lsn, next_wal, next_sst, writer, version, pc, caller,
                   op, task, old_wals, unread, history>>

\* Mutant of ReplayNextWal: the reader starts over on an error.
ReplayRetries ==
    /\ pc = "replay" /\ unread # {}
    /\ ~HasNext \/ Failing("wal_read")
    /\ pos' = 1
    /\ UNCHANGED <<disk, engine, pc, caller, op, task, old_wals, unread,
                   highest, history>>

\* next() returns an error, at the end of the segment, at a torn record or
\* because the read failed: the segment is done.
ReplayNextWal ==
    /\ pc = "replay" /\ unread # {}
    /\ ~HasNext \/ Failing("wal_read")
    /\ unread' = unread \ {Min(unread)}
    /\ pos' = 1
    /\ UNCHANGED <<disk, engine, pc, caller, op, task, old_wals, highest,
                   history>>

\* Mutants of ReplayDone: it does not wait for the last segment; it leaves
\* the flush to the next put().
ReplayDoneEarly ==
    /\ pc = "replay"
    /\ caller' = "recover"
    /\ pc' = IF ApproximateSize(memtable) > 0 THEN "flush" ELSE "clean"
    /\ UNCHANGED <<disk, engine, op, task, recovery, history>>

ReplayDoneUnflushed ==
    /\ pc = "replay" /\ unread = {}
    /\ caller' = "recover"
    /\ pc' = "clean"
    /\ UNCHANGED <<disk, engine, op, task, recovery, history>>

\* All segments are read: flush what they held, if it counts any bytes.
ReplayDone ==
    /\ pc = "replay" /\ unread = {}
    /\ caller' = "recover"
    /\ pc' = IF ApproximateSize(memtable) > 0 THEN "flush" ELSE "clean"
    /\ UNCHANGED <<disk, engine, op, task, recovery, history>>

\* Remove the old segments in ascending order (flush() may have removed one).
RecoverRemoveWal ==
    /\ pc = "clean" /\ old_wals # {}
    /\ wals' = wals \ {Min(old_wals)}
    /\ log' = [log EXCEPT ![Min(old_wals)] = <<>>]
    /\ old_wals' = old_wals \ {Min(old_wals)}
    /\ UNCHANGED <<files, engine, pc, caller, op, task, unread, pos, highest,
                   history>>

RecoverRemoveWalThrows ==
    /\ pc = "clean" /\ old_wals # {} /\ Failing("wal_remove")
    /\ Min(old_wals) \in wals
    /\ Down
    /\ UNCHANGED <<disk, history>>

ReconciledLsn == Max({lsn, highest}) + 1

\* Reconcile the LSN with the log.
RecoverDone ==
    /\ pc = "clean" /\ old_wals = {}
    /\ lsn' = ReconciledLsn
    /\ highest' = 0
    /\ caller' = "client"
    /\ pc' = "idle"
    /\ UNCHANGED <<disk, memtable, next_wal, next_sst, writer, version, op,
                   task, old_wals, unread, pos, history>>

\* The process dies between two steps.
Crash ==
    /\ pc # "down"
    /\ Down
    /\ UNCHANGED <<disk, history>>

-----------------------------------------------------------------------------
PutStep ==
    \/ \E k \in Key, v \in Value \cup {nullopt} :
           PutAppend(k, v) \/ PutAppendFails(k, v)
    \/ PutApply
    \/ PutSyncFails

FlushStep ==
    \/ FlushCreate
    \/ FlushWrite \/ FlushWriteFails \/ FlushSyncFails
    \/ FlushRotate \/ FlushRotateFails
    \/ FlushRemoveWal \/ FlushRemoveWalThrows

CompactStep ==
    \/ DoCompactWork
    \/ CompactWrite \/ \E k \in Key : CompactReadFails(k)
    \/ CompactWriteFails \/ CompactSyncFails
    \/ CompactEmptyAborts \/ CompactEmptyRejected
    \/ CompactInstall
    \/ Reclaim \/ ReclaimFails \/ CompactDone

RecoverStep ==
    \/ ReplayRecord \/ ReplayNextWal \/ ReplayOpenFails \/ ReplayDone
    \/ RecoverRemoveWal \/ RecoverRemoveWalThrows \/ RecoverDone

Next ==
    \/ PutStep \/ FlushCall \/ CompactNow
    \/ FlushStep \/ CompactStep
    \/ Open \/ OpenFails \/ RecoverStep
    \/ PutAppendTorn \/ Crash

Spec == Init /\ [][Next]_vars

\* A call that has started runs on unless the process dies: it never waits
\* for anyone.  Nothing obliges the client to call, or to reopen.
FairSpec ==
    /\ Spec
    /\ WF_vars(PutApply) /\ WF_vars(FlushStep)
    /\ WF_vars(CompactStep) /\ WF_vars(RecoverStep)

-----------------------------------------------------------------------------
(***************************************************************************)
(* Properties.                                                             *)
(***************************************************************************)

\* Between calls, get() returns for every key the last write that took
\* effect, whatever flushes, compactions, crashes and recoveries came in
\* between.  A write whose sync failed leaves its key open.
ReadsMatchModel ==
    pc = "idle" => \A k \in Key \ unsure : Get(k) = kv[k]

\* Between calls, the current version is exactly the readable SSTables on
\* disk: no published file is missing, no file holding data is orphaned.
VersionIsDisk ==
    pc = "idle" => version = Complete

\* Every file of the current version can be opened at every step of every
\* call: publication comes after finish(), unlinking after publication.
PublishedFilesReadable ==
    version \subseteq Complete

\* The sequence the next put() takes is above every sequence in a log or an
\* SSTable: recovery never falls behind what it left on disk.
LsnAboveDurable ==
    pc = "idle" =>
        /\ \A i \in Complete : HighestSequence(table[i]) < lsn
        /\ \A w \in WalId : \A n \in DOMAIN log[w] :
               log[w][n] # nullopt => log[w][n].sequence < lsn

\* Version::lookup trusts ids and the merge trusts sequences: of two readable
\* SSTables holding a key, the one with the higher id has the higher
\* sequence, or both hold the same entry.
IdsFollowSequences ==
    \A i, j \in Complete : \A k \in KeysOf(table[i]) \cap KeysOf(table[j]) :
        i < j => \/ table[i][k].sequence < table[j][k].sequence
                 \/ table[i][k] = table[j][k]

\* At most one segment holds records, so a replay never puts an older
\* segment's records on top of newer data.
OneWalHoldsRecords ==
    \A v, w \in WalId : log[v] # <<>> /\ log[w] # <<>> => v = w

\* Every call that started returns or dies with the process: no torn record,
\* leftover segment or failed step leaves open() or put() running forever.
CallsReturn ==
    pc \notin {"idle", "down"} ~> pc \in {"idle", "down"}

\* After any crash the directory can be opened again.
OpenSucceeds ==
    pc = "down" => Existing = Complete
=============================================================================
