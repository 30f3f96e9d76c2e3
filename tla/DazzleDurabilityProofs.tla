----------------------- MODULE DazzleDurabilityProofs -----------------------
(***************************************************************************)
(* Compaction and recovery preserve the durability invariant DInv of       *)
(* DazzleProofs, and the theorems that follow: reads match the writes, the *)
(* version is what is on disk, ids follow sequences, one segment holds     *)
(* records, and the engine implements KVStore.                             *)
(***************************************************************************)
EXTENDS DazzleStore, DazzleProofs

\* Steps without a prover of their own get more than the default time.
USE SMTT(30)

-----------------------------------------------------------------------------
(***************************************************************************)
(* Compaction.                                                             *)
(***************************************************************************)

(***************************************************************************)
(* Ids follow sequences, so the merge's winner, which has the highest      *)
(* sequence, is the entry a lookup finds, which has the newest id.         *)
(***************************************************************************)
LEMMA WinnerIsNewest ==
    ASSUME IInv, DiskOrdered, NEW ids \in SUBSET SstId, NEW k \in Key
    PROVE  Winner(ids, k) = LookupIn(table, ids, k)
<1>. DEFINE entries == {table[i][k] : i \in ids} \ {nullopt}
<1>1. \/ /\ \A i \in ids : table[i][k] = nullopt
         /\ LookupIn(table, ids, k) = nullopt
      \/ \E i \in ids : /\ table[i][k] # nullopt
                        /\ LookupIn(table, ids, k) = table[i][k]
                        /\ \A j \in ids : table[j][k] # nullopt => j <= i
  BY SMTT(30), LookupLemma
<1>2. CASE \A i \in ids : table[i][k] = nullopt
  <2>1. entries = {}
    BY Zenon, <1>2
  <2>. QED
    BY Zenon, <1>1, <1>2, <2>1 DEF Winner
<1>3. ASSUME NEW i \in ids, table[i][k] # nullopt, LookupIn(table, ids, k) = table[i][k],
             \A j \in ids : table[j][k] # nullopt => j <= i
      PROVE  Winner(ids, k) = LookupIn(table, ids, k)
  <2>. DEFINE e == table[i][k]
  <2>1. e \in entries
    BY Zenon, <1>3
  <2>2. \A f \in entries : f.sequence \in Nat
    <3>1. \A j \in ids : table[j][k] # nullopt => table[j][k].sequence \in Nat
      BY Zenon, EntryLemma DEF IInv, TypeOK, KeysOf
    <3>. QED
      BY Zenon, <3>1
  <2>3. \A f \in entries : f = e \/ f.sequence < e.sequence
    <3>1. ASSUME NEW j \in ids, table[j][k] # nullopt
          PROVE  table[j][k] = e \/ table[j][k].sequence < e.sequence
      <4>1. j = i \/ j < i
        BY <1>3, <3>1 DEF SstId
      <4>. QED
        BY Zenon, <1>3, <3>1, <4>1 DEF DiskOrdered, Older
    <3>. QED
      BY Zenon, <3>1
  <2>4. Winner(ids, k) = CHOOSE g \in entries : \A f \in entries : f.sequence <= g.sequence
    BY Zenon, <2>1 DEF Winner
  <2>. HIDE DEF entries, e
  <2>5. \A f \in entries : f.sequence <= e.sequence
    BY <2>1, <2>2, <2>3
  <2>6. \A g \in entries : (\A f \in entries : f.sequence <= g.sequence) => g = e
    BY <2>1, <2>2, <2>3
  <2>7. Winner(ids, k) = e
    BY Zenon, <2>1, <2>4, <2>5, <2>6
  <2>. QED
    BY Zenon, <1>3, <2>7 DEF e
<1>. QED
  BY Zenon, <1>1, <1>2, <1>3

(***************************************************************************)
(* A task ends, or there is none: nothing a reader sees has changed.       *)
(***************************************************************************)
LEMMA TaskEnds ==
    ASSUME IInv, DInv, pc \in {"compact", "merge", "reclaim"}, Resume,
           UNCHANGED <<log, table, kv, unsure>>,
           UNCHANGED <<memtable, wals, writer, next_wal, version, op, caller>>,
           Complete' = Complete, Unpublished = {}
    PROVE  DInv'
<1>1. pc' = IF caller = "recover" THEN "clean" ELSE "idle"
  BY Zenon DEF Resume
<1>2. Up /\ Up' /\ Recovering' = Recovering
  BY Zenon, <1>1 DEF Up, Recovering
<1>3. OnDisk' /\ TaskOutput'
  BY Zenon, <1>1, <1>2 DEF DInv, OnDisk, Unpublished, Written, Writing, TaskOutput
<1>4. MemtableEmpty'
  BY Zenon, <1>1 DEF DInv, MemtableEmpty, Flushed, KeysOf
<1>. QED
  BY Zenon, <1>1, <1>2, <1>3, <1>4, QuietStep DEF DInv

(***************************************************************************)
(* A task on every live file starts: its output is not readable yet.       *)
(***************************************************************************)
LEMMA TaskStarts ==
    ASSUME IInv, DInv, pc \in {"idle", "compact"}, next_sst <= MaxSst,
           NEW d, StartTask(version, d),
           UNCHANGED <<log, table, kv, unsure>>,
           UNCHANGED <<memtable, wals, writer, next_wal, version, op>>,
           caller' = caller
    PROVE  DInv'
<1>1. /\ next_sst' = next_sst + 1 /\ out' = next_sst /\ inputs' = version
      /\ sst' = [sst EXCEPT ![next_sst] = "torn"] /\ pc' = "merge"
  BY Zenon DEF StartTask
<1>2. Up /\ Up' /\ Recovering' = Recovering
  BY Zenon, <1>1 DEF Up, Recovering
<1>3. next_sst \in SstId /\ sst[next_sst] = "absent"
  BY Zenon, <1>2, NewIdLemma
<1>4. Complete' = Complete
  BY Zenon, <1>1, <1>3 DEF Complete, IInv, TypeOK
<1>5. OnDisk' /\ TaskOutput'
  BY Zenon, <1>1, <1>2, <1>4 DEF DInv, OnDisk, Unpublished, Written, Writing, TaskOutput
<1>6. MemtableEmpty'
  <2>1. caller = "recover" => pc = "compact"
    BY Zenon DEF IInv, Callers
  <2>. QED
    BY Zenon, <1>1, <2>1 DEF DInv, MemtableEmpty, Flushed, KeysOf
<1>. QED
  BY Zenon, <1>1, <1>2, <1>5, <1>6, QuietStep DEF DInv

(***************************************************************************)
(* flush() asks the policy: nothing, or a task on every live file.         *)
(***************************************************************************)
LEMMA DoCompactWorkDInv ==
    ASSUME Survivable, IInv, DInv, DoCompactWork
    PROVE  DInv'
<1>1. /\ pc = "compact"
      /\ UNCHANGED <<log, table, kv, unsure>>
      /\ UNCHANGED <<memtable, wals, writer, next_wal, version, op, caller>>
  BY Zenon DEF DoCompactWork, history
<1>2. PICK candidate \in Candidates :
          /\ candidate = Pick(Metas)
          /\ IF candidate.inputs = {}
             THEN Resume /\ UNCHANGED <<next_sst, task, sst>>
             ELSE StartTask(candidate.inputs, candidate.can_drop_tombstone)
  BY Zenon DEF DoCompactWork
<1>3. {m.id : m \in Metas} = version
  <2>1. \A m \in Metas : m.id \in version
    BY DEF Metas
  <2>2. \A i \in version : \E m \in Metas : m.id = i
    <3>. SUFFICES ASSUME NEW i \in version PROVE \E m \in Metas : m.id = i
      BY Zenon
    <3>. DEFINE m == [id |-> i, size_bytes |-> size[i]]
    <3>1. m \in Metas /\ m.id = i
      BY Zenon DEF Metas
    <3>. QED
      BY <3>1, Zenon
  <2>. QED
    BY Zenon, <2>1, <2>2
<1>4. candidate.inputs \in {{}, {m.id : m \in Metas}}
  BY <1>2, Zenon DEF Survivable
<1>5. CASE candidate.inputs = {}
  <2>1. Resume /\ sst' = sst
    BY Zenon, <1>2, <1>5
  <2>2. Complete' = Complete /\ Unpublished = {}
    BY Zenon, <1>1, <2>1 DEF Complete, Unpublished, Written
  <2>. QED
    BY Zenon, <1>1, <2>1, <2>2, TaskEnds
<1>6. CASE candidate.inputs # {}
  <2>1. candidate.inputs = version
    BY Zenon, <1>3, <1>4, <1>6
  <2>2. PICK d : d = candidate.can_drop_tombstone
    BY Zenon
  <2>3. StartTask(version, d)
    BY Zenon, <1>2, <1>6, <2>1, <2>2
  <2>4. next_sst <= MaxSst
    BY Zenon, <1>1 DEF IInv, Budget
  <2>. QED
    BY Zenon, <1>1, <2>3, <2>4, TaskStarts
<1>. QED
  BY Zenon, <1>5, <1>6

(***************************************************************************)
(* compact_now().                                                          *)
(***************************************************************************)
LEMMA CompactNowDInv ==
    ASSUME IInv, DInv, CompactNow
    PROVE  DInv'
<1>1. /\ pc = "idle" /\ caller' = "client" /\ next_sst + 1 <= MaxSst
      /\ StartTask(version, TRUE)
      /\ UNCHANGED <<log, table, kv, unsure>>
      /\ UNCHANGED <<memtable, wals, writer, next_wal, version, op>>
  BY Zenon DEF CompactNow, Room, history
<1>2. caller' = caller
  BY Zenon, <1>1 DEF IInv, TypeOK, Callers
<1>3. next_sst <= MaxSst
  BY <1>1, BoundsAssumption DEF IInv, TypeOK
<1>. QED
  BY Zenon, <1>1, <1>2, <1>3, TaskStarts

(***************************************************************************)
(* A compaction that cannot write its output, or has nothing to write.     *)
(***************************************************************************)
LEMMA CompactFailsDInv ==
    ASSUME IInv, DInv, CompactWriteFails \/ CompactEmptyRejected
    PROVE  DInv'
<1>1. /\ pc = "merge" /\ Resume
      /\ sst' \in {sst, [sst EXCEPT ![out] = "absent"]}
      /\ UNCHANGED <<log, table, kv, unsure>>
      /\ UNCHANGED <<memtable, wals, writer, next_wal, version, op, caller>>
  BY Zenon DEF CompactWriteFails, CompactEmptyRejected, disk, files, engine, history
<1>2. out \in SstId /\ sst[out] = "torn"
  BY Zenon, <1>1 DEF IInv, Output, Writing
<1>3. Complete' = Complete
  BY Zenon, <1>1, <1>2 DEF Complete, IInv, TypeOK
<1>4. Unpublished = {}
  BY Zenon, <1>1 DEF Unpublished, Written
<1>. QED
  BY Zenon, <1>1, <1>3, <1>4, TaskEnds

(***************************************************************************)
(* Every input is unlinked: the task is over.                              *)
(***************************************************************************)
LEMMA CompactDoneDInv ==
    ASSUME IInv, DInv, CompactDone
    PROVE  DInv'
<1>1. /\ pc = "reclaim" /\ inputs = {} /\ Resume
      /\ UNCHANGED <<log, table, kv, unsure>>
      /\ UNCHANGED <<memtable, wals, writer, next_wal, version, op, caller, sst>>
  BY Zenon DEF CompactDone, disk, files, engine, history
<1>2. Complete' = Complete /\ Unpublished = {}
  BY Zenon, <1>1 DEF Complete, Unpublished, Written
<1>. QED
  BY Zenon, <1>1, <1>2, TaskEnds

(***************************************************************************)
(* The output of a full compaction reads, for every key, as its inputs     *)
(* did: the newest entry, or nothing for a dropped tombstone.              *)
(***************************************************************************)
LEMMA MergedEntry ==
    ASSUME IInv, DiskOrdered, NEW ids \in SUBSET SstId, NEW k \in Key
    PROVE  /\ Merged(ids, drop, Key)[k] # nullopt =>
                 /\ Merged(ids, drop, Key)[k] = LookupIn(table, ids, k)
                 /\ \E i \in ids : /\ table[i][k] # nullopt
                                   /\ LookupIn(table, ids, k) = table[i][k]
                                   /\ \A j \in ids : table[j][k] # nullopt => j <= i
           /\ Visible(Merged(ids, drop, Key)[k]) = Visible(LookupIn(table, ids, k))
<1>. DEFINE w == Winner(ids, k)
<1>1. w = LookupIn(table, ids, k)
  BY Zenon, WinnerIsNewest
<1>2. Merged(ids, drop, Key)[k] =
          IF w # nullopt /\ w.is_tombstone /\ drop THEN nullopt ELSE w
  BY Zenon DEF Merged
<1>. HIDE DEF w
<1>3. Merged(ids, drop, Key)[k] # nullopt =>
          Merged(ids, drop, Key)[k] = w /\ w # nullopt
  BY Zenon, <1>2
<1>4. \/ w = nullopt
      \/ \E i \in ids : /\ table[i][k] # nullopt
                        /\ w = table[i][k]
                        /\ \A j \in ids : table[j][k] # nullopt => j <= i
  BY SMTT(30), <1>1, LookupLemma
<1>5. Visible(Merged(ids, drop, Key)[k]) = Visible(w)
  BY Zenon, <1>2 DEF Visible
<1>. QED
  BY Zenon, <1>1, <1>3, <1>4, <1>5

(***************************************************************************)
(* The output is finished: newer in id than its inputs, with their newest  *)
(* entries, so nothing is out of order and nothing reads differently.      *)
(***************************************************************************)
LEMMA CompactWriteDInv ==
    ASSUME IInv, DInv, CompactWrite
    PROVE  DInv'
<1>1. PICK t : t = Merged(inputs, drop, Key)
  BY Zenon
<1>2. /\ pc = "merge" /\ pc' = "install"
      /\ table' = [table EXCEPT ![out] = t]
      /\ sst' = [sst EXCEPT ![out] = "complete"]
      /\ UNCHANGED <<wals, log, memtable, next_wal, next_sst, writer, version,
                     caller, op, out, inputs, kv, unsure>>
  BY Zenon, <1>1 DEF CompactWrite, Finished, engine, task, history
<1>3. Up /\ Up' /\ Writing /\ Recovering' = Recovering
  BY Zenon, <1>2 DEF Up, Writing, Recovering
<1>4. /\ out \in SstId /\ out \notin version
      /\ \A i \in SstId, k \in Key : table[i][k] # nullopt => i < out
  BY Zenon, <1>3, OutputNewest
<1>5. inputs = version /\ version \in SUBSET SstId /\ Complete = version
  BY Zenon, <1>2, <1>3 DEF DInv, TaskOutput, OnDisk, Unpublished, Written, IInv, TypeOK
<1>6. t \in Table
  <2>1. table \in [SstId -> Table] /\ inputs \in SUBSET SstId
    BY Zenon DEF IInv, TypeOK
  <2>. QED
    BY Zenon, <1>1, <2>1, MergedLemma
<1>7. \A i \in SstId, k \in Key : table[i][k] # nullopt => i \in version
  BY Zenon, <1>5, HoldersComplete
<1>8. \A k \in Key :
        /\ t[k] # nullopt =>
              /\ t[k] = LookupIn(table, version, k)
              /\ \E i \in version : /\ table[i][k] # nullopt
                                    /\ t[k] = table[i][k]
                                    /\ \A j \in version : table[j][k] # nullopt => j <= i
        /\ Visible(t[k]) = Visible(LookupIn(table, version, k))
  BY Zenon, <1>1, <1>5, MergedEntry DEF DInv
<1>9. /\ table'[out] = t
      /\ \A i \in SstId : i # out => table'[i] = table[i]
  BY Zenon, <1>2, <1>4 DEF IInv, TypeOK
<1>10. \A w, n, k : IsLast(w, n, k)' <=> IsLast(w, n, k)
  BY <1>2 DEF IsLast, IsRecord
<1>11. LogShape'
  BY Zenon, <1>2 DEF DInv, LogShape, OneWalHoldsRecords
<1>12. DiskOrdered'
  <2>1. ASSUME NEW i \in SstId, NEW j \in SstId, NEW k \in Key, i < j,
               table'[i][k] # nullopt, table'[j][k] # nullopt
        PROVE  Older(table'[i][k], table'[j][k])
    <3>1. i # out
      <4>1. CASE i = out
        <5>1. j # out /\ ~(j < out)
          BY <2>1, <4>1 DEF SstId
        <5>. QED
          BY Zenon, <1>4, <1>9, <2>1, <5>1
      <4>. QED
        BY Zenon, <4>1
    <3>2. CASE j = out
      <4>1. PICK h \in version : /\ table[h][k] # nullopt
                                 /\ t[k] = table[h][k]
                                 /\ \A g \in version : table[g][k] # nullopt => g <= h
        BY Zenon, <1>8, <1>9, <2>1, <3>2
      <4>2. table'[i] = table[i] /\ table[i][k] # nullopt /\ i <= h /\ h \in SstId
        BY Zenon, <1>5, <1>7, <1>9, <2>1, <3>1, <4>1
      <4>3. i = h \/ i < h
        BY <4>2 DEF SstId
      <4>4. Older(table[i][k], table[h][k])
        BY Zenon, <4>1, <4>2, <4>3 DEF DInv, DiskOrdered, Older
      <4>. QED
        BY Zenon, <1>9, <3>2, <4>1, <4>2, <4>4
    <3>3. CASE j # out
      BY Zenon, <1>9, <2>1, <3>1, <3>3 DEF DInv, DiskOrdered
    <3>. QED
      BY Zenon, <3>2, <3>3
  <2>2. ASSUME NEW i \in SstId, NEW k \in Key, NEW w \in WalId, NEW n \in DOMAIN log[w],
               table'[i][k] # nullopt, IsLast(w, n, k)
        PROVE  Older(table'[i][k], EntryOf(log[w][n]))
    <3>1. PICK h \in SstId : table[h][k] = table'[i][k]
      BY Zenon, <1>5, <1>8, <1>9, <2>2
    <3>. QED
      BY Zenon, <2>2, <3>1 DEF DInv, DiskOrdered
  <2>. QED
    BY Zenon, <1>2, <1>10, <2>1, <2>2 DEF DiskOrdered
<1>13. Durable'
  <2>1. ASSUME NEW k \in Key
        PROVE  LookupIn(table', SstId, k) = LookupIn(table, SstId, k)
    <3>1. CASE t[k] = nullopt
      BY Zenon, <1>2, <1>3, <1>6, <3>1, FinishedLookup
    <3>2. CASE t[k] # nullopt
      <4>1. LookupIn(table', SstId, k) = t[k]
        BY Zenon, <1>2, <1>3, <1>6, <3>2, FinishedLookup
      <4>2. t[k] = LookupIn(table, version, k)
        BY Zenon, <1>8, <3>2
      <4>3. /\ {i \in version : table[i][k] # nullopt} = {i \in SstId : table[i][k] # nullopt}
            /\ \A i \in version : table[i][k] # nullopt => table[i][k] = table[i][k]
        BY Zenon, <1>5, <1>7
      <4>4. version \in SUBSET SstId /\ SstId \in SUBSET SstId
        BY Zenon, <1>5
      <4>5. LookupIn(table, version, k) = LookupIn(table, SstId, k)
        BY ONLY <4>3, <4>4, LookupSame
      <4>. QED
        BY Zenon, <4>1, <4>2, <4>5
    <3>. QED
      BY Zenon, <3>1, <3>2
  <2>2. \A k \in Key : LookupInternal(SstId, k)' = LookupInternal(SstId, k)
    BY Zenon, <2>1 DEF LookupInternal, LookupIn
  <2>3. \A k : NoRecord(k)' <=> NoRecord(k)
    BY Zenon, <1>2 DEF NoRecord, IsRecord
  <2>. QED
    BY ZenonT(30), <1>2, <1>10, <2>2, <2>3 DEF DInv, Durable, Visible
<1>14. WriterLast' /\ InHand' /\ Replayed' /\ MemtableEmpty'
  BY Zenon, <1>2, <1>3 DEF DInv, WriterLast, InHand, Replayed, MemtableEmpty, Flushed, KeysOf
<1>15. OnDisk'
  <2>1. Complete' = Complete \cup {out}
    BY Zenon, <1>2, <1>4 DEF Complete, IInv, TypeOK
  <2>. QED
    BY Zenon, <1>2, <1>5, <2>1 DEF OnDisk, Unpublished, Written
<1>16. \A k \in Key : LookupIn(table', version, k) = LookupIn(table, version, k)
  BY Zenon, <1>2, <1>3, <1>4, <1>5, <1>6, FinishedLookup
<1>17. TaskOutput'
  <2>1. \A k \in Key : Visible(table[out][k])' = Visible(LookupInternal(version, k))'
    <3>. SUFFICES ASSUME NEW k \in Key
                  PROVE  Visible(table[out][k])' = Visible(LookupInternal(version, k))'
      BY Zenon
    <3>1. table[out][k]' = t[k]
      BY Zenon, <1>2, <1>9
    <3>2. LookupInternal(version, k)' = LookupIn(table, version, k)
      BY Zenon, <1>2, <1>16 DEF LookupInternal, LookupIn
    <3>. QED
      BY Zenon, <1>8, <3>1, <3>2
  <2>. QED
    BY Zenon, <1>2, <1>3, <1>5, <2>1 DEF DInv, TaskOutput, Writing, Written
<1>18. MemtableOrdered'
  <2>1. ASSUME NEW i \in SstId, NEW k \in Key, table'[i][k] # nullopt, memtable[k] # nullopt
        PROVE  Older(table'[i][k], memtable[k])
    <3>1. PICK h \in SstId : table[h][k] = table'[i][k]
      BY Zenon, <1>5, <1>8, <1>9, <2>1
    <3>. QED
      BY Zenon, <1>2, <1>3, <2>1, <3>1 DEF DInv, MemtableOrdered
  <2>. QED
    BY Zenon, <1>2, <1>3, <1>10, <2>1 DEF DInv, MemtableOrdered
<1>19. Current'
  <2>1. \A k \in Key : Get(k)' = Get(k)
    BY Zenon, <1>2, <1>16 DEF Get, GetInternal, LookupInternal, LookupIn
  <2>. QED
    BY Zenon, <1>2, <1>3, <2>1 DEF DInv, Current
<1>. QED
  BY Zenon, <1>11, <1>12, <1>13, <1>14, <1>15, <1>17, <1>18, <1>19 DEF DInv

(***************************************************************************)
(* The output takes the place of every file it was made from.              *)
(***************************************************************************)
LEMMA CompactInstallDInv ==
    ASSUME IInv, DInv, CompactInstall
    PROVE  DInv'
<1>1. /\ pc = "install" /\ pc' = "reclaim"
      /\ version' = (version \ inputs) \cup {out}
      /\ UNCHANGED <<log, table, kv, unsure>>
      /\ UNCHANGED <<sst, wals, memtable, next_wal, next_sst, writer, caller, op,
                     out, inputs>>
  BY Zenon DEF CompactInstall, Installed, disk, files, task, history
<1>2. Up /\ Up' /\ Written /\ Recovering' = Recovering
  BY Zenon, <1>1 DEF Up, Written, Recovering
<1>3. /\ inputs = version /\ out \in SstId /\ out \notin version /\ next_sst = out + 1
      /\ Complete = version \cup {out}
      /\ \A k \in Key : Visible(table[out][k]) = Visible(LookupInternal(version, k))
  BY Zenon, <1>1, <1>2 DEF DInv, TaskOutput, OnDisk, Unpublished, IInv, Output
<1>4. version' = {out}
  BY Zenon, <1>1, <1>3
<1>5. \A i \in version : i < out
  <2>1. \A i \in version : i < next_sst /\ i \in SstId
    BY Zenon, <1>2 DEF IInv, PublishedFilesReadable, Files, Complete, Existing
  <2>. QED
    BY <1>3, <2>1 DEF SstId
<1>6. LogShape' /\ DiskOrdered' /\ Durable'
  BY Zenon, <1>1, SameDisk DEF DInv
<1>7. WriterLast' /\ InHand' /\ Replayed' /\ MemtableEmpty'
  BY Zenon, <1>1, <1>2 DEF DInv, WriterLast, InHand, Replayed, MemtableEmpty, Flushed, KeysOf
<1>8. OnDisk'
  BY Zenon, <1>1, <1>3, <1>4 DEF OnDisk, Unpublished, Written, Complete
<1>9. TaskOutput'
  <2>1. \A k \in Key : table[out][k] = nullopt => Visible(LookupInternal(inputs, k)) = nullopt
    BY Zenon, <1>3 DEF Visible
  <2>2. \A k : LookupInternal(inputs, k)' = LookupInternal(inputs, k)
    BY Zenon, <1>1 DEF LookupInternal
  <2>3. \A k \in Key : table'[out'][k] = nullopt => Visible(LookupInternal(inputs, k)') = nullopt
    BY Zenon, <1>1, <2>1, <2>2
  <2>. QED
    BY Zenon, <1>1, <1>3, <1>4, <1>5, <2>3 DEF TaskOutput, Writing, Written
<1>10. MemtableOrdered'
  <2>1. \A w, n, k : IsLast(w, n, k)' <=> IsLast(w, n, k)
    BY <1>1 DEF IsLast, IsRecord
  <2>. QED
    BY Zenon, <1>1, <1>2, <2>1 DEF DInv, MemtableOrdered
<1>11. Current'
  <2>1. ASSUME NEW k \in Key
        PROVE  LookupIn(table, {out}, k) = table[out][k]
    <3>1. {out} \in SUBSET SstId /\ out \in {out} /\ \A i \in {out} : i <= out
      BY <1>3 DEF SstId
    <3>2. CASE table[out][k] # nullopt
      BY Zenon, <3>1, <3>2, LookupNewest
    <3>3. CASE table[out][k] = nullopt
      BY Zenon, <3>1, <3>3, LookupLemma
    <3>. QED
      BY Zenon, <3>2, <3>3
  <2>2. \A k : LookupInternal(version, k)' = LookupIn(table, {out}, k)
    BY Zenon, <1>1, <1>4 DEF LookupInternal, LookupIn
  <2>3. \A k \in Key : Get(k)' = Get(k)
    <3>. SUFFICES ASSUME NEW k \in Key PROVE Get(k)' = Get(k)
      BY Zenon
    <3>1. CASE memtable[k] # nullopt
      BY Zenon, <1>1, <3>1 DEF Get, GetInternal
    <3>2. CASE memtable[k] = nullopt
      <4>1. Get(k)' = Visible(table[out][k])
        BY Zenon, <1>1, <2>1, <2>2, <3>2 DEF Get, GetInternal
      <4>. QED
        BY Zenon, <1>3, <3>2, <4>1 DEF Get, GetInternal
    <3>. QED
      BY Zenon, <3>1, <3>2
  <2>. QED
    BY Zenon, <1>1, <1>2, <2>3 DEF DInv, Current
<1>. QED
  BY Zenon, <1>6, <1>7, <1>8, <1>9, <1>10, <1>11 DEF DInv

(***************************************************************************)
(* The oldest input is unlinked.  Going up in id, the newest entry of a    *)
(* key that the output dropped, a tombstone, is the last to go.            *)
(***************************************************************************)
LEMMA ReclaimDInv ==
    ASSUME IInv, DInv, Reclaim
    PROVE  DInv'
<1>1. PICK m : m = Min(inputs)
  BY Zenon
<1>2. /\ pc = "reclaim" /\ pc' = "reclaim" /\ inputs # {}
      /\ sst' = [sst EXCEPT ![m] = "absent"]
      /\ table' = [table EXCEPT ![m] = EmptyTable]
      /\ inputs' = inputs \ {m}
      /\ UNCHANGED <<wals, log, memtable, next_wal, next_sst, writer, version,
                     caller, op, out, kv, unsure>>
  BY Zenon, <1>1 DEF Reclaim, engine, history
<1>3. Up /\ Up' /\ Recovering' = Recovering
  BY Zenon, <1>2 DEF Up, Recovering
<1>4. /\ version = {out} /\ out \in SstId /\ inputs \in SUBSET SstId
      /\ \A i \in inputs : i < out
      /\ Complete = {out} \cup inputs
      /\ \A k \in Key : table[out][k] = nullopt => Visible(LookupIn(table, inputs, k)) = nullopt
  <2>1. \A k \in Key : table[out][k] = nullopt => Visible(LookupInternal(inputs, k)) = nullopt
    BY Zenon, <1>2 DEF DInv, TaskOutput
  <2>. QED
    BY ZenonT(30), <1>2, <1>3, <2>1, LookupDef DEF DInv, TaskOutput, OnDisk, Unpublished, Written,
       IInv, TypeOK
<1>5. m \in inputs /\ m \in SstId /\ m # out /\ \A i \in inputs : m <= i
  <2>1. inputs \in SUBSET Nat
    BY <1>4 DEF SstId
  <2>2. m \in inputs /\ \A i \in inputs : m <= i
    BY Zenon, <1>1, <1>2, <2>1, MinProperties
  <2>. QED
    BY <1>4, <2>2 DEF SstId
<1>6. /\ table'[m] = EmptyTable
      /\ \A i \in SstId : i # m => table'[i] = table[i]
      /\ \A i \in SstId, k \in Key : table'[i][k] # nullopt =>
            i # m /\ table'[i][k] = table[i][k] /\ table[i][k] # nullopt
  BY Zenon, <1>2, <1>5 DEF IInv, TypeOK, EmptyTable
<1>7. \A w, n, k : IsLast(w, n, k)' <=> IsLast(w, n, k)
  BY <1>2 DEF IsLast, IsRecord
<1>8. LogShape'
  BY Zenon, <1>2 DEF DInv, LogShape, OneWalHoldsRecords
<1>9. DiskOrdered'
  BY <1>2, <1>6, <1>7 DEF DInv, DiskOrdered
<1>10. ASSUME NEW k \in Key, table[out][k] = nullopt
       PROVE  Visible(LookupIn(table', inputs \ {m}, k)) = nullopt
  <2>1. PICK u : u = table'
    BY Zenon
  <2>2. PICK rest \in SUBSET SstId : rest = inputs \ {m}
    BY Zenon, <1>4
  <2>3. CASE LookupIn(u, rest, k) = nullopt
    BY Zenon, <2>1, <2>2, <2>3 DEF Visible
  <2>4. ASSUME LookupIn(u, rest, k) # nullopt
        PROVE  \E i \in rest : /\ u[i][k] # nullopt
                              /\ LookupIn(u, rest, k) = u[i][k]
                              /\ \A j \in rest : u[j][k] # nullopt => j <= i
    BY <2>4, LookupFound
  <2>5. ASSUME NEW i \in rest, u[i][k] # nullopt, LookupIn(u, rest, k) = u[i][k],
               \A j \in rest : u[j][k] # nullopt => j <= i
        PROVE  Visible(LookupIn(u, rest, k)) = nullopt
    <3>1. i \in inputs /\ u[i][k] = table[i][k]
      BY Zenon, <1>4, <1>6, <2>1, <2>2, <2>5
    <3>2. \A j \in inputs : table[j][k] # nullopt => j <= i
      BY Zenon, <1>4, <1>5, <1>6, <2>1, <2>2, <2>5, <3>1
    <3>3. LookupIn(table, inputs, k) = table[i][k]
      BY ZenonT(30), <1>4, <2>5, <3>1, <3>2, LookupNewest
    <3>. QED
      BY Zenon, <1>4, <1>10, <2>5, <3>1, <3>3
  <2>. QED
    BY Zenon, <2>1, <2>2, <2>3, <2>4, <2>5
<1>11. \A i \in SstId, k \in Key : table[i][k] # nullopt => i = out \/ i \in inputs
  BY Zenon, <1>4, HoldersComplete
<1>12. Durable'
  <2>1. ASSUME NEW k \in Key
        PROVE  Visible(LookupIn(table', SstId, k)) = Visible(LookupIn(table, SstId, k))
    <3>1. SstId \in SUBSET SstId
      BY Zenon
    <3>2. CASE table[out][k] # nullopt
      <4>1. /\ table'[out][k] = table[out][k]
            /\ \A i \in SstId : table[i][k] # nullopt => i <= out
            /\ \A i \in SstId : table'[i][k] # nullopt => i <= out
        BY <1>4, <1>5, <1>6, <1>11 DEF SstId
      <4>2. LookupIn(table, SstId, k) = table[out][k]
        BY Zenon, <1>4, <3>1, <3>2, <4>1, LookupNewest
      <4>3. table'[out][k] # nullopt
        BY Zenon, <3>2, <4>1
      <4>4. LookupIn(table', SstId, k) = table'[out][k]
        BY ONLY SMTT(30), <1>4, <3>1, <4>1, <4>3, LookupNewest
      <4>. QED
        BY Zenon, <4>1, <4>2, <4>4
    <3>3. CASE table[out][k] = nullopt
      <4>1. /\ {i \in SstId : table[i][k] # nullopt} = {i \in inputs : table[i][k] # nullopt}
            /\ \A i \in SstId : table[i][k] # nullopt => table[i][k] = table[i][k]
        BY Zenon, <1>4, <1>11, <3>3
      <4>2. LookupIn(table, SstId, k) = LookupIn(table, inputs, k)
        BY ONLY <1>4, <3>1, <4>1, LookupSame
      <4>. DEFINE rest == inputs \ {m}
      <4>3. rest \in SUBSET SstId
        BY Zenon, <1>4
      <4>4. /\ {i \in SstId : table'[i][k] # nullopt} = {i \in rest : table'[i][k] # nullopt}
            /\ \A i \in SstId : table'[i][k] # nullopt => table'[i][k] = table'[i][k]
        BY Zenon, <1>4, <1>6, <1>11, <3>3
      <4>5. Visible(LookupIn(table', rest, k)) = nullopt
        BY Zenon, <1>10, <3>3
      <4>. HIDE DEF rest
      <4>6. LookupIn(table', SstId, k) = LookupIn(table', rest, k)
        BY ONLY <3>1, <4>3, <4>4, LookupSame
      <4>. QED
        BY Zenon, <1>4, <3>3, <4>2, <4>5, <4>6
    <3>. QED
      BY Zenon, <3>2, <3>3
  <2>2. \A k \in Key : Visible(LookupInternal(SstId, k)') = Visible(LookupInternal(SstId, k))
    BY Zenon, <2>1 DEF LookupInternal, LookupIn
  <2>3. \A k : NoRecord(k)' <=> NoRecord(k)
    BY Zenon, <1>2 DEF NoRecord, IsRecord
  <2>. QED
    BY Zenon, <1>2, <1>7, <2>2, <2>3 DEF DInv, Durable
<1>13. WriterLast' /\ InHand' /\ Replayed' /\ MemtableEmpty'
  BY Zenon, <1>2, <1>3 DEF DInv, WriterLast, InHand, Replayed, MemtableEmpty, Flushed, KeysOf
<1>14. OnDisk'
  <2>1. Complete' = Complete \ {m}
    BY Zenon, <1>2, <1>5 DEF Complete, IInv, TypeOK
  <2>. QED
    BY Zenon, <1>2, <1>4, <1>5, <2>1 DEF OnDisk, Unpublished, Written
<1>15. TaskOutput'
  <2>1. \A k \in Key : table'[out][k] = nullopt => Visible(LookupInternal(inputs, k)') = nullopt
    <3>. SUFFICES ASSUME NEW k \in Key, table'[out][k] = nullopt
                  PROVE  Visible(LookupInternal(inputs, k)') = nullopt
      BY Zenon
    <3>1. table[out][k] = nullopt
      BY Zenon, <1>4, <1>5, <1>6
    <3>2. LookupInternal(inputs, k)' = LookupIn(table', inputs \ {m}, k)
      BY <1>2 DEF LookupInternal, LookupIn
    <3>. QED
      BY Zenon, <1>10, <3>1, <3>2
  <2>. QED
    BY Zenon, <1>2, <1>4, <2>1 DEF TaskOutput, Writing, Written
<1>16. MemtableOrdered'
  BY Zenon, <1>2, <1>3, <1>6, <1>7 DEF DInv, MemtableOrdered
<1>17. Current'
  <2>1. \A k \in Key : LookupInternal(version, k)' = LookupInternal(version, k)
    <3>1. version' = {out} /\ version = {out} /\ table'[out] = table[out]
      BY Zenon, <1>2, <1>4, <1>5, <1>6
    <3>2. ASSUME NEW k \in Key
          PROVE  LookupIn(table', {out}, k) = LookupIn(table, {out}, k)
      <4>1. /\ {i \in {out} : table'[i][k] # nullopt} = {i \in {out} : table[i][k] # nullopt}
            /\ \A i \in {out} : table'[i][k] # nullopt => table'[i][k] = table[i][k]
        BY Zenon, <3>1
      <4>2. {out} \in SUBSET SstId
        BY Zenon, <1>4
      <4>. QED
        BY ONLY <4>1, <4>2, LookupSame
    <3>. QED
      BY Zenon, <3>1, <3>2 DEF LookupInternal, LookupIn
  <2>2. \A k \in Key : Get(k)' = Get(k)
    BY Zenon, <1>2, <2>1 DEF Get, GetInternal, Visible
  <2>. QED
    BY Zenon, <1>2, <1>3, <2>2 DEF DInv, Current
<1>. QED
  BY Zenon, <1>8, <1>9, <1>12, <1>13, <1>14, <1>15, <1>16, <1>17 DEF DInv

-----------------------------------------------------------------------------
(***************************************************************************)
(* open() and recover().                                                   *)
(***************************************************************************)

(***************************************************************************)
(* Only readable files hold entries, so a lookup in them is a lookup in    *)
(* all files.                                                              *)
(***************************************************************************)
LEMMA ReadableDecide ==
    ASSUME IInv
    PROVE  \A k \in Key : LookupInternal(Complete, k) = LookupInternal(SstId, k)
<1>. SUFFICES ASSUME NEW k \in Key
              PROVE  LookupInternal(Complete, k) = LookupInternal(SstId, k)
  BY Zenon
<1>1. Complete \in SUBSET SstId /\ SstId \in SUBSET SstId
  BY Zenon DEF Complete
<1>2. {i \in Complete : table[i][k] # nullopt} = {i \in SstId : table[i][k] # nullopt}
  BY Zenon, <1>1, HoldersComplete
<1>. QED
  BY Zenon, <1>2 DEF LookupInternal

(***************************************************************************)
(* Of the records of a key in a segment there is a last one.               *)
(***************************************************************************)
LEMMA LastExists ==
    ASSUME IInv, NEW w \in WalId, NEW n, NEW k, IsRecord(w, n, k)
    PROVE  \E m \in DOMAIN log[w] : IsLast(w, m, k) /\ n <= m
<1>. DEFINE S == {m \in DOMAIN log[w] : IsRecord(w, m, k)}
<1>1. PICK L \in Nat : DOMAIN log[w] = 1..L
  BY Zenon, SegmentLemma
<1>2. S \in SUBSET (0..L) /\ n \in S
  BY <1>1 DEF IsRecord
<1>3. Max(S) \in S /\ \A m \in S : m <= Max(S)
  BY <1>2, MaxProperties, Zenon
<1>. QED
  BY Zenon, <1>2, <1>3 DEF IsLast

(***************************************************************************)
(* open() finds the readable files, mints a segment above every other, and *)
(* has read nothing yet; with no segment on disk the files are everything. *)
(***************************************************************************)
LEMMA OpenDInv ==
    ASSUME IInv, DInv, Open
    PROVE  DInv'
<1>1. /\ pc = "down" /\ Existing = Complete
      /\ wals' = wals \cup {writer'} /\ writer' = Highest(wals) + 1
      /\ next_wal' = writer' /\ Highest(wals) + 1 <= MaxWal
      /\ version' = Complete /\ memtable' = EmptyTable
      /\ unread' = wals /\ pos' = 1
      /\ pc' = IF wals = {} THEN "idle" ELSE "replay"
      /\ UNCHANGED <<log, table, kv, unsure>> /\ UNCHANGED <<sst, caller, op, out, inputs>>
  BY Zenon DEF Open, Room, files, task, history
<1>2. pc' \in {"idle", "replay"} /\ Up' /\ caller = "client"
  BY Zenon, <1>1 DEF Up, IInv, Callers, TypeOK
<1>3. /\ Highest(wals) \in 0..MaxWal
      /\ \A w \in wals : w <= Highest(wals)
  <2>1. wals \in SUBSET (0..MaxWal)
    BY DEF IInv, TypeOK, WalId
  <2>. QED
    BY Zenon, <2>1, HighestLemma, BoundsAssumption
<1>4. /\ writer' \in WalId /\ writer' \notin wals /\ log[writer'] = <<>>
      /\ \A w \in wals' : w <= writer'
  <2>1. writer' \in WalId /\ \A w \in wals : w \in Int
    BY SMTT(30), <1>1, <1>3, BoundsAssumption DEF WalId, IInv, TypeOK
  <2>2. writer' \notin wals /\ \A w \in wals' : w <= writer'
    BY <1>1, <1>3, <2>1
  <2>. QED
    BY Zenon, <2>1, <2>2 DEF IInv, Segments
<1>5. \A w \in WalId : log[w] # <<>> => w \in wals
  BY Zenon DEF IInv, Segments
<1>6. \A k \in Key : memtable'[k] = nullopt
  BY Zenon, <1>1 DEF EmptyTable
<1>7. LogShape' /\ DiskOrdered' /\ Durable'
  BY Zenon, <1>1, SameDisk DEF DInv
<1>8. WriterLast'
  <2>1. writer' \in Int /\ DOMAIN log[writer'] = {}
    BY <1>4 DEF WalId
  <2>. QED
    BY SMTT(30), <1>1, <1>2, <1>4, <1>5, <2>1 DEF WriterLast, Recovering
<1>9. OnDisk' /\ TaskOutput'
  BY Zenon, <1>1, <1>2 DEF OnDisk, TaskOutput, Unpublished, Writing, Written, Complete
<1>10. MemtableEmpty' /\ MemtableOrdered'
  BY Zenon, <1>6 DEF MemtableEmpty, MemtableOrdered, KeysOf
<1>11. InHand'
  BY Zenon, <1>1, <1>2 DEF DInv, InHand
<1>12. Replayed'
  <2>. SUFFICES ASSUME pc' = "replay", NEW k \in Key, NEW w \in WalId,
                       NEW n \in DOMAIN log[w], IsRecord(w, n, k)', Read(w, n)'
                PROVE  FALSE
    BY Zenon, <1>1, <1>6 DEF Replayed
  <2>1. w \in wals
    BY <1>5
  <2>2. n \in Nat /\ n >= 1
    BY Zenon, SegmentLemma
  <2>. QED
    BY <1>1, <2>1, <2>2 DEF Read
<1>13. Current'
  <2>. SUFFICES ASSUME pc' = "idle", NEW k \in Key \ unsure
                PROVE  Get(k)' = kv[k]
    BY Zenon, <1>1, <1>2 DEF Current
  <2>1. NoRecord(k)
    BY <1>1, <1>5 DEF NoRecord
  <2>2. LookupInternal(version, k)' = LookupInternal(SstId, k)
    <3>1. LookupInternal(version, k)' = LookupInternal(Complete, k)
      BY Zenon, <1>1 DEF LookupInternal
    <3>. QED
      BY Zenon, <3>1, ReadableDecide
  <2>3. Get(k)' = Visible(LookupInternal(SstId, k))
    BY Zenon, <1>6, <2>2 DEF Get, GetInternal
  <2>. QED
    BY Zenon, <2>1, <2>3 DEF DInv, Durable
<1>. QED
  BY Zenon, <1>7, <1>8, <1>9, <1>10, <1>11, <1>12, <1>13 DEF DInv

(***************************************************************************)
(* recover() applies the next record: it is now the last one read of its   *)
(* key.                                                                    *)
(***************************************************************************)
LEMMA ReplayRecordDInv ==
    ASSUME IInv, DInv, ReplayRecord
    PROVE  DInv'
<1>1. PICK w, r, p : w = Min(unread) /\ r = log[w][pos] /\ p = pos
  BY Zenon
<1>2. /\ pc = "replay" /\ pc' = "replay" /\ unread # {} /\ p <= Len(log[w]) /\ r # nullopt
      /\ memtable' = ApplyRecord(memtable, r)
      /\ pos' = p + 1
      /\ UNCHANGED <<log, table, kv, unsure>>
      /\ UNCHANGED <<sst, wals, next_wal, next_sst, writer, version, caller, op, out,
                     inputs, unread>>
  BY Zenon, <1>1 DEF ReplayRecord, HasNext, Deserializes, disk, files, task, history
<1>3. w \in unread /\ w \in WalId /\ p \in Nat /\ p >= 1
  <2>1. unread \in SUBSET WalId /\ unread \in SUBSET Nat
    BY DEF IInv, TypeOK, WalId
  <2>2. Min(unread) \in unread
    BY Zenon, <1>2, <2>1, MinProperties
  <2>3. pos \in Nat /\ pos >= 1
    BY DEF IInv, TypeOK
  <2>. QED
    BY ZenonT(30), <1>1, <2>1, <2>2, <2>3
<1>4. p \in DOMAIN log[w] /\ r = log[w][p] /\ r \in WalRecord /\ r.key \in Key
  <2>1. p \in DOMAIN log[w] /\ r = log[w][p]
    BY SMTT(30), <1>1, <1>2, <1>3, SegmentLemma
  <2>. QED
    BY Zenon, <1>2, <1>3, <2>1, SegmentLemma
<1>5. /\ memtable'[r.key] = EntryOf(r) /\ EntryOf(r) # nullopt
      /\ \A j \in Key : j # r.key => memtable'[j] = memtable[j]
  <2>1. memtable \in Table
    BY Zenon DEF IInv, TypeOK
  <2>. QED
    BY Zenon, <1>2, <1>4, <2>1, AppliedEntry
<1>6. /\ \A v, n, k : IsRecord(v, n, k)' <=> IsRecord(v, n, k)
      /\ \A v, n, k : IsLast(v, n, k)' <=> IsLast(v, n, k)
  BY ZenonT(30), <1>2 DEF IsRecord, IsLast
<1>7. /\ \A v, n : Read(v, n) <=> v \notin unread \/ (v = w /\ n < p)
      /\ \A v, n : Read(v, n)' <=> v \notin unread \/ (v = w /\ n < p + 1)
  BY Zenon, <1>1, <1>2 DEF Read
<1>8. \A v \in WalId : \A n \in DOMAIN log[v] : n \in Nat
  BY Zenon, SegmentLemma
<1>9. LogShape' /\ DiskOrdered' /\ Durable'
  BY Zenon, <1>2, SameDisk DEF DInv
<1>10. WriterLast' /\ OnDisk' /\ TaskOutput' /\ MemtableEmpty' /\ InHand' /\ Current'
  BY Zenon, <1>2 DEF DInv, WriterLast, OnDisk, TaskOutput, MemtableEmpty, InHand, Current, Up,
     Recovering, Complete, Unpublished, Writing, Written, Flushed, IInv, Callers
<1>11. MemtableOrdered'
  <2>. SUFFICES ASSUME NEW k \in Key, memtable'[k] # nullopt
                PROVE  \E v \in WalId : \E n \in DOMAIN log[v] :
                          IsLast(v, n, k) /\ Older(memtable'[k], EntryOf(log[v][n]))
    BY Zenon, <1>2, <1>6 DEF MemtableOrdered
  <2>1. CASE k # r.key
    BY Zenon, <1>2, <1>5, <2>1 DEF DInv, MemtableOrdered, Up
  <2>2. CASE k = r.key
    <3>1. IsRecord(w, p, k)
      BY Zenon, <1>2, <1>4, <2>2 DEF IsRecord
    <3>2. PICK n \in DOMAIN log[w] : IsLast(w, n, k) /\ p <= n
      BY Zenon, <1>3, <3>1, LastExists
    <3>3. Older(EntryOf(r), EntryOf(log[w][n]))
      <4>1. CASE p = n
        BY Zenon, <1>4, <4>1 DEF Older
      <4>2. CASE p # n
        <5>1. p < n /\ log[w][n] # nullopt
          BY SMTT(30), <1>3, <1>8, <3>2, <4>2 DEF IsLast, IsRecord
        <5>2. r.sequence < log[w][n].sequence
          BY Zenon, <1>2, <1>3, <1>4, <5>1 DEF DInv, LogShape
        <5>. QED
          BY Zenon, <5>2 DEF Older, EntryOf
      <4>. QED
        BY Zenon, <4>1, <4>2
    <3>. QED
      BY Zenon, <1>3, <1>5, <2>2, <3>2, <3>3
  <2>. QED
    BY Zenon, <2>1, <2>2
<1>12. Replayed'
  <2>. SUFFICES ASSUME NEW k \in Key
                PROVE  /\ memtable'[k] = nullopt =>
                             \A v \in WalId : \A n \in DOMAIN log[v] :
                                 IsRecord(v, n, k) => ~Read(v, n)'
                       /\ memtable'[k] # nullopt =>
                             \E v \in WalId : \E n \in DOMAIN log[v] :
                                 /\ IsRecord(v, n, k) /\ Read(v, n)'
                                 /\ memtable'[k] = EntryOf(log[v][n])
                                 /\ \A m \in DOMAIN log[v] :
                                        IsRecord(v, m, k) /\ Read(v, m)' => m <= n
    BY Zenon, <1>2, <1>6 DEF Replayed
  <2>1. CASE k = r.key
    <3>1. IsRecord(w, p, k) /\ Read(w, p)'
      BY SMTT(30), <1>2, <1>3, <1>4, <1>7, <2>1 DEF IsRecord
    <3>2. \A m \in DOMAIN log[w] : Read(w, m)' => m <= p
      BY <1>3, <1>7, <1>8
    <3>. QED
      BY ZenonT(30), <1>3, <1>4, <1>5, <2>1, <3>1, <3>2
  <2>2. CASE k # r.key
    <3>1. ASSUME NEW v \in WalId, NEW n \in DOMAIN log[v], IsRecord(v, n, k)
          PROVE  Read(v, n)' <=> Read(v, n)
      <4>1. ~(v = w /\ n = p)
        BY Zenon, <1>4, <2>2, <3>1 DEF IsRecord
      <4>2. n \in Nat
        BY Zenon, <1>8
      <4>. QED
        BY <1>3, <1>7, <4>1, <4>2
    <3>2. memtable'[k] = memtable[k]
      BY Zenon, <1>5, <2>2
    <3>. QED
      BY Zenon, <1>2, <3>1, <3>2 DEF DInv, Replayed
  <2>. QED
    BY Zenon, <2>1, <2>2
<1>. QED
  BY Zenon, <1>9, <1>10, <1>11, <1>12 DEF DInv

(***************************************************************************)
(* The reader is at the end of a segment or at its torn tail: every record *)
(* of the segment has been read.                                           *)
(***************************************************************************)
LEMMA ReplayNextWalDInv ==
    ASSUME Survivable, IInv, DInv, ReplayNextWal
    PROVE  DInv'
<1>1. PICK w, p : w = Min(unread) /\ p = pos
  BY Zenon
<1>2. /\ pc = "replay" /\ pc' = "replay" /\ unread # {}
      /\ ~(p <= Len(log[w])) \/ log[w][p] = nullopt
      /\ unread' = unread \ {w} /\ pos' = 1
      /\ UNCHANGED <<log, table, kv, unsure>>
      /\ UNCHANGED <<sst, wals, memtable, next_wal, next_sst, writer, version, caller, op,
                     out, inputs>>
  BY Zenon, <1>1 DEF ReplayNextWal, HasNext, Deserializes, Failing, Survivable, disk, files,
     engine, task, history
<1>3. w \in unread /\ w \in WalId /\ p \in Nat /\ p >= 1
  <2>1. unread \in SUBSET WalId /\ unread \in SUBSET Nat
    BY DEF IInv, TypeOK, WalId
  <2>2. Min(unread) \in unread
    BY Zenon, <1>2, <2>1, MinProperties
  <2>3. pos \in Nat /\ pos >= 1
    BY DEF IInv, TypeOK
  <2>. QED
    BY Zenon, <1>1, <2>1, <2>2, <2>3
<1>4. /\ \A v, n, k : IsRecord(v, n, k)' <=> IsRecord(v, n, k)
      /\ \A v, n, k : IsLast(v, n, k)' <=> IsLast(v, n, k)
  BY <1>2 DEF IsRecord, IsLast
<1>5. ASSUME NEW v \in WalId, NEW n \in DOMAIN log[v], NEW k, IsRecord(v, n, k)
      PROVE  Read(v, n)' <=> Read(v, n)
  <2>1. n \in Nat /\ n >= 1
    BY Zenon, SegmentLemma
  <2>2. Read(v, n)' <=> v \notin unread \ {w}
    BY <1>2, <2>1 DEF Read
  <2>3. Read(v, n) <=> v \notin unread \/ (v = w /\ n < p)
    BY Zenon, <1>1 DEF Read
  <2>4. v = w => n < p
    <3>. SUFFICES ASSUME v = w PROVE n < p
      BY Zenon
    <3>1. PICK L \in Nat : L = Len(log[w]) /\ DOMAIN log[w] = 1..L
      BY Zenon, <1>3, SegmentLemma
    <3>2. n \in 1..L /\ log[w][n] # nullopt
      BY Zenon, <1>5, <3>1 DEF IsRecord
    <3>3. CASE p > L
      BY SMTT(30), <1>3, <2>1, <3>2, <3>3
    <3>4. CASE p \in 1..L /\ log[w][p] = nullopt
      <4>1. p = L
        BY Zenon, <1>3, <3>1, <3>4 DEF DInv, LogShape
      <4>2. n # p
        BY Zenon, <3>2, <3>4
      <4>. QED
        BY <3>2, <4>1, <4>2
    <3>. QED
      BY SMTT(30), <1>2, <1>3, <3>1, <3>3, <3>4
  <2>. QED
    BY Zenon, <1>3, <2>2, <2>3, <2>4
<1>6. LogShape' /\ DiskOrdered' /\ Durable'
  BY Zenon, <1>2, SameDisk DEF DInv
<1>7. WriterLast' /\ OnDisk' /\ TaskOutput' /\ MemtableEmpty' /\ InHand' /\ Current'
  BY Zenon, <1>2 DEF DInv, WriterLast, OnDisk, TaskOutput, MemtableEmpty, InHand, Current, Up,
     Recovering, Complete, Unpublished, Writing, Written, Flushed, IInv, Callers
<1>8. MemtableOrdered'
  BY Zenon, <1>2, <1>4 DEF DInv, MemtableOrdered, Up
<1>9. Replayed'
  <2>1. \A k \in Key, v \in WalId : \A n \in DOMAIN log[v] :
            IsRecord(v, n, k) => (Read(v, n)' <=> Read(v, n))
    BY Zenon, <1>5
  <2>. QED
    BY Zenon, <1>2, <1>4, <2>1 DEF DInv, Replayed
<1>. QED
  BY Zenon, <1>6, <1>7, <1>8, <1>9 DEF DInv

(***************************************************************************)
(* Every segment is read: the memtable holds the last record of each key,  *)
(* newer than what any file has of it or the same.                         *)
(***************************************************************************)
LEMMA ReplayDoneDInv ==
    ASSUME Survivable, IInv, DInv, ReplayDone
    PROVE  DInv'
<1>1. /\ pc = "replay" /\ unread = {} /\ caller' = "recover"
      /\ pc' = IF ApproximateSize(memtable) > 0 THEN "flush" ELSE "clean"
      /\ UNCHANGED <<log, table, kv, unsure>>
      /\ UNCHANGED <<sst, wals, memtable, next_wal, next_sst, writer, version, op, out,
                     inputs>>
  BY Zenon DEF ReplayDone, disk, files, engine, task, history
<1>2. pc' \in {"flush", "clean"} /\ Up /\ Up' /\ Recovering'
  BY Zenon, <1>1 DEF Up, Recovering
<1>3. /\ \A v, n, k : IsLast(v, n, k)' <=> IsLast(v, n, k)
      /\ \A v, n : Read(v, n)
  BY SMTT(30), <1>1 DEF IsRecord, IsLast, Read
<1>4. ASSUME NEW k \in Key
      PROVE  /\ memtable[k] = nullopt => NoRecord(k)
             /\ memtable[k] # nullopt =>
                   \E w \in WalId : \E n \in DOMAIN log[w] :
                       IsLast(w, n, k) /\ memtable[k] = EntryOf(log[w][n])
  BY <1>1, <1>3 DEF DInv, Replayed, NoRecord, IsLast
<1>5. LogShape' /\ DiskOrdered' /\ Durable'
  BY Zenon, <1>1, SameDisk DEF DInv
<1>6. WriterLast' /\ OnDisk' /\ TaskOutput' /\ InHand' /\ Replayed'
  BY Zenon, <1>1, <1>2 DEF DInv, WriterLast, OnDisk, TaskOutput, InHand, Replayed,
     Complete, Unpublished, Writing, Written
<1>7. MemtableEmpty'
  <2>1. KeysOf(memtable)' = KeysOf(memtable) /\ memtable \in Table
    BY Zenon, <1>1 DEF KeysOf, IInv, TypeOK
  <2>. QED
    BY Zenon, <1>1, <1>2, <2>1 DEF MemtableEmpty, Flushed, Survivable
<1>8. MemtableOrdered'
  <2>1. \A i \in SstId, k \in Key :
           table[i][k] # nullopt /\ memtable[k] # nullopt => Older(table[i][k], memtable[k])
    BY Zenon, <1>4 DEF DInv, DiskOrdered
  <2>. QED
    BY Zenon, <1>1, <1>2, <1>3, <2>1 DEF DInv, MemtableOrdered
<1>9. Current'
  <2>. SUFFICES ASSUME NEW k \in Key \ unsure PROVE Get(k) = kv[k]
    BY Zenon, <1>1, <1>2 DEF Current, Get, GetInternal, LookupInternal
  <2>1. CASE memtable[k] = nullopt
    <3>1. Complete = version
      BY Zenon, <1>1, <1>2 DEF DInv, OnDisk, Unpublished, Written
    <3>2. Get(k) = Visible(LookupInternal(SstId, k))
      BY Zenon, <2>1, <3>1, ReadableDecide DEF Get, GetInternal
    <3>. QED
      BY Zenon, <1>4, <2>1, <3>2 DEF DInv, Durable
  <2>2. CASE memtable[k] # nullopt
    <3>1. PICK w \in WalId : \E n \in DOMAIN log[w] :
              IsLast(w, n, k) /\ memtable[k] = EntryOf(log[w][n])
      BY Zenon, <1>4, <2>2
    <3>2. PICK n \in DOMAIN log[w] : IsLast(w, n, k) /\ memtable[k] = EntryOf(log[w][n])
      BY Zenon, <3>1
    <3>3. log[w][n] # nullopt /\ log[w][n] \in WalRecord
      BY Zenon, <3>2, SegmentLemma DEF IsLast, IsRecord
    <3>4. log[w][n].op_type = "DELETE_ROW" <=> log[w][n].value = nullopt
      BY Zenon, <3>3 DEF DInv, LogShape
    <3>5. Visible(EntryOf(log[w][n])) = log[w][n].value
      <4>1. EmptyTable \in Table
        BY Zenon, EmptyTableLemma
      <4>. QED
        BY Zenon, <3>3, <3>4, <4>1, AppliedEntry
    <3>6. log[w][n].value = kv[k]
      BY Zenon, <3>2 DEF DInv, Durable
    <3>. QED
      BY Zenon, <2>2, <3>2, <3>5, <3>6 DEF Get, GetInternal
  <2>. QED
    BY Zenon, <2>1, <2>2
<1>. QED
  BY Zenon, <1>5, <1>6, <1>7, <1>8, <1>9 DEF DInv

(***************************************************************************)
(* recover() removes an old segment: what it held is in the files by now.  *)
(***************************************************************************)
LEMMA RecoverRemoveWalDInv ==
    ASSUME IInv, DInv, RecoverRemoveWal
    PROVE  DInv'
<1>1. PICK o : o = Min(old_wals)
  BY Zenon
<1>2. /\ pc = "clean" /\ pc' = "clean" /\ old_wals # {}
      /\ wals' = wals \ {o}
      /\ log' = [log EXCEPT ![o] = <<>>]
      /\ UNCHANGED <<sst, table, kv, unsure>>
      /\ UNCHANGED <<memtable, writer, next_wal, next_sst, version, caller, op, out, inputs>>
  BY Zenon, <1>1 DEF RecoverRemoveWal, files, engine, task, history
<1>3. Up /\ Up' /\ Recovering /\ Recovering'
  BY Zenon, <1>2 DEF Up, Recovering, IInv, Callers
<1>4. o \in old_wals /\ o \in WalId /\ writer # o
  <2>1. old_wals \in SUBSET WalId /\ old_wals \in SUBSET Nat
    BY DEF IInv, TypeOK, WalId
  <2>2. Min(old_wals) \in old_wals
    BY Zenon, <1>2, <2>1, MinProperties
  <2>3. \A w \in old_wals : w < writer
    BY Zenon, <1>3 DEF IInv, Segments
  <2>4. o \in old_wals /\ o \in WalId /\ o \in Nat /\ o < writer
    BY <1>1, <2>1, <2>2, <2>3, Zenon
  <2>. QED
    BY <2>4
<1>5. \A w \in WalId : log'[w] = IF w = o THEN <<>> ELSE log[w]
  BY Zenon, <1>2, <1>4 DEF IInv, TypeOK
<1>6. KeysOf(memtable) = {}
  BY Zenon, <1>2 DEF DInv, MemtableEmpty, Flushed
<1>7. \A k \in Key \ unsure : Visible(LookupInternal(SstId, k)) = kv[k]
  BY Zenon, <1>2, <1>3, <1>6, DiskReads DEF Unpublished, Written
<1>8. LogShape' /\ DiskOrdered' /\ Durable'
  BY Zenon, <1>2, <1>5, <1>7, SegmentRemoved
<1>9. WriterLast'
  <2>1. writer \in WalId
    BY Zenon, <1>3 DEF IInv, Segments, TypeOK
  <2>2. log'[writer] = log[writer]
    BY Zenon, <1>4, <1>5, <2>1
  <2>. QED
    BY Zenon, <1>2, <1>3, <2>2 DEF DInv, WriterLast
<1>10. OnDisk' /\ TaskOutput' /\ MemtableEmpty'
  BY Zenon, <1>2, <1>3, <1>6 DEF DInv, OnDisk, Complete, Unpublished, Written, Writing,
     TaskOutput, MemtableEmpty, KeysOf
<1>11. MemtableOrdered' /\ InHand' /\ Replayed'
  BY Zenon, <1>2, <1>6 DEF DInv, MemtableOrdered, InHand, Replayed, KeysOf
<1>12. Current'
  <2>1. \A k : Get(k)' = Get(k)
    BY Zenon, <1>2 DEF Get, GetInternal, LookupInternal
  <2>. QED
    BY Zenon, <1>2, <1>3, <2>1 DEF DInv, Current
<1>. QED
  BY Zenon, <1>8, <1>9, <1>10, <1>11, <1>12 DEF DInv

(***************************************************************************)
(* recover() returns: no segment holds a record any more.                  *)
(***************************************************************************)
LEMMA RecoverDoneDInv ==
    ASSUME IInv, DInv, RecoverDone
    PROVE  DInv'
<1>1. /\ pc = "clean" /\ pc' = "idle" /\ old_wals = {} /\ caller' = "client"
      /\ UNCHANGED <<log, table, kv, unsure>>
      /\ UNCHANGED <<sst, wals, memtable, next_wal, next_sst, writer, version, op, out,
                     inputs>>
  BY Zenon DEF RecoverDone, disk, files, task, history
<1>2. Up /\ Up' /\ Recovering
  BY Zenon, <1>1 DEF Up, Recovering, IInv, Callers
<1>3. \A w \in WalId : log[w] = <<>>
  BY Zenon, <1>1, <1>2 DEF IInv, Segments
<1>4. \A v, n, k : IsLast(v, n, k)' <=> IsLast(v, n, k)
  BY <1>1 DEF IsRecord, IsLast
<1>5. LogShape' /\ DiskOrdered' /\ Durable'
  BY Zenon, <1>1, SameDisk DEF DInv
<1>6. WriterLast'
  BY Zenon, <1>1, <1>2, <1>3 DEF DInv, WriterLast
<1>7. OnDisk' /\ TaskOutput' /\ MemtableEmpty' /\ InHand' /\ Replayed'
  BY Zenon, <1>1, <1>2 DEF DInv, OnDisk, Complete, Unpublished, Written, Writing, TaskOutput,
     MemtableEmpty, Flushed, InHand, Replayed
<1>8. MemtableOrdered'
  BY Zenon, <1>1, <1>2, <1>4 DEF DInv, MemtableOrdered
<1>9. Current'
  <2>1. \A k : Get(k)' = Get(k)
    BY Zenon, <1>1 DEF Get, GetInternal, LookupInternal
  <2>. QED
    BY Zenon, <1>1, <1>2, <2>1 DEF DInv, Current
<1>. QED
  BY Zenon, <1>5, <1>6, <1>7, <1>8, <1>9 DEF DInv

-----------------------------------------------------------------------------
(***************************************************************************)
(* The invariance of DInv.                                                 *)
(***************************************************************************)

(***************************************************************************)
(* An empty directory has every key unset.                                 *)
(***************************************************************************)
LEMMA InitDInv ==
    Init => DInv
<1>. SUFFICES ASSUME Init PROVE DInv
  BY Zenon
<1>1. /\ \A w \in WalId : log[w] = <<>> /\ DOMAIN log[w] = {}
      /\ \A i \in SstId, k \in Key : table[i][k] = nullopt
      /\ \A k \in Key : kv[k] = nullopt
      /\ pc = "down" /\ op = nullopt
  BY DEF Init, EmptyTable
<1>2. LogShape /\ DiskOrdered
  BY Zenon, <1>1 DEF LogShape, OneWalHoldsRecords, DiskOrdered
<1>3. Durable
  <2>1. \A k \in Key : LookupInternal(SstId, k) = nullopt
    BY Zenon, <1>1 DEF LookupInternal
  <2>. QED
    BY Zenon, <1>1, <2>1 DEF Durable, Visible
<1>4. WriterLast /\ OnDisk /\ TaskOutput /\ MemtableEmpty
  BY Zenon, <1>1 DEF Up, WriterLast, OnDisk, TaskOutput, Writing, Written, MemtableEmpty, Flushed
<1>5. MemtableOrdered /\ InHand /\ Replayed /\ Current
  BY Zenon, <1>1 DEF Up, MemtableOrdered, InHand, Replayed, Current
<1>. QED
  BY Zenon, <1>2, <1>3, <1>4, <1>5 DEF DInv

(***************************************************************************)
(* A failing reopen and a stuttering step.                                 *)
(***************************************************************************)
LEMMA StutterDInv ==
    ASSUME DInv, UNCHANGED vars
    PROVE  DInv'
<1>. USE DEF DInv, vars, disk, files, engine, task, recovery, history
<1>1. LogShape' /\ DiskOrdered' /\ Durable'
  BY ZenonT(30), SameDisk
<1>2. WriterLast' /\ OnDisk' /\ TaskOutput' /\ MemtableEmpty'
  BY DEF Up, Recovering, WriterLast, OldWal, OnDisk, Complete, Unpublished, TaskOutput,
     LookupInternal, Writing, Written, MemtableEmpty, Flushed, KeysOf
<1>3. MemtableOrdered' /\ InHand'
  <2>1. MemtableOrdered'
    BY Zenon DEF Up, MemtableOrdered, IsLast, IsRecord
  <2>2. InHand'
    BY Zenon DEF InHand
  <2>. QED
    BY Zenon, <2>1, <2>2
<1>4. Replayed'
  <2>1. \A w, n, k : (IsRecord(w, n, k)' <=> IsRecord(w, n, k)) /\ (Read(w, n)' <=> Read(w, n))
    BY Zenon DEF IsRecord, Read
  <2>. QED
    BY Zenon, <2>1 DEF Replayed
<1>5. Current'
  BY Zenon DEF Up, Current, Get, GetInternal, LookupInternal
<1>. QED
  BY Zenon, <1>1, <1>2, <1>3, <1>4, <1>5

(***************************************************************************)
(* Every step keeps DInv, in a state where IInv holds.  The steps of the   *)
(* excluded faults do not happen.                                          *)
(***************************************************************************)
LEMMA NextDInv ==
    ASSUME Survivable
    PROVE  IInv /\ DInv /\ [Next]_vars => DInv'
<1>. SUFFICES ASSUME IInv, DInv, [Next]_vars PROVE DInv'
  BY Zenon
<1>1. \A call \in {"append", "wal_create", "wal_remove", "wal_read", "sst_sync",
                   "sst_read", "unlink"} : ~Failing(call)
  BY Zenon DEF Survivable, Failing
<1>2. CASE PutStep \/ PutAppendTorn
  <2>1. \A k, v : ~PutAppendFails(k, v)
    BY Zenon, <1>1 DEF PutAppendFails
  <2>. QED
    BY Zenon, <1>2, <2>1, PutAppendDInv, PutApplyDInv, PutSyncFailsDInv, PutAppendTornDInv
       DEF PutStep
<1>3. CASE FlushStep \/ FlushCall
  <2>1. ~FlushSyncFails /\ ~FlushRotateFails /\ ~FlushRemoveWalThrows
    BY Zenon, <1>1 DEF FlushSyncFails, FlushRotateFails, FlushRemoveWalThrows
  <2>. QED
    BY Zenon, <1>3, <2>1, FlushCallDInv, FlushCreateDInv, FlushWriteDInv, FlushWriteFailsDInv,
       FlushRotateDInv, FlushRemoveWalDInv DEF FlushStep
<1>4. CASE CompactStep \/ CompactNow
  <2>1. ~CompactSyncFails /\ ~ReclaimFails /\ \A k : ~CompactReadFails(k)
    BY Zenon, <1>1 DEF CompactSyncFails, ReclaimFails, CompactReadFails
  <2>2. CASE CompactEmptyAborts
    BY Zenon, <2>2, CrashDInv DEF CompactEmptyAborts, disk, files, history
  <2>. QED
    BY Zenon, <1>4, <2>1, <2>2, DoCompactWorkDInv, CompactNowDInv, CompactWriteDInv,
       CompactFailsDInv, CompactInstallDInv, ReclaimDInv, CompactDoneDInv
       DEF CompactStep
<1>5. CASE RecoverStep \/ Open \/ Crash
  <2>1. ~ReplayOpenFails /\ ~RecoverRemoveWalThrows
    BY Zenon, <1>1 DEF ReplayOpenFails, RecoverRemoveWalThrows
  <2>2. CASE Crash
    BY Zenon, <2>2, CrashDInv DEF Crash, disk, files, history
  <2>. QED
    BY Zenon, <1>5, <2>1, <2>2, OpenDInv, ReplayRecordDInv, ReplayNextWalDInv, ReplayDoneDInv,
       RecoverRemoveWalDInv, RecoverDoneDInv DEF RecoverStep
<1>6. CASE OpenFails \/ UNCHANGED vars
  BY Zenon, <1>6, StutterDInv DEF OpenFails
<1>. QED
  BY Zenon, <1>2, <1>3, <1>4, <1>5, <1>6 DEF Next

(***************************************************************************)
(* DInv holds in every reachable state of the engine.                      *)
(***************************************************************************)
THEOREM Durability ==
    ASSUME Survivable
    PROVE  Spec => []DInv
<1>1. Init => DInv
  BY Zenon, InitDInv
<1>2. IInv /\ DInv /\ [Next]_vars => DInv'
  BY Zenon, NextDInv
<1>3. Spec => []IInv
  BY Zenon, Invariance
<1>. QED
  BY <1>1, <1>2, <1>3, PTL DEF Spec

(***************************************************************************)
(* Whatever flushes, compactions, crashes and recoveries came in between,  *)
(* get() returns the last write that took effect.                          *)
(***************************************************************************)
THEOREM ReadsLastWrite ==
    ASSUME Survivable
    PROVE  Spec => []ReadsMatchModel
<1>1. DInv => ReadsMatchModel
  BY Zenon DEF DInv, Current, ReadsMatchModel, Up
<1>. QED
  BY <1>1, Durability, PTL

(***************************************************************************)
(* Between calls the version is exactly the readable files: flush() and    *)
(* run_task() neither lose a file nor leave one behind.                    *)
(***************************************************************************)
THEOREM NoOrphanNoLoss ==
    ASSUME Survivable
    PROVE  Spec => []VersionIsDisk
<1>1. DInv => VersionIsDisk
  BY Zenon DEF DInv, OnDisk, Unpublished, Written, VersionIsDisk, Up
<1>. QED
  BY <1>1, Durability, PTL

(***************************************************************************)
(* Version::lookup, which trusts ids, and MergeIterator, which trusts      *)
(* sequences, agree on which entry of a key is newer.                      *)
(***************************************************************************)
THEOREM IdsAgreeWithSequences ==
    ASSUME Survivable
    PROVE  Spec => []IdsFollowSequences
<1>1. DInv => IdsFollowSequences
  BY Zenon DEF DInv, DiskOrdered, Older, IdsFollowSequences, Complete, KeysOf
<1>. QED
  BY <1>1, Durability, PTL

(***************************************************************************)
(* recover() finds records in one segment at most, so the order in which   *)
(* it reads segments never decides a value.                                *)
(***************************************************************************)
THEOREM RecordsInOneSegment ==
    ASSUME Survivable
    PROVE  Spec => []OneWalHoldsRecords
<1>1. DInv => OneWalHoldsRecords
  BY Zenon DEF DInv, LogShape
<1>. QED
  BY <1>1, Durability, PTL

-----------------------------------------------------------------------------
(***************************************************************************)
(* The refinement of KVStore.  A sync() that fails is excluded as well: it *)
(* leaves in the log a write that put() reported as failed, which a later  *)
(* flush() drops.                                                          *)
(***************************************************************************)
Dependable == Survivable /\ "sync" \notin Faults

(***************************************************************************)
(* Only an append changes what a key should read.  Any other step leaves   *)
(* the record put() has in hand, or ends that call.                        *)
(***************************************************************************)
LEMMA HistoryStep ==
    ASSUME "sync" \notin Faults, [Next]_vars
    PROVE  \/ \E k \in Key, v \in Value \cup {nullopt} : PutAppend(k, v)
           \/ UNCHANGED <<kv, unsure>> /\ op' \in {op, nullopt}
<1>1. CASE PutStep \/ PutAppendTorn
  <2>1. ~PutSyncFails
    BY Zenon DEF PutSyncFails, Failing
  <2>2. CASE \E k \in Key, v \in Value \cup {nullopt} : PutAppendFails(k, v)
    BY Zenon, <2>2 DEF PutAppendFails, history
  <2>3. CASE PutApply \/ PutAppendTorn
    BY Zenon, <2>3 DEF PutApply, PutAppendTorn, Down, history
  <2>. QED
    BY Zenon, <1>1, <2>1, <2>2, <2>3 DEF PutStep
<1>2. CASE FlushStep \/ FlushCall
  <2>. USE DEF history, FlushFailed, Down
  <2>1. CASE FlushCall \/ FlushCreate \/ FlushWrite \/ FlushRotate \/ FlushRemoveWal
    BY Zenon, <2>1 DEF FlushCall, FlushCreate, FlushWrite, FlushRotate, FlushRemoveWal
  <2>2. CASE FlushWriteFails \/ FlushSyncFails \/ FlushRemoveWalThrows
    BY Zenon, <2>2 DEF FlushWriteFails, FlushSyncFails, FlushRemoveWalThrows
  <2>3. CASE FlushRotateFails
    BY Zenon, <2>3 DEF FlushRotateFails
  <2>. QED
    BY Zenon, <1>2, <2>1, <2>2, <2>3 DEF FlushStep
<1>3. CASE CompactStep \/ CompactNow
  <2>. USE DEF history
  <2>1. CASE DoCompactWork \/ CompactNow \/ CompactInstall \/ Reclaim \/ ReclaimFails
             \/ CompactDone
    BY Zenon, <2>1 DEF DoCompactWork, CompactNow, CompactInstall, Reclaim, ReclaimFails, CompactDone
  <2>2. CASE CompactWrite \/ CompactWriteFails \/ CompactSyncFails
             \/ CompactEmptyRejected
    BY Zenon, <2>2 DEF CompactWrite, CompactWriteFails, CompactSyncFails, CompactEmptyRejected
  <2>3. CASE \E k \in Key : CompactReadFails(k)
    BY Zenon, <2>3 DEF CompactReadFails
  <2>4. CASE CompactEmptyAborts
    BY Zenon, <2>4 DEF CompactEmptyAborts, Down
  <2>. QED
    BY Zenon, <1>3, <2>1, <2>2, <2>3, <2>4 DEF CompactStep
<1>4. CASE RecoverStep \/ Open \/ Crash
  <2>. USE DEF history
  <2>1. CASE Open \/ ReplayRecord \/ ReplayNextWal \/ ReplayDone \/ RecoverRemoveWal
             \/ RecoverDone
    BY Zenon, <2>1 DEF Open, ReplayRecord, ReplayNextWal, ReplayDone, RecoverRemoveWal, RecoverDone
  <2>2. CASE ReplayOpenFails \/ RecoverRemoveWalThrows \/ Crash
    BY Zenon, <2>2 DEF ReplayOpenFails, RecoverRemoveWalThrows, Crash, Down
  <2>. QED
    BY Zenon, <1>4, <2>1, <2>2 DEF RecoverStep
<1>5. CASE OpenFails \/ UNCHANGED vars
  BY Zenon, <1>5 DEF OpenFails, vars, history
<1>. QED
  BY Zenon, <1>1, <1>2, <1>3, <1>4, <1>5 DEF Next

(***************************************************************************)
(* The map a recovery would bring back is the one the client's writes      *)
(* built, at every step of every call.                                     *)
(***************************************************************************)
LEMMA ViewIsHistory ==
    ASSUME IInv, DInv, unsure = {}
    PROVE  [k \in Key |-> DurableView(k)] = kv
<1>. SUFFICES ASSUME NEW k \in Key PROVE DurableView(k) = kv[k]
  BY Zenon DEF IInv, TypeOK
<1>1. ASSUME NEW w \in WalId, NEW n
      PROVE  Replayable(w, n) /\ log[w][n].key = k <=> IsRecord(w, n, k)
  <2>1. PICK L \in Nat : L = Len(log[w]) /\ DOMAIN log[w] = 1..L
    BY Zenon, SegmentLemma
  <2>2. \A m \in 1..L : log[w][m] = nullopt => m = L
    BY Zenon, <2>1 DEF DInv, LogShape
  <2>3. ASSUME IsRecord(w, n, k) PROVE Replayable(w, n) /\ log[w][n].key = k
    <3>1. n \in 1..L /\ log[w][n] # nullopt /\ log[w][n].key = k
      BY Zenon, <2>1, <2>3 DEF IsRecord
    <3>. QED
      BY <2>1, <2>2, <3>1 DEF Replayable
  <2>4. ASSUME Replayable(w, n), log[w][n].key = k PROVE IsRecord(w, n, k)
    BY SMTT(30), <2>1, <2>4 DEF Replayable, IsRecord
  <2>. QED
    BY Zenon, <2>3, <2>4
<1>2. wals \in SUBSET WalId /\ WalId \in SUBSET (0..MaxWal)
  BY BoundsAssumption DEF IInv, TypeOK, WalId
<1>3. CASE ReplayedWals(k) = {}
  <2>1. NoRecord(k)
    <3>. SUFFICES ASSUME NEW w \in WalId, NEW n \in DOMAIN log[w], IsRecord(w, n, k)
                  PROVE  FALSE
      BY Zenon DEF NoRecord
    <3>1. w \in wals
      BY DEF IInv, Segments
    <3>. QED
      BY Zenon, <1>1, <1>3, <3>1 DEF ReplayedWals
  <2>2. Visible(LookupInternal(SstId, k)) = kv[k]
    BY Zenon, <2>1 DEF DInv, Durable
  <2>. QED
    BY Zenon, <1>3, <2>2, ReadableDecide DEF DurableView
<1>4. CASE ReplayedWals(k) # {}
  <2>1. PICK w : w = Max(ReplayedWals(k))
    BY Zenon
  <2>2. ReplayedWals(k) \in SUBSET (0..MaxWal)
    BY Zenon, <1>2 DEF ReplayedWals
  <2>3. w \in ReplayedWals(k)
    BY <1>4, <2>1, <2>2, BoundsAssumption, MaxProperties, Zenon
  <2>4. w \in WalId /\ \E n \in DOMAIN log[w] : IsRecord(w, n, k)
    BY Zenon, <1>1, <1>2, <2>3 DEF ReplayedWals
  <2>5. PICK L \in Nat : DOMAIN log[w] = 1..L
    BY Zenon, <2>4, SegmentLemma
  <2>6. \A n : n \in ReplayedAt(w, k) <=> IsRecord(w, n, k)
    BY Zenon, <1>1, <2>4 DEF ReplayedAt, IsRecord
  <2>7. ReplayedAt(w, k) \in SUBSET (0..L) /\ ReplayedAt(w, k) # {}
    BY SMTT(30), <2>4, <2>5, <2>6 DEF ReplayedAt
  <2>8. PICK n : n = Max(ReplayedAt(w, k))
    BY Zenon
  <2>9. n \in ReplayedAt(w, k) /\ \A m \in ReplayedAt(w, k) : m <= n
    BY <2>7, <2>8, MaxProperties, Zenon
  <2>10. IsLast(w, n, k) /\ n \in DOMAIN log[w]
    BY Zenon, <2>6, <2>9 DEF IsLast, IsRecord
  <2>11. log[w][n].value = kv[k]
    BY Zenon, <2>4, <2>10 DEF DInv, Durable
  <2>. QED
    BY Zenon, <1>4, <2>1, <2>8, <2>11 DEF DurableView
<1>. QED
  BY Zenon, <1>3, <1>4

(***************************************************************************)
(* The engine implements the durable map: every step is a write taking     *)
(* effect on its own key, the end of a call, or invisible.                 *)
(***************************************************************************)
THEOREM EngineImplementsKVStore ==
    ASSUME Dependable
    PROVE  Spec => ImplementsKVStore
<1>. DEFINE Sure == unsure = {}
            View == [k \in Key |-> DurableView(k)] = kv
<1>1. Init => Store!Init
  <2>. SUFFICES ASSUME Init PROVE Store!Init
    BY Zenon
  <2>1. op = nullopt /\ unsure = {} /\ kv = [k \in Key |-> nullopt]
    BY Zenon DEF Init
  <2>2. [k \in Key |-> DurableView(k)] = kv
    BY Zenon, <2>1, InitIInv, InitDInv, ViewIsHistory
  <2>. QED
    BY Zenon, <2>1, <2>2 DEF Store!Init
<1>2. Init => Sure
  BY Zenon DEF Init
<1>3. Sure /\ [Next]_vars => Sure'
  <2>. SUFFICES ASSUME unsure = {}, [Next]_vars PROVE unsure' = {}
    BY Zenon
  <2>1. CASE \E k \in Key, v \in Value \cup {nullopt} : PutAppend(k, v)
    BY Zenon, <2>1 DEF PutAppend
  <2>. QED
    BY Zenon, <2>1, HistoryStep DEF Dependable
<1>4. IInv /\ DInv /\ Sure => View
  BY Zenon, ViewIsHistory
<1>5. IInv /\ IInv' /\ DInv /\ View /\ View' /\ [Next]_vars => [Store!Next]_(Store!vars)
  <2>. SUFFICES ASSUME IInv, IInv', DInv, View, View', [Next]_vars
                PROVE  Store!Next \/ UNCHANGED Store!vars
    BY Zenon DEF Store!vars
  <2>1. /\ [k \in Key |-> DurableView(k)] = kv
        /\ [k \in Key |-> DurableView(k)]' = kv'
    BY Zenon
  <2>2. CASE \E k \in Key, v \in Value \cup {nullopt} : PutAppend(k, v)
    <3>1. PICK k \in Key, v \in Value \cup {nullopt} : PutAppend(k, v)
      BY Zenon, <2>2
    <3>2. pc = "idle" /\ op' = RecordOf(k, v) /\ kv' = [kv EXCEPT ![k] = v] /\ pc' = "sync"
      BY Zenon, <3>1 DEF PutAppend
    <3>3. op = nullopt /\ op' # nullopt /\ op'.key = k
      BY Zenon, <3>2, NulloptAssumption DEF DInv, InHand, IInv, Record, RecordOf
    <3>4. Store!Write(k, v)
      BY Zenon, <2>1, <3>2, <3>3 DEF Store!Write
    <3>. QED
      BY Zenon, <3>4 DEF Store!Next
  <2>3. CASE UNCHANGED <<kv, unsure>> /\ op' \in {op, nullopt}
    <3>1. CASE op' = op
      BY Zenon, <2>1, <2>3, <3>1 DEF Store!vars
    <3>2. CASE op' = nullopt /\ op # nullopt
      <4>1. op.key \in Key /\ op.key # nullopt
        BY Zenon, <3>2, NulloptAssumption DEF DInv, InHand, IInv, Record, WalRecord
      <4>2. Store!Return
        BY Zenon, <2>1, <2>3, <3>2, <4>1 DEF Store!Return
      <4>. QED
        BY Zenon, <4>2 DEF Store!Next
    <3>. QED
      BY Zenon, <2>3, <3>1, <3>2
  <2>. QED
    BY Zenon, <2>2, <2>3, HistoryStep DEF Dependable
<1>6. Spec => []IInv /\ []DInv
  BY Invariance, Durability, PTL DEF Dependable
<1>. QED
  BY <1>1, <1>2, <1>3, <1>4, <1>5, <1>6, PTL DEF Spec, ImplementsKVStore, Store!Spec
=============================================================================
