# A TLA+ model of EnigmaDB

EnigmaDB is a storage engine in C++: a log-structured merge tree called Dazzle,
with a write-ahead log, a memtable, immutable SSTable files, versions that
readers pin, compaction, a cache of open tables, an encoding of composite keys,
a hybrid clock and a logger with an asynchronous sink and a crash ring. This
directory models the parts of it whose correctness depends on orders of events
that tests rarely produce (crashes between two writes, failed I/O calls, racing
compactions, lost notifications, lock-free writers and readers) or on arithmetic
at boundaries, and checks them with TLC on small instances. For all of them but
the merge and the key encoding, TLAPS proves the safety properties that the runs
check for every value of the parameters.

`PROJECT.json` lists, for every definition, the source lines it stands for, and
the runs, the mutants that show each property can fail, the findings, the
hazards and the theorems.

## 1. The system and its parts

    client ── put/remove/get/flush/compact_now ──▶ Dazzle
      Dazzle ─▶ WAL segment (append, sync)           then ─▶ memtable
      Dazzle ─▶ flush: SSTableWriter ─▶ VersionSet::apply ─▶ new WAL segment
      Dazzle ─▶ compaction: policy ─▶ MergeIterator over SSTableIterators
                 ─▶ SSTableWriter ─▶ VersionSet::apply ─▶ reclaim (unlink)
      get ─▶ memtable ─▶ Version (files by descending id) ─▶ TableCache ─▶ SSTableReader
      open ─▶ directory scan ─▶ Version;  recover: replay segments ─▶ flush ─▶ remove them
    put ─▶ TimestampGenerator::next
    every part ─▶ Logger::dispatch ─▶ AsyncSink (queue and worker thread)
                 ─▶ console, file, RingBufferSink
    fatal record or signal ─▶ flush with a deadline ─▶ dump of the ring ─▶ abort

| Part | Source | Module |
|---|---|---|
| engine | `storage/dazzle_db/dazzle_engine.{h,cpp}` | `Dazzle` |
| WAL, memtable, records | `dazzle_db/wal/*`, `dazzle_db/memtable/*` | `Records`, `Dazzle` |
| versions, reclamation | `dazzle_db/core/version*.h` | `VersionSet` |
| compaction policies, tombstone rule | `dazzle_db/compaction/*` | `CompactionPolicy` |
| merge and compaction loop | `merge_iterator.*`, `compaction/compaction.cpp` | `Merge` |
| SSTable files, Bloom filter | `dazzle_db/sstable/*`, `bloom_filter.*` | `SSTable` |
| table cache, LRU cache | `sstable/table_cache.*`, `utils/cache.*` | `LRUCache` |
| composite keys | `catalog/key_encoding.*` | `KeyEncoding` |
| hybrid clock | `hlc.*` | `HybridClock` |
| asynchronous log sink | `log_sinks.*` (`AsyncSink`) | `AsyncSink` |
| crash ring | `log_sinks.*` (`RingBufferSink`) | `RingBufferSink` |
| logger, crash handlers | `log.*`, `log_crash.cpp` | `Logger` |

**Not modelled**, with the reason: the console and file sinks (output only; that
their mutex or their writes may never return is in `Logger`); `add_sink`, `set_level` and the level of
a sink (a record below it is one nobody dispatches); the manifest (an empty
class); byte codecs, checksums and hashes (pure conversions, abstracted where
they are used); system calls of the I/O engine below "this call fails"; result
and error types; interfaces without behaviour; the dump tool and test helpers.

## 2. Modules

**`Records`** has what flows through the engine: WAL records, memtable entries,
tables (a function from keys to entries), and a torn record (`nullopt`).

**`Dazzle`** is the engine with one client. The disk is `sst`, `table`, `size`,
`wals` and `log`; the object is `memtable`, `lsn`, `next_wal`, `next_sst`,
`writer` and `version`; `pc` and the variables after it are the activation
record of the running call. Each call is split where it touches the disk, so
that `Crash` may come between any two such steps, and each I/O call that can
return an error has a failing action, enabled when `Faults` names it:

| Code | Actions |
|---|---|
| `put`, `remove` | `PutAppend`, `PutApply`; `PutAppendFails`, `PutAppendTorn`, `PutSyncFails` |
| `flush` | `FlushCall`, `FlushCreate`, `FlushWrite`, `FlushRotate`, `FlushRemoveWal`; `FlushWriteFails`, `FlushSyncFails`, `FlushRotateFails`, `FlushRemoveWalThrows` |
| `do_compact_work`, `compact_now`, `run_task` | `DoCompactWork`, `CompactNow`, `CompactWrite`, `CompactInstall`; `CompactReadFails`, `CompactWriteFails`, `CompactSyncFails`, `CompactEmptyAborts`, `CompactEmptyRejected` |
| `reclaim` | `Reclaim`, `ReclaimFails`, `CompactDone` |
| `open`, `recover` | `Open`, `OpenFails`, `ReplayRecord`, `ReplayNextWal`, `ReplayDone`, the flush actions, `RecoverRemoveWal`, `RecoverDone`; `ReplayOpenFails`, `RecoverRemoveWalThrows` |
| `get` | the operator `Get`, evaluated in every idle state by the properties |

A crash is the death of the process: bytes handed to the system survive, the
record or file being written may be torn. History variables: `kv` is the last
write that took effect on each key, `unsure` the keys whose last write returned
an error after its append (either outcome is allowed).

**`CompactionPolicy`** has both policies and `can_drop_tombstones` as operators.
**`KVStore`** is the abstract specification of the engine, a durable map, and
**`DazzleStore`** the refinement mapping: the map is what a recovery started now
would read, a function of the disk alone.

**`VersionSet`** is the concurrent part: readers that take and drop a
`shared_ptr<Version>`, compactors that pick, mint, write and apply, flushers that
mint and apply, and reclamation outside the lock. `apply`, `append_version` and
`purge_obsolete_files` are one action, since the code holds one mutex across
them; `use_count()` is the set of threads that hold the version. `Restart` is the
death of the process at any step and the `open()` after it: the directory becomes
the bootstrap version, the next id is one above the highest file name. `holds`
follows which flushed memtables a file has the data of, `flushed` which of them
were published.

**`Merge`** runs `MergeIterator` and the loop of `Compactor::compact` one call of
a source at a time, each of which may fail; **`SortedStream`** is what it
promises. **`SSTable`** has the writer, the file as blocks of sized entries, the
index, the Bloom filter as a bit array that goes through a file, the point
lookup and the iterator. **`LRUCache`** is `TableCache` over one shard, each
critical section one step. **`AsyncSink`** has the mutex, the two condition
variables (including the window between testing a predicate and sleeping), the
ring with its indices and the worker's batch in flight. **`HybridClock`** has
`next()` as the read of the wall clock and three steps per round of its loop, with
the widths of the two fields as parameters.

**`RingBufferSink`** is the crash ring: `submit()` claims a slot through its
generation word, stores the payload word by word and publishes it;
`signal_safe_dump()` copies slots word by word and reads the generation again.
The words are loaded relaxed and the second load of the generation is only an
acquire load, so the language and a weakly ordered machine (Apple Silicon is a
platform of the project) may let it take effect before the copy. `DumpWrite` has
that outcome too: although the slot was claimed, the line may be printed, and is
then marked `stale`.
**`Logger`** extends it with the threads that use it: `init()` (`InitBegin`,
`InitRing`, `InitSinks`, `InitHandlers`), `dispatch()` (`Dispatch`, `Snapshot`,
`SubmitNowhere`, `SubmitQueue`, `SubmitRing`, `RingReturns`), the fatal path
(`FatalFlush`, `Dump`, `Abort`), the signal handler (`Fault`, `HandlerEnds`),
`shutdown()` (`Shutdown`, `StopBegin`, `StopJoin`) and the worker. Where `Logger`
meets `AsyncSink` it has only what `AsyncSink` is checked to do: a bounded queue,
delivery in order, delivery by the caller after `stop()`. What may block is in
`stuck`: `Sticks` makes a write never return, to the sinks in front of the ring
(whose mutex then stays taken, for the worker, for callers without `AsyncSink` and
for callers after `stop()` alike), to stderr, or to both, since the console is
stderr. `Passes`, `Flushed`, `Dump` and `HandlerEnds` wait for what is stuck.

**`KeyEncoding`** has
`encode` and `decode` on byte strings; it is the only module with a RECURSIVE
operator and no theorem reaches it.

`MC*` modules give constants and symmetry. The proofs are in `DazzleProofs` and
`DazzleDurabilityProofs`, `VersionSetProofs`, `SSTableProofs`, `LRUCacheProofs`,
`AsyncSinkProofs`, `RingBufferSinkProofs` (with those of `Logger`) and
`HybridClockProofs`.

## 3. Runs that pass

| Run | Checks | Bounds | Distinct states |
|---|---|---|---|
| `engine` | `VersionIsDisk`, `ReadsMatchModel`, `IdsFollowSequences`, `OneWalHoldsRecords`; full-compaction policy, failing WAL syncs and table writes | 2 keys, 2 values, 5 tables, 4 segments, 3 sequences | 4.2 M |
| `faults` | `TypeOK`, `PublishedFilesReadable`, `LsnAboveDurable`; size-tiered policy that merges two files, every fault | 2 keys, 1 value, 4 tables, 3 segments, 3 sequences | 2.3 M |
| `store` | `ImplementsKVStore`, `CallsReturn`; no faults | 2 keys, 2 values, 5 tables, 4 segments, 3 sequences | 278 k |
| `versions` | `PinnedFilesOnDisk`, `PendingIsRetained`, `EditsAddUp`, `ReclaimedOnce`, `NothingLost` | 2 readers, 2 compactors, 1 flusher, 4 ids, 4 versions per process, 2 flushed tables, any number of restarts | 1.3 M |
| `sstable` | `FileDescribesItself`, `GetFindsWhatWasAdded`, `IteratorYieldsInOrder` | 4 keys, entries of 1, 2, 3 and 5 in blocks of 4 | 161 k |
| `merge` | `ImplementsSortedStream` | 3 sources, 2 keys, 3 sequences | 302 k |
| `cache` | `DeletedWhenUnreachable`, `ListsMatchHolders`, `UsageIsCharge`, `InsertEvictsEnough` | 3 threads, 3 ids, capacity 0 or 3, 5 handles | 266 k |
| `async_sink` | `EachRecordOnce`, `FlushCoversAccepted`, `NothingStranded`, `InOrderWhileRunning`, `CallsReturn`, `StopReturns` | 2 threads, 3 records, ring of 2, batches of 2 | 20 k |
| `crash_log` | `OneWriterPerSlot`, `NoTornRecord`, `DumpMissesNothingSettled`, `FatalRecordDumped`, `FatalEnds` | main, a caller and the worker, 3 records (one fatal), 2 slots of 2 words, queue of 1, a caller that may fault, one output that may get stuck | 352 k |
| `cell` | `OrderPreserved`, `RoundTrip`, `TruncationDetected`, `DecodesWhatIsThere`; `StrictlyIncreasing`, `BoundedDrift`, `CallsReturn` | bytes 0, 1, 2, 255, fields up to 2 bytes; 3 threads, 4 calls, wall times 0 to 2, counter modulo 2 | 144 k |

What they show, beyond their one-line descriptions in `PROJECT.json`:

- `engine` and `store`: with the policy that always merges everything, a crash at
  any step is harmless. A replayed record that is already in a table is written
  again with the same sequence, and a half-finished reclamation only brings back
  files that the output hides.
- `VersionIsDisk`: between calls, unless an unlink or the last sync of a table
  failed, the complete tables are exactly those of the current version, so what the next `open()`
  rebuilds from the directory is what was there.
- `OneWalHoldsRecords`: at every step at most one segment has records, so replay
  never puts the records of an older segment on top of newer data.
- `faults`: no I/O error at all can make the engine publish an unreadable table
  or let the LSN fall behind, although several make it return wrong data
  (section 4).
- `NothingStranded`: after the worker's exit the ring is empty, so the loop of
  `stop()` that drains it never finds anything; the re-check of `running_` after
  the wait in `submit()` is what makes this so.
- `StopReturns`: `stop()` changes `running_` and notifies without the mutex, so a
  notification can be lost; the worker's 100 ms timeout is what lets it end.
- `NothingLost`: the output that a refused edit leaves behind, inputs that were
  not unlinked yet and tables that were written but never published all come back
  with a restart, and still nothing published is missing; it depends on `open()`
  taking the next id from the highest name in the directory.
- `NoTornRecord` and `OneWriterPerSlot`: the claim by compare-and-swap and the
  second read of the generation are both needed. `NoTornRecord` speaks of lines
  that are not `stale`: in program order the re-check suffices, and section 4 has
  what happens otherwise.
- `sstable`: an oversized entry in the first place costs the iterator the file
  (section 4), but anywhere else it is harmless, and `get()` finds it in any place.
- `FatalRecordDumped`: whether the record went to the ring directly, through the
  worker or inline after `shutdown()`, the dump shows it if the flush met its
  deadline. `Flushed` must cover the batch in the worker's hands for that. It is
  checked for the default overflow policy, under which a fatal record is never
  dropped.
- `FatalEnds`: if every write returns, the dispatch of a fatal record ends the
  process, whatever `init()`, `shutdown()` and faults do meanwhile. Once the record
  is submitted, it ends also with a stuck console or file, as long as stderr
  accepts writes; the deadline is what makes this so. The rest is in section 4.
- `cell`: an exchange lost to another thread, a wall clock that steps back and a
  counter that wraps around cost at most one tick of the counter per call.

The type invariants `TypeOK` of the other modules hold on these instances too;
only `faults` lists one, since the other runs have stronger things to check.

**Bounds.** Two keys let entries of one table differ and tables overlap partly;
two values tell an old value from a new one. Four or five table ids are enough
for two flushes, a compaction, a crash and a recovery that flushes; three or four
segments for two rotations and a reopening; three sequences for a put, an
overwrite and a delete. In `faults` a value is ten times the size of a tombstone,
so that the tiered policy makes two buckets and leaves files alone. In
`async_sink` the last of the three records finds the ring full and the indices
wrap; the safety properties were also checked with two and three records of two
threads (338 k states), without liveness. In `versions`, two flushes fill two
tables, and the four ids leave two for racing compactions or for reuse after a
restart. In `crash_log`, three records in two slots make writers lap each other;
the fatal record comes second of its thread, behind a record that may fill the
queue; the process may end in any state, and so does the model. One thread may fault, the caller, anywhere in its calls; the
safety properties were checked with faults of the main thread and of the worker
too (10 M and 1.3 M states). In `cell`, a
counter modulo 2 wraps within two calls. Keys and timestamps know nothing of each
other, so a behaviour of `MCCell` encodes one key or draws timestamps. In
`sstable`, the size 5 is that of an entry larger than a block. The
ids end, so the engine models stop eventually: these configurations turn the
deadlock check off, and `CallsReturn` shows separately that no call hangs. The
SSTable model stops when its writer failed.
An `open()` starts only when the ids its calls need are left (`Room`).

**Fairness.** `store` assumes weak fairness of the steps of a running call, which
is the scheduling of one thread, and none of the client's calls or of crashes.
`async_sink` assumes weak fairness of steps a thread takes by itself, and
strong fairness of taking the mutex: with weak fairness a thread could lose every
race for it, which no lock implementation in use allows for ever. Threads need
not submit, flush or stop at all. `crash_log` assumes weak fairness of the steps
of a thread that is inside `dispatch()` and of the worker, none of callers,
faults and the main thread; a step that waits for a stuck output is not enabled,
so fairness does not help it. `cell`
assumes weak fairness of a thread inside `next()` and strong fairness of a
successful exchange: `compare_exchange_weak` may fail for no reason, but not
always.

## 4. Where code and documents disagree

Two runs each check a statement of the test plan and find a behaviour of the code
that contradicts it; `findings` quotes the lines.

- `default_policy` (`TESTS_TODO.md:405`): the default size-tiered policy merges
  files around a larger, newer one; the output has the highest id and hides it,
  and `get` returns an old value. Within `MaxWal = 3` TLC gets the
  files it takes from two crashes in compactions, whose outputs stay: files 1 to 4
  are merged into 6, which hides 5.
- `oversize_entry` (`TESTS_TODO.md:193`): before a first entry that is larger than a
  block, the writer flushes the empty buffer and gives an empty block an entry in
  the index (`sstable_writer.cpp:34`). The iterator takes it for the end of the
  file, without an error (`sstable_iterator.cpp:86-89`), and a compaction loses the
  file. `IteratorYieldsWhatWasAdded` is the unconditional statement;
  `FileDescribesItself` and `IteratorYieldsInOrder`, which `sstable` checks on the
  same instance, say what is left of it.

Three more are contradicted after a small change of a configuration:

| Change | What happens |
|---|---|
| `OpenSucceeds` as the invariant of `MCDazzle_engine.cfg` | a crash while a table is written leaves a file without a footer, for which `open()` fails from then on (`dazzle_engine.cpp:137`; `TESTS_TODO.md:334`) |
| `TornRecordsDropped` as an invariant of `MCLogger.cfg` | `signal_safe_dump()` prints halves of two records when its second load of the generation takes effect before the relaxed loads of the copy, which an acquire load does not prevent; the comment at `log_sinks.cpp:216-217` says that they are dropped (a fence before the load, and one behind the claim in `submit()`, would do it) |
| `FatalAlwaysEnds` as the property of `MCLogger.cfg` | the comment at `log.cpp:153-157` says that dump and `abort()` "must happen either way", but only `flush()` is under the deadline. The `submit()` of the fatal record comes before it, and waits for space in a queue whose worker never drains, or for the mutex of a console or file sink that a stuck thread holds, directly without `AsyncSink` and after `stop()`; and the dump itself writes to stderr (`log_sinks.cpp:189, 220`) |

The following were met on the way. Those of the first table are reproduced by
giving `Faults` in `MCDazzle_engine.cfg` the one name (with `MaxSst = 6` or `7`,
`MaxLsn = 4`): `ReadsMatchModel` then fails. Together with `engine` they say
exactly which I/O errors the engine survives.

| `Faults` | What happens |
|---|---|
| `append` | the torn record of a failed `put()` ends replay before later acknowledged writes (`dazzle_engine.cpp:233`) |
| `wal_create` | `next_wal_seq_` was advanced, so the next flush removes the wrong segment; the old one is replayed over newer data (`:392`) |
| `wal_remove` | `fs::remove` throws although the comment above it says that a failure is not fatal; the segment is never tried again (`:414`) |
| `wal_read` | a read error in replay counts as the end of the segment, which is then removed; the comment of `recover()` promises an error (`:484`) |
| `sst_read` | `Compactor::compact` does not ask the merge for `status()` and replaces the inputs by what it read (`compaction.cpp:94`) |
| `unlink` | an input that stayed is published by the next `open()`, after its tombstone was dropped (`:275`) |
| `sst_sync` | the same for a complete output whose sync failed (`sstable_writer.cpp:175`) |

Seen in the code, without a run: once ids do not follow age, `can_drop_tombstones`
(which goes by position among the ids) can drop a tombstone that is still needed;
a flush that mints its id between a compaction's pick and mint inverts ids and
age too, as soon as the two run concurrently, and so does the output of a refused
edit once a restart publishes it (`NothingLost` says that both tables are there,
not which one `get` finds first; the engine has no compaction thread today); compacting a table without entries
asks for a Bloom filter of no keys (`bloom_filter.cpp:14`), which `Dazzle` models
as an abort or a rejected file; after all tombstones were dropped, reopening
starts from an old sequence, although none that is still on disk
(`LsnAboveDurable`); the first flush after `open()` reopens the active segment
instead of rotating; `SSTableIterator::next` on an exhausted iterator reads behind
the index (`sstable_iterator.cpp:71`; no caller does this).

## 5. Properties can fail

Every property of a passing run has a mutant: a definition that models code is
replaced by what a plausible bug would make of it (a dropped guard, a missing
reset, a swapped order), and TLC then finds the property violated under the same
configuration. The mutants stand beside the definitions they replace.

## 6. What is proved

TLAPS checks the proofs for every set of keys and values, every policy and size
function, every set of faults, every number of threads, slots, words and calls,
every width of the clock's fields, every capacity, block size, filter and pair of
hash functions, and every bound. The
assumptions are those stated in the modules: bounds and thresholds are natural
numbers, keys are natural numbers (encoded keys have an order), an entry has a
positive size, `Faults` names known calls, sequence numbers stay below
`kSlotFree`, the clock is not within reach of the end of its 48 bits, and `none`
and `nullopt` are not values of another
kind. TLC evaluates them in each run. The theorems of `DazzleDurabilityProofs` have
a hypothesis besides, `Survivable` or `Dependable`, which are explained below.

| Theorem | States |
|---|---|
| `DazzleProofs!TypeCorrect` | `Spec => []TypeOK` |
| `DazzleProofs!LiveFilesReadable` | `Spec => []PublishedFilesReadable` |
| `DazzleProofs!RecoveredLsn` | `Spec => []LsnAboveDurable` |
| `DazzleDurabilityProofs!ReadsLastWrite` | `Survivable` gives `Spec => []ReadsMatchModel` |
| `DazzleDurabilityProofs!NoOrphanNoLoss` | `Survivable` gives `Spec => []VersionIsDisk` |
| `DazzleDurabilityProofs!IdsAgreeWithSequences` | `Survivable` gives `Spec => []IdsFollowSequences` |
| `DazzleDurabilityProofs!RecordsInOneSegment` | `Survivable` gives `Spec => []OneWalHoldsRecords` |
| `DazzleDurabilityProofs!EngineImplementsKVStore` | `Dependable` gives `Spec => ImplementsKVStore` |
| `VersionSetProofs!TypeCorrect` | `Spec => []TypeOK` |
| `VersionSetProofs!NoReadOfUnlinkedFile` | `Spec => []PinnedFilesOnDisk` |
| `VersionSetProofs!NoDoubleReclaim` | `Spec => []ReclaimedOnce` |
| `VersionSetProofs!PendingHasAReason` | `Spec => []PendingIsRetained` |
| `VersionSetProofs!CompactionsSerialise` | `Spec => []EditsAddUp` |
| `VersionSetProofs!FlushedDataKept` | `Spec => []NothingLost` |
| `HybridClockProofs!Increasing` | `Spec => StrictlyIncreasing` |
| `HybridClockProofs!Drift` | `Spec => []BoundedDrift` |
| `RingBufferSinkProofs!RingSafe` | `RingSpec => [](OneWriterPerSlot /\ NoTornRecord)` |
| `RingBufferSinkProofs!LoggerImplementsRing` | `Spec => RingSpec` |
| `RingBufferSinkProofs!LoggerDumpsWhole` | `Spec => []NoTornRecord` |
| `RingBufferSinkProofs!LoggerOneWriter` | `Spec => []OneWriterPerSlot` |
| `RingBufferSinkProofs!DumpComplete` | `RingSpec => []DumpMissesNothingSettled` |
| `RingBufferSinkProofs!LoggerDumpsSettled` | `Spec => []DumpMissesNothingSettled` |
| `RingBufferSinkProofs!FatalRecordReachesDump` | `Spec => []FatalRecordDumped` |
| `AsyncSinkProofs!SinkTypeCorrect` | `Spec => []TypeOK` |
| `AsyncSinkProofs!SinkKeepsEachRecord` | `Spec => []EachRecordOnce` |
| `AsyncSinkProofs!FlushCovers` | `Spec => []FlushCoversAccepted` |
| `AsyncSinkProofs!WorkerStrandsNothing` | `Spec => []NothingStranded` |
| `AsyncSinkProofs!DeliveryInOrder` | `Spec => []InOrderWhileRunning` |
| `LRUCacheProofs!CacheTypeCorrect` | `Spec => []TypeOK` |
| `LRUCacheProofs!ReaderLifetime` | `Spec => []DeletedWhenUnreachable` |
| `LRUCacheProofs!ListsAgree` | `Spec => []ListsMatchHolders` |
| `LRUCacheProofs!UsageExact` | `Spec => []UsageIsCharge` |
| `LRUCacheProofs!EvictionSuffices` | `Spec => InsertEvictsEnough` |
| `SSTableProofs!TableTypeCorrect` | `Spec => []TypeOK` |
| `SSTableProofs!GetIsRight` | `Spec => []GetFindsWhatWasAdded` |
| `SSTableProofs!FileSelfDescribing` | `Spec => []FileDescribesItself` |
| `SSTableProofs!IteratorInOrder` | `Spec => []IteratorYieldsInOrder` |

**The engine.** None of the three properties is inductive. That a published file
is complete needs to know that the file being written is not a published one,
so that ids on disk are all below `next_sst` (`Files`, `Output`), and that the
ids `reclaim()` still has in hand left the version when the task was installed
(`Inputs`). The LSN is only above everything durable between calls: while
`recover()` runs it may be below what the segments hold, so the invariant
(`Sequenced`) says of each sequence that it is below the LSN, or not above the
highest one replayed, or in a segment that is still to be replayed; and for that
it needs that all records are in old segments during recovery and that the
writer's segment is not among them (`Segments`). `Callers` and `Budget` tie the
variables of a call to the place it has reached. `IInv` is the conjunction.
The first part of `DazzleProofs` has the lemmas about tables, merges and logs, one
lemma per action, and the theorems.

**Reads and durability.** The run `default_policy` and the table of faults in
section 4 show that the engine does not always return the last write. `Survivable`
is the condition under which it does, and nothing in it can be dropped:

- I/O calls may fail only where `put()` and `flush()` clean up: the sync of the log
  and the writing of a table. Section 4 has a counterexample for every other fault.
- The policy takes no file or every live file, as `FullCompactionPolicy` does. With
  the default policy the output of a merge hides a newer file that was left out.
- A memtable with an entry has a positive size, which is so because no encoded key
  is empty. Otherwise recovery would skip its flush and remove the segments.

Crashes are not restricted: the process may die at any step, of recovery too. The
argument is one order on the versions of a key. Going up in file id, then to the
memtable, then to the last record in the log, entries only get newer or are the
same entry again (`DiskOrdered`, `MemtableOrdered`). Therefore the newest id and the
highest sequence choose the same entry, in a read as in a merge, and replaying
records that are already in a file changes nothing (`Replayed`). What a client may
rely on is on disk at every step: the last record of a key is its value and, where
there is none, the newest file has it (`Durable`). For these, the readable files must be
the version's but for one task in progress (`OnDisk`), whose output has the newest id and stands for
all it replaces (`TaskOutput`); and one segment holds records, in ascending
sequence, torn only at its end (`LogShape`, `WriterLast`). `DInv` is the conjunction,
inductive together with `IInv`; TLC found no violation of it on the instance of
`engine` either. The second part of `DazzleProofs` has the invariant, the lemmas about
lookups and logs and the steps of `put()`, `flush()` and crashes;
`DazzleDurabilityProofs` has the rest.

The refinement of `KVStore` follows from it: under `IInv` and `DInv` the durable map
is `kv` (`ViewIsHistory`), which only the append of `put()` and `remove()` changes, at
its own key (`HistoryStep`). `Dependable` excludes a failing sync as well. The record of
a `put()` that failed there is in the log but not in the memtable, so the next flush drops it with the segment,
and the durable map changes back without a call. `ReadsMatchModel` allows
this (`unsure`), a map that only writes change does not.

**The version set.** A pinned version is retained, and the files of every
retained version exist and are in nobody's list to unlink (`Retained`,
`RetainedFiles`). `purge_obsolete_files` keeps this because an id leaves the
pending set only when no retained version names it (`Obsolete`), and a minted id
is unknown to all versions, lists and edits until its owner applies it
(`FreshIds`, `Minted`). That accepted edits add up needs, besides, that an id
consumed by an edit is never current again (`ConsumedOnce`), which is what the
check for stale edits in `apply` establishes. That nothing is lost (`Content`)
needs that the output of a compaction has the data of its inputs when it replaces
them: the inputs are no other thread's output, so nobody rewrites them meanwhile.
A restart keeps all of this because the files of the current version are on disk
and the next id is above every file.

**The clock.** `lastReturned_` is the highest timestamp returned, so an exchange
that succeeds against `prev` returns something higher. The bound on the drift
counts calls: every exchange raises `lastReturned_` to the wall time and counter of
its call or by one.

**The ring.** A slot whose generation carries the flag has one owner, the writer
whose sequence number it is (`Owns`, `Numbered`, `Stamped`); words up to `next` are
that writer's (`Filling`). A published slot is full of one record (`Filled`). A
dump that has read a generation holds words of that record as long as the
generation is still the same (`Copying`): generations are sequence numbers, which
are never used again, so a slot that changed shows it. This is the argument for a
second load that takes effect after the copy; `NoTornRecord` claims nothing of a
`stale` line, and the completeness of a dump, below, does not depend on such lines. The logger is shown to implement `RingSpec` step by step, with the
invariant that a thread starts a `submit()` or a dump only when it has ended the one
before (`Logged`), and inherits what holds of the ring.

That a dump misses nothing settled (`DumpInv`) needs both what is ahead of the dump
and what is behind it. A slot that still has a generation settled when the dump
began is among those it will read, or was printed (`Settling`, `Comes`), and a line
printed for a generation has the record of that generation as long as the slot
keeps it (`Showing`). Nobody can publish under a settled or printed generation
again, since writers have higher numbers.

A fatal record's way to the dump (`FatalInv`) is followed across threads. A record
that was handed over is in the queue, in the worker's batch or through, in one of
the three only (`Apart`), and before that in the hands of its thread alone
(`Handing`). So a flush that found queue and batch empty left the record through,
and what the ring has of it is settled when the dump begins (`FatalPath`,
`SettledFor`). The theorem covers `shutdown()` between any two of these steps.

**The asynchronous sink.** What was accepted is one sequence (`OnItsWay`): the
records delivered, then the worker's batch, then the ring from `head_` on. `submit()`
appends to it, `worker_loop` moves the two borders, and only an inline delivery,
which happens after `stop()` began, inserts at the first border. The properties are
statements about this sequence: no record twice in it and none missing
(`EachRecordOnce`), what a flush owes is in it (`Owing`), those of a thread ascend
while the sink runs (`InOrder`). The ring behaves as a queue because `tail_` is
`size_` places behind `head_` (`RingShape`), which includes wrapping around. That
`Stranding` is inductive depends on `submit()` testing `running_` again after its
wait. `SinkInv` is the conjunction.

**The cache.** One predicate on a cache object, the pins of its handles, their keys
and the next handle (`Sound`) is what each operation keeps. The reference count of a
handle is its pins, and one more while it is cached (`Counted`); the deleter ran once
for a handle that has neither (`Freed`); the lists follow the pins (`Listed`); the
table and `in_cache` are inverse to each other (`Indexed`); the charge is a sum over a
finite set, which changes by one entry at a time (`Charged`). Between the two halves
of `insert()` and of `erase()` all but `Indexed` holds (`Kept`). The loops of
`insert()` and `prune()` are a recursive function of the number of rounds, and that
n rounds keep `Sound` and take n entries off `lru_` is proved by induction on n.
`CacheInv` adds that a thread that looks something up holds nothing, and that a
cache of capacity 0 stays empty.

**The file.** The argument is one map of the file: `st[i]` is where entry i starts,
counting the block in the buffer as if it were written, and `fb[b]` is the first
entry of block b (`Placed`, `Indexed`, together `Laid`). Both exist for every
state, and grow only at their ends; a torn write changes bytes behind
`current_file_offset_` only. `get()` is right because the index search ends at the
block whose entries enclose the key (`SearchEndsAtBlock`) and the scan visits the
places of the map (`ScanFinds`), and because the filter has the same number of bits
before and after it is stored (`FilterRoundTrip`). The iterator always stands at a
place of the map (`Cursor`). `FileInv` is the conjunction.

`get()` needs no condition on sizes. That the first entry is not larger than a
block (`FirstFits`) is a condition inside the other two properties: of the first
block being non-empty, and of the iterator ending only after the last entry.
Section 4 has the counterexample. An oversized entry anywhere else is harmless,
which is what the disjunction in `BlockOf` shows. TLC checked `FileInv`, with
entries larger than a block among the sizes, before the proof was begun.

**Induction.** The library's induction rules cannot be used here, as they take a
predicate as a parameter. Where a loop or a recursive function needs induction, it is
done on a set instead: a set of numbers that has 0 and with n also n + 1 has
everything up to a bound (`UpTo`), since its complement would have a least element,
the natural numbers being well-founded. That a recursive function satisfies its
equation is proved in the same way.

**Only model-checked.** Liveness (`CallsReturn` of the engine, the sink and the
clock, `StopReturns`, `FatalEnds`), which TLAPS does not handle. The refinement of
`SortedStream` by `Merge`: the stream is given by sorting and filtering
(`SetToSortSeq`, `SelectSeq`), which the provers know nothing about. The four properties of
`KeyEncoding`, whose operators are RECURSIVE. That `FullPick` and the sizes of
`MCDazzle` satisfy `Survivable`, by inspection: their modules use folds that TLAPS has
no theorems about. And that the hash functions, checksums and byte codecs do what the
models assume of them.

## 7. Abstractions to keep in mind

- Keys and values are atoms, sizes are numbers, a record or file is whole or
  torn. Checksums are assumed to tell the two apart.
- A crash kills the process, not the machine: what was written but not synced
  survives. Missing directory syncs are therefore not visible.
- `Dazzle` has one client, as the engine takes no lock around its memtable;
  concurrency is in `VersionSet`, `LRUCache`, `HybridClock` and the logger. In
  `VersionSet` a table is written in one step; torn tables are in `Dazzle`.
- `RingBufferSink` is sequentially consistent but for the second load of the
  generation in a dump, which may return the old value although the slot was
  claimed. What such a line then holds is what the words held at their own steps;
  other orders of the relaxed accesses would fill it differently, and nothing is
  claimed of it. The first load of the generation pairs with the writer's release.
- `Logger` has the default overflow policy (a fatal record waits for space, one
  below `Warn` is dropped); with `DropNewest` a fatal record could be
  dropped, and `FatalRecordDumped` would not hold. A fault inside a dump is left out.
  One write sticks, and with it every later one to the same descriptor.
- `CallsReturn` of `async_sink` holds for a finite number of records. With threads
  that submit for ever, `flush()` could starve: it waits for an empty queue.
- `NothingLost` says which data the files of the current version have, not which
  of two files `get()` looks at first.
- A read of a block returns all of it or fails; a short read, which the iterator
  does not notice, is not modelled.
- A read error of `get()` is returned to the caller and changes nothing, so it
  has no action.
- After `stop()` a record delivered inline may overtake queued ones of its own
  thread; `InOrderWhileRunning` claims order only while the sink runs.

## 8. What could come next

- `TableCache` composed with reclamation: a reader that is cached after its file
  was evicted.
- A proof that `Merge` implements `SortedStream`, with the stream described by
  where each entry stands in it instead of by sorting and filtering.
- Concurrent compaction in the engine, once it has a thread for it: the order of
  ids and age then needs the mint before the pick.
