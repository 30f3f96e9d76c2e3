----------------------------- MODULE VersionSet -----------------------------
(***************************************************************************)
(* VersionSet and the threads that share it: readers that pin a version    *)
(* with a shared_ptr, compactors that merge files of a snapshot they no    *)
(* longer pin, and the thread that flushes.  Each critical section of mu_  *)
(* and each system call is one step.                                       *)
(*                                                                         *)
(* A Version object is known by its number, in publication order.  Its     *)
(* use_count() is 1 for being in live_versions_, plus 1 for being current, *)
(* plus 1 for every thread that pins it.                                   *)
(*                                                                         *)
(* The process may die at any step; open() then publishes what is in the   *)
(* directory, what a refused compaction left there included.  A file is    *)
(* written in one step: what open() makes of half a file is in Dazzle.     *)
(***************************************************************************)
EXTENDS Integers, FiniteSets

CONSTANTS
    Reader, Compactor, Flusher,  \* threads
    Candidates(_),               \* the input sets the policy may pick
    MaxId,                       \* bound: SSTable ids minted
    MaxVersion,                  \* bound: versions a process publishes
    MaxFlush,                    \* bound: tables flushed
    none                         \* no version pinned

Thread == Reader \cup Compactor \cup Flusher
SstId == 1..MaxId
Number == 0..MaxVersion
Batch == 1..MaxFlush

ASSUME ThreadAssumption ==
    /\ Reader \cap Compactor = {} /\ Reader \cap Flusher = {}
    /\ Compactor \cap Flusher = {}
ASSUME BoundAssumption ==
    MaxId \in Nat /\ MaxVersion \in Nat /\ MaxFlush \in Nat
ASSUME NoneAssumption == none \notin Number
ASSUME CandidatesAssumption ==
    \A S \in SUBSET SstId : Candidates(S) \subseteq SUBSET S

VARIABLES
    files,    \* [Number -> SUBSET SstId]: the files of each Version
    current,  \* current_version_
    live,     \* live_versions_
    pending,  \* pending_obsolete_ids_
    next_id,  \* next_sst_seq_
    disk,     \* the SSTable files that exist
    pc,       \* [Thread -> where the thread is]
    pin,      \* [Thread -> the version it holds a shared_ptr to]
    inputs,   \* [Thread -> task.inputs, edit.removed]
    out,      \* [Thread -> the id it minted]
    todo,     \* [Thread -> ids reclaim() has left to unlink]
    holds,    \* [SstId -> the flushed memtables whose data the file has]
    edits,    \* history: the files open() found, the edits apply() accepted
    written,  \* history: how many memtables were written
    flushed   \* history: the memtables whose table was published

data == <<holds, written, flushed>>
vars == <<files, current, live, pending, next_id, disk,
          pc, pin, inputs, out, todo, edits, data>>

PC == {"idle", "reading", "picking", "picked", "opening", "writing",
       "applying", "reclaiming"}

Edit == [removed : SUBSET SstId, added : SstId]

TypeOK ==
    /\ files \in [Number -> SUBSET SstId]
    /\ current \in Number
    /\ live \subseteq Number
    /\ pending \subseteq SstId
    /\ next_id \in 1..MaxId + 1
    /\ disk \subseteq SstId
    /\ pc \in [Thread -> PC]
    /\ pin \in [Thread -> Number \cup {none}]
    /\ inputs \in [Thread -> SUBSET SstId]
    /\ out \in [Thread -> 0..MaxId]
    /\ todo \in [Thread -> SUBSET SstId]
    /\ edits \subseteq Edit
    /\ holds \in [SstId -> SUBSET Batch]
    /\ written \in 0..MaxFlush /\ flushed \subseteq Batch

\* A fresh directory: the bootstrap version is current, live and empty.
Init ==
    /\ files = [v \in Number |-> {}]
    /\ current = 0 /\ live = {0} /\ pending = {}
    /\ next_id = 1 /\ disk = {}
    /\ pc = [t \in Thread |-> "idle"]
    /\ pin = [t \in Thread |-> none]
    /\ inputs = [t \in Thread |-> {}]
    /\ out = [t \in Thread |-> 0]
    /\ todo = [t \in Thread |-> {}]
    /\ edits = {}
    /\ holds = [i \in SstId |-> {}] /\ written = 0 /\ flushed = {}

-----------------------------------------------------------------------------
\* get_current: a shared_ptr to the current version, copied under mu_.
GetCurrent(t, then) ==
    /\ pc[t] = "idle"
    /\ pin' = [pin EXCEPT ![t] = current]
    /\ pc' = [pc EXCEPT ![t] = then]
    /\ UNCHANGED <<files, current, live, pending, next_id, disk, inputs, out,
                   todo, edits, data>>

\* Dazzle::get looks up in the version it pinned, then drops it.
BeginRead(r) == r \in Reader /\ GetCurrent(r, "reading")

EndRead(r) ==
    /\ pc[r] = "reading"
    /\ pin' = [pin EXCEPT ![r] = none]
    /\ pc' = [pc EXCEPT ![r] = "idle"]
    /\ UNCHANGED <<files, current, live, pending, next_id, disk, inputs, out,
                   todo, edits, data>>

\* sst_meta_to_vector pins the version only while it copies the metas.
BeginPick(c) == c \in Compactor /\ GetCurrent(c, "picking")

EndPick(c) ==
    /\ pc[c] = "picking"
    /\ pin' = [pin EXCEPT ![c] = none]
    /\ \/ /\ pc' = [pc EXCEPT ![c] = "idle"]
          /\ UNCHANGED inputs
       \/ \E S \in Candidates(files[pin[c]]) \ {{}} :
             /\ inputs' = [inputs EXCEPT ![c] = S]
             /\ pc' = [pc EXCEPT ![c] = "picked"]
    /\ UNCHANGED <<files, current, live, pending, next_id, disk, out, todo,
                   edits, data>>

\* mint_sst_id, for a compaction task or for a flush.
MintId(t, then) ==
    /\ next_id <= MaxId
    /\ out' = [out EXCEPT ![t] = next_id]
    /\ next_id' = next_id + 1
    /\ pc' = [pc EXCEPT ![t] = then]
    /\ UNCHANGED <<files, current, live, pending, disk, pin, inputs, todo,
                   edits, data>>

MintOutput(c) ==
    /\ pc[c] = "picked"
    /\ MintId(c, "opening")

MintFlush(f) == f \in Flusher /\ pc[f] = "idle" /\ MintId(f, "writing")

\* compact opens every input through the table cache.  A file that was
\* unlinked meanwhile may still be cached; if not, the task fails.
OpenInputs(c) ==
    /\ pc[c] = "opening"
    /\ pc' = [pc EXCEPT ![c] = "writing"]
    /\ UNCHANGED <<files, current, live, pending, next_id, disk, pin, inputs,
                   out, todo, edits, data>>

OpenInputsFails(c) ==
    /\ pc[c] = "opening"
    /\ ~(inputs[c] \subseteq disk)
    /\ pc' = [pc EXCEPT ![c] = "idle"]
    /\ inputs' = [inputs EXCEPT ![c] = {}]
    /\ out' = [out EXCEPT ![c] = 0]
    /\ UNCHANGED <<files, current, live, pending, next_id, disk, pin, todo,
                   edits, data>>

\* What a compaction writes: the data of its inputs, cached or not.
Merged(t) == UNION {holds[i] : i \in inputs[t]}

\* The output file is written, finished and synced.
WriteFile(t) ==
    /\ pc[t] = "writing"
    /\ \/ /\ t \in Flusher /\ written < MaxFlush
          /\ written' = written + 1
          /\ holds' = [holds EXCEPT ![out[t]] = {written + 1}]
       \/ /\ t \notin Flusher
          /\ holds' = [holds EXCEPT ![out[t]] = Merged(t)]
          /\ UNCHANGED written
    /\ disk' = disk \cup {out[t]}
    /\ pc' = [pc EXCEPT ![t] = "applying"]
    /\ UNCHANGED <<files, current, live, pending, next_id, pin, inputs, out,
                   todo, edits, flushed>>

-----------------------------------------------------------------------------
\* Mutant of IsStale: apply accepts every edit.
NeverStale(t) == FALSE

\* apply refuses an edit when a file it removes is no longer current.
IsStale(t) == ~(inputs[t] \subseteq files[current])

\* The loser of a race returns nullopt; its output stays where it is.
ApplyStale(t) ==
    /\ pc[t] = "applying"
    /\ IsStale(t)
    /\ pc' = [pc EXCEPT ![t] = "idle"]
    /\ inputs' = [inputs EXCEPT ![t] = {}]
    /\ out' = [out EXCEPT ![t] = 0]
    /\ UNCHANGED <<files, current, live, pending, next_id, disk, pin, todo,
                   edits, data>>

\* Mutant of Survivors: the pins are not counted.
OnlyCurrentSurvives(v) == {v}

\* remove_if use_count() == 1, after version v became current.
Survivors(v) == {u \in live : \E s \in Thread : pin[s] = u} \cup {v}

\* Mutant of NextFiles: edit.removed is not erased.
NextFilesKeepInputs(t) == files[current] \cup {out[t]}

\* The files of the next version.
NextFiles(t) == (files[current] \ inputs[t]) \cup {out[t]}

\* purge_obsolete_files keeps the ids a retained version names.
StillPending(obsolete, live_ids) == obsolete \cap live_ids

\* Mutant of Reclaimable: ids that stay pending are handed back as well.
ReclaimAll(obsolete, live_ids) == obsolete

\* It hands the others back to the caller.
Reclaimable(obsolete, live_ids) == obsolete \ live_ids

\* apply, append_version and purge_obsolete_files, in one critical section.
Apply(t) ==
    /\ pc[t] = "applying"
    /\ ~IsStale(t)
    /\ current < MaxVersion
    /\ LET v == current + 1
           obsolete == pending \cup inputs[t]
       IN  /\ files' = [files EXCEPT ![v] = NextFiles(t)]
           /\ current' = v
           /\ live' = Survivors(v)
           /\ LET live_ids == UNION {files'[u] : u \in live'}
              IN  /\ pending' = StillPending(obsolete, live_ids)
                  /\ todo' =
                         [todo EXCEPT ![t] = Reclaimable(obsolete, live_ids)]
    /\ edits' = edits \cup {[removed |-> inputs[t], added |-> out[t]]}
    /\ flushed' = flushed \cup holds[out[t]]
    /\ pc' = [pc EXCEPT ![t] = "reclaiming"]
    /\ inputs' = [inputs EXCEPT ![t] = {}]
    /\ out' = [out EXCEPT ![t] = 0]
    /\ UNCHANGED <<next_id, disk, pin, holds, written>>

\* reclaim: unlink what apply handed back, in ascending order, outside mu_.
Unlink(t) ==
    /\ pc[t] = "reclaiming"
    /\ \E i \in todo[t] :
           /\ \A j \in todo[t] : i <= j
           /\ disk' = disk \ {i}
           /\ todo' = [todo EXCEPT ![t] = todo[t] \ {i}]
    /\ UNCHANGED <<files, current, live, pending, next_id, pc, pin, inputs,
                   out, edits, data>>

EndReclaim(t) ==
    /\ pc[t] = "reclaiming" /\ todo[t] = {}
    /\ pc' = [pc EXCEPT ![t] = "idle"]
    /\ UNCHANGED <<files, current, live, pending, next_id, disk, pin, inputs,
                   out, todo, edits, data>>

-----------------------------------------------------------------------------
\* Mutant of Highest: open() counts the files.
CountOnDisk(h) == h = Cardinality(disk)

\* highest_sst_seq, from the names in the directory.
Highest(h) == h \in disk \cup {0} /\ \A i \in disk : i <= h

\* The process dies and open() makes the directory the bootstrap version.
Restart ==
    /\ \E h \in 0..MaxId : Highest(h) /\ next_id' = h + 1
    /\ files' = [v \in Number |-> IF v = 0 THEN disk ELSE {}]
    /\ current' = 0 /\ live' = {0} /\ pending' = {}
    /\ pc' = [t \in Thread |-> "idle"]
    /\ pin' = [t \in Thread |-> none]
    /\ inputs' = [t \in Thread |-> {}]
    /\ out' = [t \in Thread |-> 0]
    /\ todo' = [t \in Thread |-> {}]
    /\ edits' = {[removed |-> {}, added |-> i] : i \in disk}
    /\ UNCHANGED <<disk, data>>

-----------------------------------------------------------------------------
Next ==
    \/ Restart
    \/ \E t \in Thread :
        \/ BeginRead(t) \/ EndRead(t)
        \/ BeginPick(t) \/ EndPick(t) \/ MintOutput(t)
        \/ OpenInputs(t) \/ OpenInputsFails(t)
        \/ MintFlush(t) \/ WriteFile(t)
        \/ Apply(t) \/ ApplyStale(t)
        \/ Unlink(t) \/ EndReclaim(t)

Spec == Init /\ [][Next]_vars

-----------------------------------------------------------------------------
(***************************************************************************)
(* Properties.                                                             *)
(***************************************************************************)

\* Whatever a reader pinned, and whatever is current, can still be opened:
\* reclaim() never unlinks a file under a version someone may look at.
PinnedFilesOnDisk ==
    /\ files[current] \subseteq disk
    /\ \A t \in Thread : pin[t] # none => files[pin[t]] \subseteq disk

\* apply() hands an id to one caller, once, and no longer holds it itself:
\* every unlink finds its file.
ReclaimedOnce ==
    \A t \in Thread :
        /\ todo[t] \subseteq disk \ pending
        /\ \A s \in Thread \ {t} : todo[s] \cap todo[t] = {}

\* A file waits in pending_obsolete_ids_ only while a version older than the
\* current one is retained that names it.
PendingIsRetained ==
    pending \subseteq
        (UNION {files[u] : u \in live \ {current}}) \ files[current]

\* No file is consumed by two accepted compactions, and the current version
\* is what open() found and the accepted edits added less what they removed:
\* a lost race loses no edit and duplicates no data.
EditsAddUp ==
    /\ \A d, e \in edits : d # e => d.removed \cap e.removed = {}
    /\ \A i \in SstId : i \in files[current] <=>
           /\ \E e \in edits : i = e.added
           /\ \A e \in edits : i \notin e.removed

\* Every memtable whose flush() was published is in a file of the current
\* version: no race of compactions, no refused edit and no death between
\* write, apply() and unlink loses a table, and open() reuses no id.
NothingLost ==
    \A b \in flushed : \E i \in files[current] : b \in holds[i]

=============================================================================
