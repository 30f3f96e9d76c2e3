-------------------------- MODULE VersionSetProofs --------------------------
(***************************************************************************)
(* Proofs about VersionSet, for any number of readers, compactors and      *)
(* flushing threads, any compaction policy and any number of files.        *)
(*                                                                         *)
(* The five safety properties are not inductive on their own.  They rest   *)
(* on where an id can be: minted and not yet written, written and not yet  *)
(* published, named by a retained version, obsolete but retained, or       *)
(* handed to one thread for unlinking; never in two of the last three.     *)
(* That no data is lost needs in addition that a file a compaction reads   *)
(* is not rewritten before the compaction is applied.                      *)
(***************************************************************************)
EXTENDS VersionSet, TLAPS

\* Steps without a prover of their own get more than the default time.
USE SMTT(30)

\* What is pinned is retained; version numbers above current are unused.
Retained ==
    /\ current \in live
    /\ \A t \in Thread : pin[t] # none => pin[t] \in live
    /\ \A u \in live : u <= current

\* The files of a retained version exist, and no thread may unlink them.
RetainedFiles ==
    \A u \in live :
        /\ files[u] \subseteq disk
        /\ \A t \in Thread : todo[t] \cap files[u] = {}

\* An obsolete id is named by a retained version, never by the current one.
Obsolete ==
    /\ \A i \in pending : \E u \in live : i \in files[u]
    /\ pending \cap files[current] = {}

\* Ids in use were minted.
Minted ==
    /\ \A i \in disk : i < next_id
    /\ \A e \in edits : e.added < next_id /\ \A i \in e.removed : i < next_id
    /\ \A t \in Thread : \A i \in inputs[t] : i < next_id

\* The id a thread minted is its own until apply() publishes it.
HoldsId(t) == pc[t] \in {"opening", "writing", "applying"}

OwnId(t) ==
    /\ out[t] \in SstId
    /\ out[t] < next_id
    /\ \A s \in Thread \ {t} : HoldsId(s) => out[s] # out[t]
    /\ \A s \in Thread : out[t] \notin todo[s] /\ out[t] \notin inputs[s]
    /\ \A u \in live : out[t] \notin files[u]
    /\ \A e \in edits : out[t] # e.added /\ out[t] \notin e.removed
    /\ pc[t] = "applying" => out[t] \in disk

FreshIds == \A t \in Thread : HoldsId(t) => OwnId(t)

\* Each thread's locals match its place in the code.
Locals ==
    \A t \in Thread :
        /\ pc[t] = "picked" => inputs[t] # {}
        /\ pc[t] = "picking" => pin[t] # none
        /\ pc[t] # "reclaiming" => todo[t] = {}
        /\ pc[t] = "picking" \/ inputs[t] # {} => t \notin Flusher

\* An id consumed by an accepted edit is not current again.
ConsumedOnce ==
    /\ EditsAddUp
    /\ \A e \in edits : e.removed \cap files[current] = {}

\* What is about to replace its inputs has their data.
Content ==
    /\ NothingLost
    /\ \A t \in Thread :
           pc[t] = "applying" => \A i \in inputs[t] : holds[i] \subseteq holds[out[t]]

IInv ==
    /\ TypeOK
    /\ Retained
    /\ RetainedFiles
    /\ Obsolete
    /\ Minted
    /\ FreshIds
    /\ Locals
    /\ ReclaimedOnce
    /\ ConsumedOnce
    /\ Content

-----------------------------------------------------------------------------
(***************************************************************************)
(* The bootstrap version of a fresh directory satisfies the invariant.     *)
(***************************************************************************)
LEMMA InitIInv == Init => IInv
<1>. SUFFICES ASSUME Init PROVE IInv
  BY Zenon
<1>. USE BoundAssumption, NoneAssumption DEF Init
<1>1. TypeOK
  BY DEF TypeOK, SstId, Number, PC
<1>2. Retained /\ RetainedFiles /\ Obsolete /\ Minted
  BY DEF Retained, RetainedFiles, Obsolete, Minted, Number
<1>3. FreshIds /\ Locals /\ ReclaimedOnce
  BY Zenon DEF FreshIds, HoldsId, Locals, ReclaimedOnce
<1>4. ConsumedOnce
  BY DEF ConsumedOnce, EditsAddUp, Number
<1>5. Content
  BY Zenon DEF Content, NothingLost
<1>. QED
  BY Zenon, <1>1, <1>2, <1>3, <1>4, <1>5 DEF IInv

(***************************************************************************)
(* A step that changes neither versions nor files nor edits disturbs only  *)
(* what speaks of its thread.                                              *)
(***************************************************************************)
LEMMA Undisturbed ==
    ASSUME IInv,
           UNCHANGED <<files, current, live, pending, disk, todo, edits>>
    PROVE  RetainedFiles' /\ Obsolete' /\ ReclaimedOnce' /\ ConsumedOnce'
<1>1. RetainedFiles' /\ Obsolete'
  BY Zenon DEF IInv, RetainedFiles, Obsolete
<1>2. ReclaimedOnce'
  BY Zenon DEF IInv, ReclaimedOnce
<1>3. ConsumedOnce'
  BY Zenon DEF IInv, ConsumedOnce, EditsAddUp
<1>. QED
  BY Zenon, <1>1, <1>2, <1>3

(***************************************************************************)
(* Apply: the new version names files that exist and that nobody unlinks.  *)
(* Its number is unused, so what the retained versions name is unchanged.  *)
(***************************************************************************)
LEMMA ApplyPublishes ==
    ASSUME IInv, NEW t \in Thread, Apply(t)
    PROVE  /\ current + 1 \in Number
           /\ current' = current + 1
           /\ out[t] \in SstId /\ out[t] \in disk
           /\ inputs[t] \subseteq files[current]
           /\ files'[current'] = (files[current] \ inputs[t]) \cup {out[t]}
           /\ files' \in [Number -> SUBSET SstId]
           /\ \A u \in live : u # current' /\ files'[u] = files[u]
           /\ live' \subseteq live \cup {current'}
           /\ live' \subseteq Number
           /\ current' \in live'
           /\ \A s \in Thread : pin[s] # none => pin[s] \in live'
           /\ files'[current'] \subseteq disk
           /\ \A s \in Thread : todo[s] \cap files'[current'] = {}
<1>. USE BoundAssumption, NoneAssumption DEF IInv, Number, Apply, NextFiles
<1>1. current + 1 \in Number /\ current' = current + 1
  BY DEF TypeOK
<1>2. out[t] \in SstId /\ out[t] \in disk
  BY Zenon DEF FreshIds, HoldsId, OwnId
<1>3. inputs[t] \subseteq files[current]
  BY Zenon DEF IsStale
<1>4. files'[current'] = (files[current] \ inputs[t]) \cup {out[t]}
  BY Zenon, <1>1 DEF TypeOK
<1>5. files' \in [Number -> SUBSET SstId]
  BY Zenon, <1>1, <1>2 DEF TypeOK
<1>6. \A u \in live : u # current' /\ files'[u] = files[u]
  BY <1>1 DEF TypeOK, Retained
<1>7. live' \subseteq live \cup {current'} /\ current' \in live'
  BY Zenon DEF Survivors
<1>8. live' \subseteq Number
  BY Zenon, <1>1, <1>7 DEF TypeOK
<1>9. \A s \in Thread : pin[s] # none => pin[s] \in live'
  BY Zenon DEF Retained, Survivors
<1>10. files'[current'] \subseteq disk
  BY Zenon, <1>2, <1>4 DEF Retained, RetainedFiles
<1>11. \A s \in Thread : todo[s] \cap files'[current'] = {}
  BY <1>4 DEF Retained, RetainedFiles, FreshIds, HoldsId, OwnId
<1>. QED
  BY Zenon, <1>1, <1>2, <1>3, <1>4, <1>5, <1>6, <1>7, <1>8, <1>9, <1>10, <1>11

(***************************************************************************)
(* Apply splits the obsolete ids: those a retained version still names     *)
(* stay pending, the others go to the caller and to nobody else.           *)
(***************************************************************************)
LEMMA ApplySplits ==
    ASSUME IInv, NEW t \in Thread, Apply(t)
    PROVE  /\ \A i \in pending' :
                 /\ i \in pending \cup inputs[t]
                 /\ \E u \in live' : i \in files'[u]
           /\ \A s \in Thread \ {t} : todo'[s] = todo[s]
           /\ \A i \in todo'[t] :
                 /\ i \in pending \cup inputs[t]
                 /\ \A u \in live' : i \notin files'[u]
           /\ \A i \in pending \cup inputs[t] :
                 /\ i \in disk
                 /\ i # out[t]
                 /\ i \notin files'[current']
                 /\ \A s \in Thread : i \notin todo[s]
           /\ todo' \in [Thread -> SUBSET SstId]
           /\ pending' \subseteq SstId
<1>. USE DEF IInv
<1>. DEFINE live_ids == UNION {files'[u] : u \in live'}
<1>1. pending' = (pending \cup inputs[t]) \cap live_ids
  BY Zenon DEF Apply, StillPending
<1>2. todo' = [todo EXCEPT ![t] = (pending \cup inputs[t]) \ live_ids]
  BY Zenon DEF Apply, Reclaimable
<1>3. \A i \in live_ids : \E u \in live' : i \in files'[u]
  BY Zenon
<1>4. \A u \in live' : files'[u] \subseteq live_ids
  BY Zenon
<1>. HIDE DEF live_ids
<1>5. \A i \in pending' : /\ i \in pending \cup inputs[t]
                         /\ \E u \in live' : i \in files'[u]
  BY Zenon, <1>1, <1>3
<1>6. \A s \in Thread \ {t} : todo'[s] = todo[s]
  BY Zenon, <1>2 DEF TypeOK
<1>7. \A i \in todo'[t] : /\ i \in pending \cup inputs[t]
                         /\ \A u \in live' : i \notin files'[u]
  BY Zenon, <1>2, <1>4 DEF TypeOK
<1>8. ASSUME NEW i \in pending \cup inputs[t]
      PROVE  /\ i \in disk /\ i # out[t] /\ i \notin files'[current']
             /\ \A s \in Thread : i \notin todo[s]
  <2>1. PICK u \in live : i \in files[u]
    BY Zenon, ApplyPublishes DEF Obsolete, Retained
  <2>2. i # out[t]
    BY Zenon, <2>1 DEF Apply, FreshIds, HoldsId, OwnId
  <2>. QED
    BY <2>1, <2>2, ApplyPublishes DEF RetainedFiles, Obsolete
<1>9. pending \cup inputs[t] \subseteq SstId
  BY Zenon DEF TypeOK
<1>10. todo' \in [Thread -> SUBSET SstId] /\ pending' \subseteq SstId
  BY Zenon, <1>1, <1>2, <1>9 DEF TypeOK
<1>. QED
  BY Zenon, <1>5, <1>6, <1>7, <1>8, <1>10

(***************************************************************************)
(* apply() preserves the invariant.                                        *)
(***************************************************************************)
LEMMA ApplyIInv ==
    ASSUME IInv, NEW t \in Thread, Apply(t)
    PROVE  IInv'
<1>. USE BoundAssumption, NoneAssumption DEF IInv
<1>0. /\ pc' = [pc EXCEPT ![t] = "reclaiming"]
      /\ inputs' = [inputs EXCEPT ![t] = {}]
      /\ out' = [out EXCEPT ![t] = 0]
      /\ edits' = edits \cup {[removed |-> inputs[t], added |-> out[t]]}
      /\ flushed' = flushed \cup holds[out[t]]
      /\ UNCHANGED <<next_id, disk, pin, holds, written>>
      /\ pc[t] = "applying"
  BY Zenon DEF Apply
<1>1. TypeOK'
  BY <1>0, ApplyPublishes, ApplySplits DEF TypeOK, PC, Edit
<1>2. Retained'
  BY <1>0, ApplyPublishes DEF TypeOK, Retained, Number
<1>3. RetainedFiles'
  <2>. SUFFICES ASSUME NEW u \in live'
                PROVE  /\ files'[u] \subseteq disk
                       /\ \A s \in Thread : todo'[s] \cap files'[u] = {}
    BY Zenon, <1>0 DEF RetainedFiles
  <2>1. files'[u] \subseteq disk /\ \A s \in Thread : todo[s] \cap files'[u] = {}
    BY Zenon, ApplyPublishes DEF RetainedFiles
  <2>. QED
    BY Zenon, <2>1, ApplySplits
<1>4. Obsolete'
  BY Zenon, ApplyPublishes, ApplySplits DEF Obsolete
<1>5. Minted'
  BY <1>0, ApplyPublishes DEF Minted, Retained, RetainedFiles, TypeOK
<1>6. FreshIds'
  <2>. SUFFICES ASSUME NEW s \in Thread, HoldsId(s)' PROVE OwnId(s)'
    BY Zenon DEF FreshIds
  <2>1. s # t /\ HoldsId(s) /\ out'[s] = out[s] /\ pc'[s] = pc[s]
    BY Zenon, <1>0 DEF HoldsId, TypeOK
  <2>2. OwnId(s) /\ OwnId(t) /\ out[s] # out[t]
    BY Zenon, <1>0, <2>1 DEF FreshIds, HoldsId, OwnId
  <2>3. \A r \in Thread \ {s} : HoldsId(r)' => out'[r] # out[s]
    BY Zenon, <1>0, <2>2 DEF HoldsId, OwnId, TypeOK
  <2>4. \A u \in live' : out[s] \notin files'[u]
    BY <2>2, ApplyPublishes DEF OwnId, Retained
  <2>5. \A u \in live : out[s] \notin files[u]
    BY Zenon, <2>2 DEF OwnId
  <2>6. out[s] \notin pending \cup inputs[t]
    BY Zenon, <2>5, ApplyPublishes DEF Obsolete, Retained
  <2>7. \A r \in Thread : out[s] \notin todo'[r]
    BY Zenon, <2>2, <2>6, ApplySplits DEF OwnId
  <2>8. \A e \in edits' : out[s] # e.added /\ out[s] \notin e.removed
    BY <1>0, <2>2, <2>6 DEF OwnId
  <2>9. \A r \in Thread : out[s] \notin inputs'[r]
    BY Zenon, <1>0, <2>2 DEF OwnId, TypeOK
  <2>. QED
    BY <1>0, <2>1, <2>2, <2>3, <2>4, <2>7, <2>8, <2>9 DEF OwnId
<1>7. Locals'
  BY <1>0, ApplySplits DEF Locals, TypeOK
<1>8. ReclaimedOnce'
  <2>1. \A s \in Thread : todo'[s] \subseteq disk
    BY Zenon, ApplySplits DEF ReclaimedOnce
  <2>2. \A s \in Thread : todo'[s] \cap pending' = {}
    BY ApplySplits DEF ReclaimedOnce
  <2>3. \A r, s \in Thread : r # s => todo'[s] \cap todo'[r] = {}
    BY ApplySplits DEF ReclaimedOnce
  <2>. QED
    BY Zenon, <1>0, <2>1, <2>2, <2>3 DEF ReclaimedOnce
<1>9. ConsumedOnce'
  <2>. DEFINE new == [removed |-> inputs[t], added |-> out[t]]
  <2>1. inputs[t] \subseteq files[current]
    BY Zenon, ApplyPublishes
  <2>2. \A e \in edits : e.removed \cap inputs[t] = {}
    BY Zenon, <2>1 DEF ConsumedOnce
  <2>3. \A d, e \in edits' : d # e => d.removed \cap e.removed = {}
    BY <1>0, <2>2 DEF ConsumedOnce, EditsAddUp
  <2>4. \A e \in edits : out[t] # e.added /\ out[t] \notin e.removed
    BY Zenon, <1>0 DEF FreshIds, HoldsId, OwnId
  <2>5. out[t] \notin inputs[t]
    BY Zenon, ApplySplits
  <2>6. new.added = out[t] /\ new.removed = inputs[t] /\ edits' = edits \cup {new}
    BY Zenon, <1>0
  <2>. HIDE DEF new
  <2>7. ASSUME NEW i \in SstId
        PROVE  i \in files'[current'] <=> /\ \E e \in edits' : i = e.added
                                         /\ \A e \in edits' : i \notin e.removed
    <3>1. i \in files[current] <=> /\ \E e \in edits : i = e.added
                                  /\ \A e \in edits : i \notin e.removed
      BY Zenon DEF ConsumedOnce, EditsAddUp
    <3>2. files'[current'] = (files[current] \ inputs[t]) \cup {out[t]}
      BY Zenon, ApplyPublishes
    <3>. HIDE DEF IInv
    <3>. QED
      BY Zenon, <2>4, <2>5, <2>6, <3>1, <3>2
  <2>8. \A e \in edits' : e.removed \cap files'[current'] = {}
    BY <1>0, <2>6, <2>4, <2>5, ApplyPublishes DEF ConsumedOnce
  <2>. QED
    BY Zenon, <2>3, <2>7, <2>8 DEF ConsumedOnce, EditsAddUp
<1>10. Content'
  <2>1. \A i \in inputs[t] : holds[i] \subseteq holds[out[t]]
    BY Zenon, <1>0 DEF Content
  <2>2. \A b \in flushed : \E i \in files[current] : b \in holds[i]
    BY Zenon DEF Content, NothingLost
  <2>3. files'[current'] = (files[current] \ inputs[t]) \cup {out[t]}
    BY Zenon, ApplyPublishes
  <2>4. \A b \in flushed' : \E i \in files'[current'] : b \in holds[i]
    BY Zenon, <1>0, <2>1, <2>2, <2>3
  <2>5. NothingLost'
    BY Zenon, <1>0, <2>4 DEF NothingLost
  <2>. QED
    BY Zenon, <1>0, <2>5 DEF Content, TypeOK
<1>. QED
  BY Zenon, <1>1, <1>2, <1>3, <1>4, <1>5, <1>6, <1>7, <1>8, <1>9, <1>10

(***************************************************************************)
(* reclaim() unlinks a file only the calling thread was handed.            *)
(***************************************************************************)
LEMMA UnlinkIInv ==
    ASSUME IInv, NEW t \in Thread, Unlink(t)
    PROVE  IInv'
<1>. USE BoundAssumption DEF IInv
<1>0. PICK i \in todo[t] : /\ disk' = disk \ {i}
                          /\ todo' = [todo EXCEPT ![t] = todo[t] \ {i}]
  BY Zenon DEF Unlink
<1>1. /\ pc[t] = "reclaiming"
      /\ disk' = disk \ {i}
      /\ todo' = [todo EXCEPT ![t] = todo[t] \ {i}]
      /\ UNCHANGED <<files, current, live, pending, next_id, pc, pin, inputs,
                     out, edits, holds, written, flushed>>
  BY Zenon, <1>0 DEF Unlink, data
<1>2. \A s \in Thread : todo'[s] \subseteq todo[s]
  BY Zenon, <1>1 DEF TypeOK
<1>3. \A u \in live : i \notin files[u]
  BY Zenon, <1>0 DEF RetainedFiles
<1>4. TypeOK'
  BY Zenon, <1>1 DEF TypeOK
<1>5. RetainedFiles'
  BY Zenon, <1>1, <1>2, <1>3 DEF RetainedFiles
<1>6. FreshIds'
  <2>1. \A s \in Thread : HoldsId(s) => out[s] # i
    BY Zenon, <1>0 DEF FreshIds, OwnId
  <2>. QED
    BY Zenon, <1>1, <1>2, <2>1 DEF FreshIds, HoldsId, OwnId
<1>7. ReclaimedOnce'
  <2>1. \A s \in Thread \ {t} : todo'[s] = todo[s] /\ i \notin todo[s]
    BY Zenon, <1>0, <1>1 DEF ReclaimedOnce, TypeOK
  <2>2. todo'[t] = todo[t] \ {i}
    BY Zenon, <1>1 DEF TypeOK
  <2>. QED
    BY <1>1, <1>2, <2>1, <2>2 DEF ReclaimedOnce
<1>8. Minted' /\ Locals'
  BY Zenon, <1>1, <1>2 DEF Minted, Locals
<1>9. Retained' /\ Obsolete' /\ ConsumedOnce' /\ Content'
  BY Zenon, <1>1 DEF Retained, Obsolete, ConsumedOnce, EditsAddUp, Content, NothingLost
<1>. QED
  BY Zenon, <1>4, <1>5, <1>6, <1>7, <1>8, <1>9

(***************************************************************************)
(* mint_sst_id hands out an id no file, edit or thread has: the thread *)
(* must not have held one before.                                          *)
(***************************************************************************)
LEMMA MintIInv ==
    ASSUME IInv, NEW t \in Thread, NEW then \in {"opening", "writing"},
           MintId(t, then), pc[t] \in {"idle", "picked"}
    PROVE  IInv'
<1>. USE BoundAssumption DEF IInv, MintId, data
<1>1. next_id \in SstId /\ next_id' = next_id + 1 /\ next_id < next_id'
  BY DEF TypeOK, SstId
<1>2. TypeOK'
  BY <1>1 DEF TypeOK, SstId, PC
<1>3. Retained' /\ RetainedFiles' /\ Obsolete' /\ ReclaimedOnce' /\ ConsumedOnce'
  BY Zenon, Undisturbed DEF Retained
<1>4. Minted'
  BY <1>1 DEF Minted, TypeOK, SstId, Edit
<1>5. FreshIds'
  <2>. SUFFICES ASSUME NEW s \in Thread, HoldsId(s)' PROVE OwnId(s)'
    BY Zenon DEF FreshIds
  <2>1. \A r \in Thread \ {t} : /\ HoldsId(r)' <=> HoldsId(r)
                               /\ out'[r] = out[r] /\ pc'[r] = pc[r]
    BY Zenon DEF HoldsId, TypeOK
  <2>2. \A r \in Thread \ {t} : HoldsId(r) => OwnId(r) /\ out[r] # next_id
    BY <1>1 DEF FreshIds, OwnId, SstId, TypeOK
  <2>3. CASE s = t
    <3>1. out'[t] = next_id /\ pc'[t] # "applying"
      BY Zenon DEF TypeOK
    <3>2. \A r \in Thread : next_id \notin todo[r] /\ next_id \notin inputs[r]
      BY <1>1 DEF ReclaimedOnce, Minted, SstId
    <3>3. \A u \in live : next_id \notin files[u]
      BY <1>1 DEF RetainedFiles, Minted, SstId
    <3>4. \A e \in edits : next_id # e.added /\ next_id \notin e.removed
      BY <1>1 DEF Minted, SstId
    <3>. QED
      BY <1>1, <2>1, <2>2, <2>3, <3>1, <3>2, <3>3, <3>4 DEF OwnId
  <2>4. CASE s # t
    <3>1. OwnId(s) /\ out'[s] = out[s] /\ pc'[s] = pc[s] /\ out[s] # next_id
      BY Zenon, <2>1, <2>2, <2>4
    <3>2. out'[t] = next_id
      BY Zenon DEF TypeOK
    <3>3. out[s] < next_id'
      BY <1>1, <3>1 DEF OwnId, SstId
    <3>. QED
      BY <2>1, <3>1, <3>2, <3>3 DEF OwnId
  <2>. QED
    BY Zenon, <2>3, <2>4
<1>6. Locals' /\ Content'
  BY Zenon DEF Locals, TypeOK, Content, NothingLost
<1>. QED
  BY Zenon, <1>2, <1>3, <1>4, <1>5, <1>6

(***************************************************************************)
(* What is written goes into a file nobody reads yet.                      *)
(***************************************************************************)
LEMMA WriteIInv ==
    ASSUME IInv, NEW t \in Thread, WriteFile(t)
    PROVE  IInv'
<1>. USE BoundAssumption DEF IInv
<1>1. /\ pc[t] = "writing" /\ pc' = [pc EXCEPT ![t] = "applying"]
      /\ disk' = disk \cup {out[t]}
      /\ UNCHANGED <<files, current, live, pending, next_id, pin, inputs, out,
                     todo, edits, flushed>>
  BY Zenon DEF WriteFile
<1>2. OwnId(t)
  BY Zenon, <1>1 DEF FreshIds, HoldsId
<1>3. PICK B \in SUBSET Batch : /\ holds' = [holds EXCEPT ![out[t]] = B]
                               /\ \A i \in inputs[t] : holds[i] \subseteq B
  <2>1. CASE t \in Flusher
    <3>1. inputs[t] = {} /\ {written + 1} \in SUBSET Batch
      BY <2>1 DEF Locals, WriteFile, TypeOK, Batch
    <3>. QED
      BY Zenon, <2>1, <3>1 DEF WriteFile
  <2>2. CASE t \notin Flusher
    <3>1. Merged(t) \in SUBSET Batch /\ \A i \in inputs[t] : holds[i] \subseteq Merged(t)
      BY DEF Merged, TypeOK
    <3>. QED
      BY Zenon, <2>2, <3>1 DEF WriteFile
  <2>. QED
    BY Zenon, <2>1, <2>2
<1>4. written' \in 0..MaxFlush
  BY DEF WriteFile, TypeOK
<1>5. TypeOK' /\ Locals'
  BY Zenon, <1>1, <1>2, <1>3, <1>4 DEF TypeOK, PC, Locals, OwnId
<1>6. FreshIds'
  BY ZenonT(30), <1>1 DEF TypeOK, FreshIds, HoldsId, OwnId
<1>7. Minted' /\ RetainedFiles' /\ ReclaimedOnce'
  BY Zenon, <1>1, <1>2 DEF Minted, OwnId, RetainedFiles, ReclaimedOnce
<1>8. Retained' /\ Obsolete' /\ ConsumedOnce'
  BY Zenon, <1>1 DEF Retained, Obsolete, ConsumedOnce, EditsAddUp
<1>9. \A i \in SstId : i # out[t] => holds'[i] = holds[i]
  BY Zenon, <1>3 DEF TypeOK
<1>10. NothingLost'
  <2>1. files[current] \subseteq SstId /\ out[t] \notin files[current]
    BY Zenon, <1>2 DEF OwnId, Retained, TypeOK
  <2>. QED
    BY <1>1, <1>9, <2>1 DEF Content, NothingLost
<1>11. ASSUME NEW s \in Thread, pc'[s] = "applying", NEW i \in inputs'[s]
       PROVE  holds'[i] \subseteq holds'[out'[s]]
  <2>1. i \in inputs[s] /\ i \in SstId /\ i # out[t] /\ out'[s] = out[s]
    BY Zenon, <1>1, <1>2, <1>11 DEF OwnId, TypeOK
  <2>2. CASE s = t
    BY <1>2, <1>3, <1>9, <2>1, <2>2 DEF OwnId, TypeOK
  <2>3. CASE s # t
    <3>1. pc[s] = "applying"
      BY Zenon, <1>1, <1>11, <2>3 DEF TypeOK
    <3>2. out[s] \in SstId /\ out[s] # out[t]
      BY Zenon, <1>2, <2>3, <3>1 DEF FreshIds, HoldsId, OwnId
    <3>. QED
      BY Zenon, <1>9, <2>1, <3>1, <3>2 DEF Content
  <2>. QED
    BY Zenon, <2>2, <2>3
<1>12. Content'
  BY Zenon, <1>10, <1>11 DEF Content
<1>. QED
  BY Zenon, <1>5, <1>6, <1>7, <1>8, <1>12

(***************************************************************************)
(* open() finds the files of the last current version, and maybe others.   *)
(***************************************************************************)
LEMMA RestartIInv ==
    ASSUME IInv, Restart
    PROVE  IInv'
<1>. USE BoundAssumption, NoneAssumption DEF IInv
<1>1. /\ files' = [v \in Number |-> IF v = 0 THEN disk ELSE {}]
      /\ current' = 0 /\ live' = {0} /\ pending' = {}
      /\ pc' = [t \in Thread |-> "idle"]
      /\ pin' = [t \in Thread |-> none]
      /\ inputs' = [t \in Thread |-> {}]
      /\ out' = [t \in Thread |-> 0]
      /\ todo' = [t \in Thread |-> {}]
      /\ edits' = {[removed |-> {}, added |-> i] : i \in disk}
      /\ UNCHANGED <<disk, holds, written, flushed>>
  BY Zenon DEF Restart, data
<1>2. next_id' \in 1..MaxId + 1 /\ \A i \in disk : i < next_id'
  BY DEF Restart, Highest, TypeOK, SstId
<1>3. 0 \in Number /\ files'[0] = disk
  BY <1>1 DEF Number
<1>4. disk \subseteq SstId
  BY Zenon DEF TypeOK
<1>5. TypeOK'
  BY <1>1, <1>2, <1>3, <1>4 DEF TypeOK, PC, Edit
<1>6. Retained' /\ RetainedFiles' /\ Obsolete' /\ ReclaimedOnce'
  BY <1>1, <1>3 DEF Retained, RetainedFiles, Obsolete, ReclaimedOnce
<1>7. Minted'
  BY <1>1, <1>2 DEF Minted
<1>8. FreshIds' /\ Locals'
  BY Zenon, <1>1 DEF FreshIds, HoldsId, Locals
<1>9. ConsumedOnce'
  <2>1. \A e \in edits' : e.removed = {} /\ e.added \in disk
    BY <1>1
  <2>2. ASSUME NEW i \in disk PROVE \E e \in edits' : e.added = i
    <3>1. [removed |-> {}, added |-> i] \in edits'
      BY Zenon, <1>1
    <3>. QED
      BY Zenon, <3>1
  <2>3. \A i \in SstId : i \in files'[current'] <=>
           /\ \E e \in edits' : i = e.added
           /\ \A e \in edits' : i \notin e.removed
    BY Zenon, <1>1, <1>3, <2>1, <2>2
  <2>4. \A d, e \in edits' : d # e => d.removed \cap e.removed = {}
    BY Zenon, <2>1
  <2>5. \A e \in edits' : e.removed \cap files'[current'] = {}
    BY Zenon, <2>1
  <2>. QED
    BY Zenon, <2>3, <2>4, <2>5 DEF ConsumedOnce, EditsAddUp
<1>10. Content'
  <2>1. files[current] \subseteq disk
    BY Zenon DEF Retained, RetainedFiles
  <2>. QED
    BY Zenon, <1>1, <1>3, <2>1 DEF Content, NothingLost
<1>. QED
  BY Zenon, <1>5, <1>6, <1>7, <1>8, <1>9, <1>10

(***************************************************************************)
(* Every step preserves the invariant.                                     *)
(***************************************************************************)
LEMMA NextIInv == IInv /\ [Next]_vars => IInv'
<1>. SUFFICES ASSUME IInv, [Next]_vars PROVE IInv'
  BY Zenon
<1>. USE BoundAssumption, NoneAssumption DEF IInv
<1>1. ASSUME NEW t \in Thread, BeginRead(t) \/ BeginPick(t) \/ EndRead(t) PROVE IInv'
  <2>1. PICK p \in {"idle", "reading", "picking"}, v \in {none, current} :
           /\ pc' = [pc EXCEPT ![t] = p] /\ pin' = [pin EXCEPT ![t] = v]
           /\ p = "picking" => v # none /\ t \notin Flusher
    BY Zenon, <1>1, ThreadAssumption DEF BeginRead, BeginPick, EndRead, GetCurrent, TypeOK
  <2>2. /\ pc[t] \in {"idle", "reading"} /\ current \in Number
        /\ UNCHANGED <<files, current, live, pending, next_id, disk, inputs, out,
                       todo, edits, holds, written, flushed>>
    BY Zenon, <1>1 DEF BeginRead, BeginPick, EndRead, GetCurrent, data, TypeOK
  <2>3. TypeOK' /\ Locals'
    BY Zenon, <2>1, <2>2 DEF TypeOK, PC, Locals
  <2>4. FreshIds' /\ Minted'
    BY ZenonT(30), <2>1, <2>2 DEF TypeOK, FreshIds, HoldsId, OwnId, Minted
  <2>5. RetainedFiles' /\ Obsolete' /\ ReclaimedOnce' /\ ConsumedOnce'
    BY Zenon, <2>2, Undisturbed
  <2>6. Retained' /\ Content'
    BY Zenon, <2>1, <2>2 DEF Retained, Content, NothingLost, TypeOK
  <2>. QED
    BY Zenon, <2>3, <2>4, <2>5, <2>6
<1>2. ASSUME NEW t \in Thread,
             OpenInputs(t) \/ OpenInputsFails(t) \/ ApplyStale(t) \/ EndReclaim(t)
      PROVE  IInv'
  <2>1. PICK p \in {"idle", "writing"}, S \in {{}, inputs[t]}, o \in {0, out[t]} :
           /\ pc' = [pc EXCEPT ![t] = p]
           /\ inputs' = [inputs EXCEPT ![t] = S] /\ out' = [out EXCEPT ![t] = o]
           /\ p = "writing" => pc[t] = "opening" /\ o = out[t]
    BY Zenon, <1>2 DEF OpenInputs, OpenInputsFails, ApplyStale, EndReclaim, TypeOK
  <2>2. /\ pc[t] = "reclaiming" => todo[t] = {}
        /\ pc[t] \in {"opening", "applying", "reclaiming"}
        /\ UNCHANGED <<files, current, live, pending, next_id, disk, pin, todo,
                       edits, holds, written, flushed>>
    BY Zenon, <1>2 DEF OpenInputs, OpenInputsFails, ApplyStale, EndReclaim, data
  <2>3. TypeOK' /\ Locals'
    BY <2>1, <2>2 DEF TypeOK, PC, Locals
  <2>4. \A s \in Thread : inputs'[s] \subseteq inputs[s]
    BY Zenon, <2>1 DEF TypeOK
  <2>5. \A s \in Thread : HoldsId(s)' => HoldsId(s) /\ out'[s] = out[s]
                         /\ (pc'[s] = "applying" => pc[s] = "applying")
    BY Zenon, <2>1, <2>2 DEF HoldsId, TypeOK
  <2>6. FreshIds' /\ Minted'
    BY <2>2, <2>4, <2>5 DEF FreshIds, OwnId, Minted
  <2>7. RetainedFiles' /\ Obsolete' /\ ReclaimedOnce' /\ ConsumedOnce'
    BY Zenon, <2>2, Undisturbed
  <2>8. Retained' /\ NothingLost'
    BY Zenon, <2>2 DEF Retained, Content, NothingLost
  <2>9. Content'
    BY Zenon, <2>2, <2>4, <2>5, <2>8 DEF Content, HoldsId
  <2>. QED
    BY Zenon, <2>3, <2>6, <2>7, <2>8, <2>9
<1>3. ASSUME NEW t \in Thread, EndPick(t) PROVE IInv'
  <2>1. /\ pc[t] = "picking"
        /\ pin' = [pin EXCEPT ![t] = none]
        /\ UNCHANGED <<files, current, live, pending, next_id, disk, out, todo,
                       edits, holds, written, flushed>>
    BY Zenon, <1>3 DEF EndPick, data
  <2>2. files[pin[t]] \in SUBSET SstId /\ pin[t] \in live /\ t \notin Flusher
    BY Zenon, <2>1 DEF TypeOK, Locals, Retained
  <2>3. \E S \in SUBSET SstId, then \in {"idle", "picked"} :
           /\ inputs' = [inputs EXCEPT ![t] = S]
           /\ pc' = [pc EXCEPT ![t] = then]
           /\ then = "picked" => S # {}
           /\ S \subseteq inputs[t] \cup files[pin[t]]
    <3>1. CASE pc' = [pc EXCEPT ![t] = "idle"] /\ UNCHANGED inputs
      <4>1. inputs[t] \in SUBSET SstId /\ inputs' = [inputs EXCEPT ![t] = inputs[t]]
        BY Zenon, <3>1 DEF TypeOK
      <4>. QED
        BY Zenon, <3>1, <4>1
    <3>2. ASSUME NEW S \in Candidates(files[pin[t]]) \ {{}},
                 inputs' = [inputs EXCEPT ![t] = S],
                 pc' = [pc EXCEPT ![t] = "picked"]
          PROVE  \E R \in SUBSET SstId, then \in {"idle", "picked"} :
                    /\ inputs' = [inputs EXCEPT ![t] = R]
                    /\ pc' = [pc EXCEPT ![t] = then]
                    /\ then = "picked" => R # {}
                    /\ R \subseteq inputs[t] \cup files[pin[t]]
      <4>1. S \in SUBSET SstId /\ S \subseteq files[pin[t]] /\ S # {}
        BY Zenon, <2>2, CandidatesAssumption
      <4>. QED
        BY Zenon, <3>2, <4>1
    <3>. QED
      BY Zenon, <1>3, <3>1, <3>2 DEF EndPick
  <2>4. PICK S \in SUBSET SstId, then \in {"idle", "picked"} :
           /\ inputs' = [inputs EXCEPT ![t] = S]
           /\ pc' = [pc EXCEPT ![t] = then]
           /\ then = "picked" => S # {}
           /\ S \subseteq inputs[t] \cup files[pin[t]]
    BY Zenon, <2>3
  <2>5. TypeOK' /\ Locals'
    BY Zenon, <2>1, <2>2, <2>4 DEF TypeOK, PC, Locals
  <2>6. Retained' /\ Content'
    BY <2>1, <2>4 DEF TypeOK, Retained, Content, NothingLost
  <2>7. \A s \in Thread : inputs'[s] \subseteq inputs[s] \cup files[pin[t]]
    BY Zenon, <2>4 DEF TypeOK
  <2>8. FreshIds'
    <3>1. \A s \in Thread : HoldsId(s)' => HoldsId(s) /\ pc'[s] = pc[s]
      BY Zenon, <2>1, <2>4 DEF TypeOK, HoldsId
    <3>2. \A s \in Thread : HoldsId(s) => HoldsId(s)'
      BY Zenon, <2>1, <2>4 DEF TypeOK, HoldsId
    <3>. QED
      BY <2>1, <2>2, <2>7, <3>1, <3>2 DEF FreshIds, OwnId
  <2>9. Minted'
    BY Zenon, <2>1, <2>2, <2>7 DEF Minted, RetainedFiles
  <2>10. RetainedFiles' /\ Obsolete' /\ ReclaimedOnce' /\ ConsumedOnce'
    BY Zenon, <2>1, Undisturbed
  <2>. QED
    BY Zenon, <2>5, <2>6, <2>8, <2>9, <2>10
<1>4. ASSUME NEW t \in Thread, MintOutput(t) PROVE IInv'
  <2>1. MintId(t, "opening") /\ pc[t] = "picked"
    BY Zenon, <1>4 DEF MintOutput
  <2>. HIDE DEF IInv
  <2>. QED
    BY Zenon, <2>1, MintIInv
<1>5. ASSUME NEW t \in Thread, MintFlush(t) PROVE IInv'
  <2>1. MintId(t, "writing") /\ pc[t] = "idle"
    BY Zenon, <1>5 DEF MintFlush
  <2>. HIDE DEF IInv
  <2>. QED
    BY Zenon, <2>1, MintIInv
<1>6. CASE UNCHANGED vars
  <2>. USE <1>6 DEF vars, data
  <2>1. TypeOK' /\ Locals' /\ Retained' /\ Minted' /\ Content'
    BY Zenon DEF TypeOK, Locals, Retained, Minted, Content, NothingLost
  <2>2. FreshIds'
    BY Zenon DEF FreshIds, HoldsId, OwnId
  <2>3. RetainedFiles' /\ Obsolete' /\ ReclaimedOnce' /\ ConsumedOnce'
    BY Zenon, Undisturbed
  <2>. QED
    BY Zenon, <2>1, <2>2, <2>3
<1>. HIDE DEF IInv
<1>. QED
  BY Zenon, <1>1, <1>2, <1>3, <1>4, <1>5, <1>6,
     ApplyIInv, UnlinkIInv, WriteIInv, RestartIInv DEF Next

-----------------------------------------------------------------------------
(***************************************************************************)
(* The inductive invariant holds in every reachable state.                 *)
(***************************************************************************)
THEOREM Invariance == Spec => []IInv
  BY InitIInv, NextIInv, PTL DEF Spec

(***************************************************************************)
(* Type correctness: every id, version number and phase VersionSet and its *)
(* threads handle stays in range.                                          *)
(***************************************************************************)
THEOREM TypeCorrect == Spec => []TypeOK
<1>1. IInv => TypeOK
  BY Zenon DEF IInv
<1>. QED
  BY <1>1, Invariance, PTL

(***************************************************************************)
(* reclaim() never unlinks a file of the current version or of a version   *)
(* some get() still pins, whatever the compactors race to remove.          *)
(***************************************************************************)
THEOREM NoReadOfUnlinkedFile == Spec => []PinnedFilesOnDisk
<1>1. IInv => PinnedFilesOnDisk
  BY Zenon DEF IInv, Retained, RetainedFiles, PinnedFilesOnDisk
<1>. QED
  BY <1>1, Invariance, PTL

(***************************************************************************)
(* purge_obsolete_files hands every id to one caller, once.                *)
(***************************************************************************)
THEOREM NoDoubleReclaim == Spec => []ReclaimedOnce
<1>1. IInv => ReclaimedOnce
  BY Zenon DEF IInv
<1>. QED
  BY <1>1, Invariance, PTL

(***************************************************************************)
(* pending_obsolete_ids_ holds nothing that no older retained version      *)
(* names: a file is not kept on disk for a version that is gone.           *)
(***************************************************************************)
THEOREM PendingHasAReason == Spec => []PendingIsRetained
<1>1. ASSUME IInv PROVE PendingIsRetained
  <2>1. ASSUME NEW i \in pending PROVE \E u \in live \ {current} : i \in files[u]
    BY Zenon, <1>1 DEF IInv, Obsolete
  <2>2. \A i \in pending : i \in UNION {files[u] : u \in live \ {current}}
    BY <2>1, Zenon
  <2>3. pending \cap files[current] = {}
    BY Zenon, <1>1 DEF IInv, Obsolete
  <2>. QED
    BY Zenon, <2>2, <2>3 DEF PendingIsRetained
<1>. QED
  BY <1>1, Invariance, PTL

(***************************************************************************)
(* Compactions that race lose no edit and consume no file twice.           *)
(***************************************************************************)
THEOREM CompactionsSerialise == Spec => []EditsAddUp
<1>1. IInv => EditsAddUp
  BY Zenon DEF IInv, ConsumedOnce
<1>. QED
  BY <1>1, Invariance, PTL

(***************************************************************************)
(* What flush() published stays in the database through any compactions,   *)
(* refused edits and restarts.                                             *)
(***************************************************************************)
THEOREM FlushedDataKept == Spec => []NothingLost
<1>1. IInv => NothingLost
  BY Zenon DEF IInv, Content
<1>. QED
  BY <1>1, Invariance, PTL
=============================================================================
