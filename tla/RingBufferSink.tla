--------------------------- MODULE RingBufferSink ---------------------------
(***************************************************************************)
(* RingBufferSink: threads write log records into a ring of slots without  *)
(* a lock, and a crashing thread dumps the ring while they go on.  Every   *)
(* access to an atomic, and every word of a payload, is one step.          *)
(*                                                                         *)
(* A payload word is the record it is part of.  Steps take effect in       *)
(* program order but for one that the memory orders in the code do not     *)
(* keep in its place: the load of the generation that follows the copy in  *)
(* a dump (DumpWrite).                                                     *)
(***************************************************************************)
EXTENDS Integers, Sequences, FiniteSets

CONSTANTS
    Thread,        \* threads that submit and dump
    Record,        \* log records
    Size(_),       \* words of a formatted record
    slots_cap,     \* slots_cap_
    slot_words,    \* slot_words_
    kDumpCopyMax,  \* words of the dump's buffer
    kWritingFlag,  \* 2^63
    MaxSeq,        \* bound: records submitted
    none

Slot == 0..slots_cap - 1
Word == 1..slot_words

\* Sequence numbers never reach kSlotFree, a fortiori not kWritingFlag.
kSlotFree == kWritingFlag - 1

ASSUME RingAssumption ==
    /\ slots_cap \in Nat \ {0} /\ slot_words \in Nat \ {0}
    /\ kDumpCopyMax \in Nat \ {0}
    /\ kWritingFlag \in Nat /\ MaxSeq \in Nat /\ MaxSeq <= kSlotFree
    /\ \A r \in Record : Size(r) \in Nat \ {0}
    /\ none \notin Record

VARIABLES
    \* --- the ring
    write_seq,  \* write_seq_
    gen,        \* [Slot -> Slot::gen]
    len,        \* [Slot -> Slot::len, in words]
    data,       \* [Slot -> [Word -> the record the word is part of]]
    \* --- submit(), for each thread
    wpc,        \* where it is
    rec,        \* the record it submits
    seq,        \* seq
    cur,        \* cur
    next,       \* the word it stores next
    \* --- signal_safe_dump(), for each thread
    dpc,        \* where it is
    last,       \* curr_seq
    at,         \* i
    got,        \* gen
    want,       \* len, cut to the size of buf
    buf,        \* buf: the words copied
    printed,    \* the lines written to the descriptor
    settled     \* history: the generations published when it began

ring == <<write_seq, gen, len, data>>
writer == <<wpc, rec, seq, cur, next>>
dumper == <<dpc, last, at, got, want, buf, printed, settled>>
ringvars == <<ring, writer, dumper>>

Smaller(m, n) == IF m < n THEN m ELSE n

\* kWritingFlag is set in g.
Writing(g) == g >= kWritingFlag
Published(g) == ~Writing(g) /\ g # kSlotFree

SlotOf(n) == n % slots_cap

\* Words of r that fit in a slot.
CopyLen(r) == Smaller(Size(r), slot_words)

RingTypeOK ==
    /\ write_seq \in 0..MaxSeq
    /\ gen \in [Slot -> Nat]
    /\ len \in [Slot -> 0..slot_words]
    /\ data \in [Slot -> [Word -> Record \cup {none}]]
    /\ wpc \in [Thread -> {"idle", "load", "claim", "store", "publish"}]
    /\ rec \in [Thread -> Record \cup {none}]
    /\ seq \in [Thread -> 0..MaxSeq]
    /\ cur \in [Thread -> Nat]
    /\ next \in [Thread -> 0..slot_words + 1]
    /\ dpc \in [Thread -> {"idle", "gen", "len", "copy", "done"}]
    /\ last \in [Thread -> 0..MaxSeq]
    /\ at \in [Thread -> 0..MaxSeq]
    /\ got \in [Thread -> Nat]
    /\ want \in [Thread -> 0..slot_words]
    /\ buf \in [Thread -> Seq(Record \cup {none})]
    /\ printed \in [Thread -> Seq([gen : Nat, words : Seq(Record \cup {none}),
                                   stale : BOOLEAN])]
    /\ settled \in [Thread -> SUBSET Nat]

RingInit ==
    /\ write_seq = 0
    /\ gen = [s \in Slot |-> kSlotFree]
    /\ len = [s \in Slot |-> 0]
    /\ data = [s \in Slot |-> [w \in Word |-> none]]
    /\ wpc = [t \in Thread |-> "idle"]
    /\ rec = [t \in Thread |-> none]
    /\ seq = [t \in Thread |-> 0]
    /\ cur = [t \in Thread |-> 0]
    /\ next = [t \in Thread |-> 0]
    /\ dpc = [t \in Thread |-> "idle"]
    /\ last = [t \in Thread |-> 0]
    /\ at = [t \in Thread |-> 0]
    /\ got = [t \in Thread |-> 0]
    /\ want = [t \in Thread |-> 0]
    /\ buf = [t \in Thread |-> <<>>]
    /\ printed = [t \in Thread |-> <<>>]
    /\ settled = [t \in Thread |-> {}]

-----------------------------------------------------------------------------
(***************************************************************************)
(* submit().                                                               *)
(***************************************************************************)
\* write_seq_.fetch_add(1).
Submit(t, r) ==
    /\ wpc[t] = "idle" /\ write_seq < MaxSeq
    /\ write_seq' = write_seq + 1
    /\ seq' = [seq EXCEPT ![t] = write_seq]
    /\ rec' = [rec EXCEPT ![t] = r]
    /\ wpc' = [wpc EXCEPT ![t] = "load"]
    /\ UNCHANGED <<gen, len, data, cur, next, dumper>>

\* submit() returns; its locals are gone.
Return(t) ==
    /\ wpc' = [wpc EXCEPT ![t] = "idle"]
    /\ rec' = [rec EXCEPT ![t] = none]
    /\ seq' = [seq EXCEPT ![t] = 0]
    /\ cur' = [cur EXCEPT ![t] = 0]
    /\ next' = [next EXCEPT ![t] = 0]

LoadGen(t) ==
    /\ wpc[t] = "load" /\ ~Writing(gen[SlotOf(seq[t])])
    /\ cur' = [cur EXCEPT ![t] = gen[SlotOf(seq[t])]]
    /\ wpc' = [wpc EXCEPT ![t] = "claim"]
    /\ UNCHANGED <<ring, rec, seq, next, dumper>>

\* The slot is still owned by a writer that was lapped.
LoadOwned(t) ==
    /\ wpc[t] = "load" /\ Writing(gen[SlotOf(seq[t])])
    /\ Return(t)
    /\ UNCHANGED <<ring, dumper>>

\* Mutant of ClaimLost: the claim is a plain store.
ClaimAnyway(t) ==
    /\ wpc[t] = "claim" /\ gen[SlotOf(seq[t])] # cur[t]
    /\ gen' = [gen EXCEPT ![SlotOf(seq[t])] = seq[t] + kWritingFlag]
    /\ next' = [next EXCEPT ![t] = 1]
    /\ wpc' = [wpc EXCEPT ![t] = "store"]
    /\ UNCHANGED <<write_seq, len, data, rec, seq, cur, dumper>>

\* compare_exchange_strong: the slot is claimed, or lost to another writer.
Claim(t) ==
    /\ wpc[t] = "claim" /\ gen[SlotOf(seq[t])] = cur[t]
    /\ gen' = [gen EXCEPT ![SlotOf(seq[t])] = seq[t] + kWritingFlag]
    /\ next' = [next EXCEPT ![t] = 1]
    /\ wpc' = [wpc EXCEPT ![t] = "store"]
    /\ UNCHANGED <<write_seq, len, data, rec, seq, cur, dumper>>

ClaimLost(t) ==
    /\ wpc[t] = "claim" /\ gen[SlotOf(seq[t])] # cur[t]
    /\ Return(t)
    /\ UNCHANGED <<ring, dumper>>

\* store_slot_bytes, word by word.
StoreWord(t) ==
    /\ wpc[t] = "store" /\ next[t] <= CopyLen(rec[t])
    /\ data' = [data EXCEPT ![SlotOf(seq[t])][next[t]] = rec[t]]
    /\ next' = [next EXCEPT ![t] = @ + 1]
    /\ UNCHANGED <<write_seq, gen, len, wpc, rec, seq, cur, dumper>>

StoreLen(t) ==
    /\ wpc[t] = "store" /\ next[t] > CopyLen(rec[t])
    /\ len' = [len EXCEPT ![SlotOf(seq[t])] = CopyLen(rec[t])]
    /\ wpc' = [wpc EXCEPT ![t] = "publish"]
    /\ UNCHANGED <<write_seq, gen, data, rec, seq, cur, next, dumper>>

Publish(t) ==
    /\ wpc[t] = "publish"
    /\ gen' = [gen EXCEPT ![SlotOf(seq[t])] = seq[t]]
    /\ Return(t)
    /\ UNCHANGED <<write_seq, len, data, dumper>>

-----------------------------------------------------------------------------
(***************************************************************************)
(* signal_safe_dump().                                                     *)
(***************************************************************************)
\* Mutant of First: the oldest slot is left out.
FirstButOne(n) == IF n > slots_cap THEN n - slots_cap + 1 ELSE 0

\* start: the dump goes back one lap.
First(n) == IF n > slots_cap THEN n - slots_cap ELSE 0

DumpBegin(t) ==
    /\ dpc[t] = "idle"
    /\ last' = [last EXCEPT ![t] = write_seq]
    /\ at' = [at EXCEPT ![t] = First(write_seq)]
    /\ settled' = [settled EXCEPT ![t] = {g \in {gen[s] : s \in Slot} :
                                             Published(g)}]
    /\ dpc' = [dpc EXCEPT ![t] = "gen"]
    /\ UNCHANGED <<ring, writer, got, want, buf, printed>>

\* The loop goes on with the next slot.
NextSlot(t) ==
    /\ at' = [at EXCEPT ![t] = @ + 1]
    /\ got' = [got EXCEPT ![t] = 0]
    /\ want' = [want EXCEPT ![t] = 0]
    /\ buf' = [buf EXCEPT ![t] = <<>>]
    /\ dpc' = [dpc EXCEPT ![t] = "gen"]

DumpLoadGen(t) ==
    /\ dpc[t] = "gen" /\ at[t] < last[t]
    /\ Published(gen[SlotOf(at[t])])
    /\ got' = [got EXCEPT ![t] = gen[SlotOf(at[t])]]
    /\ dpc' = [dpc EXCEPT ![t] = "len"]
    /\ UNCHANGED <<ring, writer, last, at, want, buf, printed, settled>>

\* The slot was never written, or is being written.
DumpSkip(t) ==
    /\ dpc[t] = "gen" /\ at[t] < last[t]
    /\ ~Published(gen[SlotOf(at[t])])
    /\ NextSlot(t)
    /\ UNCHANGED <<ring, writer, last, printed, settled>>

\* len, cut to the size of the buffer; an empty slot would be skipped.
DumpLoadLen(t) ==
    /\ dpc[t] = "len"
    /\ LET n == len[SlotOf(at[t])]
       IN  IF n = 0
           THEN NextSlot(t)
           ELSE /\ want' = [want EXCEPT ![t] = Smaller(n, kDumpCopyMax)]
                /\ dpc' = [dpc EXCEPT ![t] = "copy"]
                /\ UNCHANGED <<at, got, buf>>
    /\ UNCHANGED <<ring, writer, last, printed, settled>>

\* load_slot_bytes, word by word.
DumpLoadWord(t) ==
    /\ dpc[t] = "copy" /\ Len(buf[t]) < want[t]
    /\ buf' = [buf EXCEPT ![t] =
                  Append(@, data[SlotOf(at[t])][Len(buf[t]) + 1])]
    /\ UNCHANGED <<ring, writer, dpc, last, at, got, want, printed, settled>>

\* Mutant of Unchanged: the generation is not read again.
NotRead(t) == TRUE

\* The generation read again is the one read before the copy.
Unchanged(t) == gen[SlotOf(at[t])] = got[t]

\* What is printed of the copy; a stale one was let through by a load of the
\* generation that came before the slot was claimed.
Line(t, stale) == [gen |-> got[t], words |-> buf[t], stale |-> stale]

(***************************************************************************)
(* The copy is written out, unless the second load of the generation shows *)
(* that a writer claimed the slot meanwhile.  An acquire load keeps later  *)
(* accesses behind it but not the relaxed loads of the copy before it, and *)
(* nothing keeps a writer's relaxed stores behind its claim.  Where the    *)
(* compiler or the machine makes use of that, the second load returns what *)
(* the first one did although the slot was claimed before the copy ended.  *)
(***************************************************************************)
DumpWrite(t) ==
    /\ dpc[t] = "copy" /\ Len(buf[t]) = want[t]
    /\ \/ /\ Unchanged(t)
          /\ printed' = [printed EXCEPT ![t] = Append(@, Line(t, FALSE))]
       \/ /\ ~Unchanged(t)
          /\ \/ printed' = printed
             \/ printed' = [printed EXCEPT ![t] = Append(@, Line(t, TRUE))]
    /\ NextSlot(t)
    /\ UNCHANGED <<ring, writer, last, settled>>

DumpEnd(t) ==
    /\ dpc[t] = "gen" /\ at[t] = last[t]
    /\ dpc' = [dpc EXCEPT ![t] = "done"]
    /\ UNCHANGED <<ring, writer, last, at, got, want, buf, printed, settled>>

\* The dump returns; its locals and what it printed are out of sight.
DumpReturn(t) ==
    /\ dpc[t] = "done"
    /\ dpc' = [dpc EXCEPT ![t] = "idle"]
    /\ printed' = [printed EXCEPT ![t] = <<>>]
    /\ settled' = [settled EXCEPT ![t] = {}]
    /\ last' = [last EXCEPT ![t] = 0]
    /\ at' = [at EXCEPT ![t] = 0]
    /\ UNCHANGED <<ring, writer, got, want, buf>>

-----------------------------------------------------------------------------
\* A step inside submit() or inside signal_safe_dump().
WriterStep(t) ==
    \/ LoadGen(t) \/ LoadOwned(t) \/ Claim(t) \/ ClaimLost(t)
    \/ StoreWord(t) \/ StoreLen(t) \/ Publish(t)

DumperStep(t) ==
    \/ DumpLoadGen(t) \/ DumpSkip(t) \/ DumpLoadLen(t) \/ DumpLoadWord(t)
    \/ DumpWrite(t) \/ DumpEnd(t)

RingNext ==
    \E t \in Thread :
        \/ \E r \in Record : Submit(t, r)
        \/ DumpBegin(t) \/ DumpReturn(t)
        \/ WriterStep(t) \/ DumperStep(t)

\* Threads submit and dump whenever they like.
RingSpec == RingInit /\ [][RingNext]_ringvars

-----------------------------------------------------------------------------
(***************************************************************************)
(* Properties.                                                             *)
(***************************************************************************)
\* submit() writes a payload only while it owns the slot, and alone: writers
\* that are a lap apart never store into the same slot.
OneWriterPerSlot ==
    \A t, u \in Thread :
        /\ t # u
        /\ wpc[t] \in {"store", "publish"} /\ wpc[u] \in {"store", "publish"}
        => SlotOf(seq[t]) # SlotOf(seq[u])

\* The words are one record's, from its beginning to the end of the slot, of
\* the buffer or of the record.
Whole(words) ==
    \E r \in Record :
        /\ Len(words) = Smaller(CopyLen(r), kDumpCopyMax)
        /\ \A w \in DOMAIN words : words[w] = r

\* Where the loads of signal_safe_dump() take effect in program order, it
\* prints no words of two records, although writers fill and lap the slots
\* while it copies them: of the lines it writes, only one that a second load
\* of the generation moved ahead of the copy let through can be torn.
NoTornRecord ==
    \A t \in Thread : \A i \in DOMAIN printed[t] :
        ~printed[t][i].stale => Whole(printed[t][i].words)

\* What the comment on the second load says: halves of two records are
\* dropped instead of printed.  It does not hold of the code; see DumpWrite.
TornRecordsDropped ==
    \A t \in Thread : \A i \in DOMAIN printed[t] : Whole(printed[t][i].words)

\* A dump prints every record that was published when it began and whose slot
\* nobody claimed until it ended.
DumpMissesNothingSettled ==
    \A t \in Thread : dpc[t] = "done" =>
        \A s \in Slot : gen[s] \in settled[t] =>
            \E i \in DOMAIN printed[t] : printed[t][i].gen = gen[s]
=============================================================================
