------------------------ MODULE RingBufferSinkProofs ------------------------
(***************************************************************************)
(* For every number of threads, slots and words: two writers never own one *)
(* slot; a dump that reads a generation again after its copy prints no     *)
(* torn record; and none is missed that was settled when the dump began.   *)
(* The Logger's steps are the ring's, so the same holds of its dumps, and  *)
(* a fatal record is in the one that precedes the abort().                 *)
(***************************************************************************)
EXTENDS Logger, TLAPS

\* Steps without a prover of their own get more than the default time.
USE SMTT(30)

\* The part of RingTypeOK that the proofs need.
WriterTypes ==
    /\ write_seq \in Nat /\ write_seq <= MaxSeq
    /\ gen \in [Slot -> Nat]
    /\ len \in [Slot -> 0..slot_words]
    /\ data \in [Slot -> [Word -> Record \cup {none}]]
    /\ wpc \in [Thread -> {"idle", "load", "claim", "store", "publish"}]
    /\ rec \in [Thread -> Record \cup {none}]
    /\ seq \in [Thread -> Nat]
    /\ cur \in [Thread -> Nat]
    /\ next \in [Thread -> Nat]

Text == Seq(Record \cup {none})
LineType == [gen : Nat, words : Text, stale : BOOLEAN]

DumperTypes ==
    /\ dpc \in [Thread -> {"idle", "gen", "len", "copy", "done"}]
    /\ at \in [Thread -> Nat]
    /\ got \in [Thread -> Nat]
    /\ want \in [Thread -> Nat]
    /\ buf \in [Thread -> Text]
    /\ printed \in [Thread -> Seq(LineType)]

Active(t) == wpc[t] # "idle"
Owns(t) == wpc[t] \in {"store", "publish"}
Reads(t) == dpc[t] \in {"len", "copy"}

\* Numbers given out are below write_seq, and no two threads have the same one.
Numbered ==
    /\ \A t \in Thread : Active(t) => seq[t] < write_seq /\ rec[t] \in Record
    /\ \A t, u \in Thread :
           t # u /\ Active(t) /\ Active(u) => seq[t] # seq[u]

\* A slot is free, owned, or published under a number no submit() still has.
Stamped ==
    /\ \A s \in Slot : Published(gen[s]) => gen[s] < write_seq
    /\ \A t \in Thread : Active(t) => \A s \in Slot : gen[s] # seq[t]
    /\ \A t \in Thread : wpc[t] = "claim" => ~Writing(cur[t])
    /\ \A t \in Thread :
           Owns(t) => gen[SlotOf(seq[t])] = seq[t] + kWritingFlag

\* How far the owner of a slot has filled it.
Filling ==
    \A t \in Thread : Owns(t) =>
        /\ next[t] \in 1..CopyLen(rec[t]) + 1
        /\ \A w \in Word : w < next[t] => data[SlotOf(seq[t])][w] = rec[t]
        /\ wpc[t] = "publish" => /\ next[t] = CopyLen(rec[t]) + 1
                                 /\ len[SlotOf(seq[t])] = CopyLen(rec[t])

\* A published slot holds one record.
Holds(s, r) ==
    /\ len[s] = CopyLen(r)
    /\ \A w \in Word : w <= CopyLen(r) => data[s][w] = r

Filled == \A s \in Slot : Published(gen[s]) => \E r \in Record : Holds(s, r)

\* A copy is of the slot as it is while the generation is the one read.
Copied(t) ==
    /\ want[t] <= slot_words /\ Len(buf[t]) <= want[t]
    /\ gen[SlotOf(at[t])] = got[t] =>
          /\ want[t] = Smaller(len[SlotOf(at[t])], kDumpCopyMax)
          /\ \A w \in 1..Len(buf[t]) : buf[t][w] = data[SlotOf(at[t])][w]

Fresh(t) ==
    /\ got[t] < write_seq
    /\ \A u \in Thread : Active(u) => got[t] # seq[u]

Copying ==
    \A t \in Thread :
        /\ dpc[t] # "copy" => buf[t] = <<>>
        /\ Reads(t) => Fresh(t)
        /\ dpc[t] = "copy" => Copied(t)

RingInv ==
    /\ WriterTypes /\ DumperTypes
    /\ Numbered /\ Stamped /\ Filling /\ Filled /\ Copying
    /\ NoTornRecord

-----------------------------------------------------------------------------
\* A slot's index is in range.
LEMMA SlotOfType == \A n \in Nat : SlotOf(n) \in Slot
  BY RingAssumption DEF SlotOf, Slot

\* What fits of a record is between one word and the slot.
LEMMA CopyLenType == \A r \in Record : CopyLen(r) \in 1..slot_words
  BY RingAssumption DEF CopyLen, Smaller

\* Generations of the three kinds are apart.
LEMMA Kinds ==
  /\ \A n \in 0..MaxSeq : ~Writing(n) /\ n < kWritingFlag
  /\ \A n \in Nat : n < MaxSeq => Published(n)
  /\ \A n \in Nat : Writing(n + kWritingFlag) /\ ~Published(n + kWritingFlag)
  /\ \A n \in Nat : Published(n) => n < kWritingFlag
  /\ ~Published(kSlotFree) /\ kSlotFree \in Nat
  BY RingAssumption DEF Writing, Published, kSlotFree

\* A number given out, and a claimed slot's generation.
LEMMA BelowSeq ==
  ASSUME NEW n \in Nat, NEW w \in Nat, n < w, w <= MaxSeq
  PROVE  n < MaxSeq /\ n # w /\ \A v \in Nat : w <= v => n < v
  BY RingAssumption

LEMMA ClaimedApart ==
  ASSUME NEW n \in Nat, NEW m \in Nat, n < kWritingFlag
  PROVE  m + kWritingFlag # n
  BY RingAssumption

\* A place of the ring that is not past n is n or before it.
LEMMA NotPast ==
  ASSUME NEW n \in Nat, NEW m \in Nat, NEW i \in 0..m - 1, i # n, i < n + 1
  PROVE  i < n
  OBVIOUS

\* The ring is empty at first.
LEMMA InitInv == RingInit => RingInv
<1> SUFFICES ASSUME RingInit PROVE RingInv
  BY Zenon
<1> USE RingAssumption, Kinds DEF RingInit
<1>1. WriterTypes /\ DumperTypes
  BY DEF WriterTypes, DumperTypes, Text
<1>2. Numbered /\ Stamped /\ Filling
  BY Zenon DEF Numbered, Stamped, Filling, Active, Owns
<1>3. Filled /\ Copying /\ NoTornRecord
  BY DEF Filled, Copying, NoTornRecord, Reads
<1> QED
  BY Zenon, <1>1, <1>2, <1>3 DEF RingInv

-----------------------------------------------------------------------------
\* The steps of submit() keep its variables and the ring in their types.
LEMMA WriterTypeStep ==
  ASSUME WriterTypes, Numbered, Filling, NEW t \in Thread,
         (\E r \in Record : Submit(t, r)) \/ WriterStep(t)
  PROVE  WriterTypes'
<1> USE DEF WriterTypes
<1>0. /\ SlotOf(seq[t]) \in Slot
      /\ \A n \in Nat : n + 1 \in Nat /\ n + kWritingFlag \in Nat
  BY SlotOfType, RingAssumption
<1>1. ASSUME NEW r \in Record, Submit(t, r) PROVE WriterTypes'
  BY <1>1, RingAssumption DEF Submit
<1>2. CASE LoadGen(t)
  BY Zenon, <1>0, <1>2 DEF LoadGen, ring
<1>3. CASE LoadOwned(t) \/ ClaimLost(t)
  <2>1. Return(t) /\ UNCHANGED ring
    BY Zenon, <1>3 DEF LoadOwned, ClaimLost
  <2> QED
    BY Zenon, <2>1, RingAssumption DEF Return, ring
<1>4. CASE Claim(t)
  BY Zenon, <1>0, <1>4 DEF Claim
<1>5. CASE StoreWord(t)
  <2>1. rec[t] \in Record /\ next[t] \in 1..CopyLen(rec[t]) + 1
    BY Zenon, <1>5 DEF StoreWord, Filling, Numbered, Owns, Active
  <2>2. CopyLen(rec[t]) \in 1..slot_words
    BY Zenon, <2>1, CopyLenType
  <2>3. next[t] \in Word
    BY <1>5, <2>1, <2>2, RingAssumption DEF StoreWord, Word
  <2>4. data' \in [Slot -> [Word -> Record \cup {none}]]
    BY Zenon, <1>0, <1>5, <2>1, <2>3 DEF StoreWord
  <2> QED
    BY <1>5, <2>4 DEF StoreWord
<1>6. CASE StoreLen(t)
  <2>1. CopyLen(rec[t]) \in 0..slot_words
    BY <1>6, CopyLenType, RingAssumption DEF StoreLen, Numbered, Active
  <2> QED
    BY Zenon, <1>6, <2>1 DEF StoreLen
<1>7. CASE Publish(t)
  BY Zenon, <1>7 DEF Publish, Return
<1> QED
  BY Zenon, <1>1, <1>2, <1>3, <1>4, <1>5, <1>6, <1>7 DEF WriterStep

\* The steps of signal_safe_dump() keep its variables in their types.
LEMMA DumperTypeStep ==
  ASSUME WriterTypes, DumperTypes, Copying, NEW t \in Thread,
         DumpBegin(t) \/ DumpReturn(t) \/ DumperStep(t)
  PROVE  DumperTypes'
<1> USE DEF DumperTypes
<1>0. SlotOf(at[t]) \in Slot /\ <<>> \in Text /\ <<>> \in Seq(LineType)
  BY SlotOfType DEF Text
<1>1. CASE DumpBegin(t)
  <2>1. First(write_seq) \in Nat
    BY RingAssumption DEF First, WriterTypes
  <2> QED
    BY Zenon, <1>1, <2>1 DEF DumpBegin
<1>2. CASE DumpReturn(t)
  BY Zenon, <1>0, <1>2 DEF DumpReturn
<1>3. CASE DumpLoadGen(t)
  BY Zenon, <1>0, <1>3 DEF DumpLoadGen, WriterTypes
<1>4. CASE DumpEnd(t)
  BY Zenon, <1>4 DEF DumpEnd
<1>5. CASE DumpSkip(t)
  BY <1>0, <1>5 DEF DumpSkip, NextSlot
<1>6. CASE DumpLoadLen(t)
  <2>1. Smaller(len[SlotOf(at[t])], kDumpCopyMax) \in Nat
    BY <1>0, RingAssumption DEF Smaller, WriterTypes
  <2>2. CASE len[SlotOf(at[t])] = 0
    <3>1. NextSlot(t) /\ UNCHANGED printed
      BY Zenon, <1>6, <2>2 DEF DumpLoadLen
    <3> QED
      BY <1>0, <3>1 DEF NextSlot
  <2>3. CASE len[SlotOf(at[t])] # 0
    BY Zenon, <1>6, <2>1, <2>3 DEF DumpLoadLen
  <2> QED
    BY Zenon, <2>2, <2>3
<1>7. CASE DumpLoadWord(t)
  <2>1. Len(buf[t]) + 1 \in Word
    BY <1>7, RingAssumption DEF DumpLoadWord, Word, Copying, Copied, Text
  <2>2. data[SlotOf(at[t])][Len(buf[t]) + 1] \in Record \cup {none}
    BY Zenon, <1>0, <2>1 DEF WriterTypes
  <2>3. Append(buf[t], data[SlotOf(at[t])][Len(buf[t]) + 1]) \in Text
    BY <2>2 DEF Text
  <2> QED
    BY Zenon, <1>7, <2>3 DEF DumpLoadWord
<1>8. CASE DumpWrite(t)
  <2>1. \A stale \in BOOLEAN : Line(t, stale) \in LineType
    BY DEF Line, LineType
  <2>2. printed' \in [Thread -> Seq(LineType)]
    <3>1. \/ UNCHANGED printed
          \/ \E stale \in BOOLEAN :
                 printed' = [printed EXCEPT ![t] = Append(printed[t], Line(t, stale))]
      BY Zenon, <1>8 DEF DumpWrite
    <3>2. \A x \in LineType : Append(printed[t], x) \in Seq(LineType)
      OBVIOUS
    <3> QED
      BY Zenon, <2>1, <3>1, <3>2
  <2>3. NextSlot(t)
    BY Zenon, <1>8 DEF DumpWrite
  <2> QED
    BY <1>0, <2>2, <2>3 DEF NextSlot
<1> QED
  BY Zenon, <1>1, <1>2, <1>3, <1>4, <1>5, <1>6, <1>7, <1>8 DEF DumperStep

-----------------------------------------------------------------------------
\* submit() takes a number nobody had, and the others keep theirs.
LEMMA NumberedStep ==
  ASSUME WriterTypes, Numbered, NEW t \in Thread,
         (\E r \in Record : Submit(t, r)) \/ WriterStep(t)
  PROVE  Numbered'
<1> USE DEF Numbered, Active, WriterTypes
<1>1. ASSUME NEW r \in Record, Submit(t, r) PROVE Numbered'
  BY <1>1 DEF Submit
<1>2. CASE LoadGen(t)
  BY Zenon, <1>2 DEF LoadGen, ring
<1>3. CASE LoadOwned(t) \/ ClaimLost(t) \/ Publish(t)
  <2>1. Return(t) /\ UNCHANGED write_seq
    BY Zenon, <1>3 DEF LoadOwned, ClaimLost, Publish, ring
  <2> QED
    BY Zenon, <2>1 DEF Return
<1>4. CASE Claim(t)
  BY Zenon, <1>4 DEF Claim
<1>5. CASE StoreWord(t)
  BY Zenon, <1>5 DEF StoreWord
<1>6. CASE StoreLen(t)
  BY Zenon, <1>6 DEF StoreLen
<1> QED
  BY Zenon, <1>1, <1>2, <1>3, <1>4, <1>5, <1>6 DEF WriterStep

\* A slot is claimed when nobody owns it, and published under a number that
\* was in no slot.
LEMMA StampedStep ==
  ASSUME WriterTypes, Numbered, Stamped, NEW t \in Thread,
         (\E r \in Record : Submit(t, r)) \/ WriterStep(t)
  PROVE  Stamped'
<1> USE DEF Stamped, Active, Owns
<1>0. /\ \A u \in Thread : SlotOf(seq[u]) \in Slot
      /\ \A u \in Thread : Active(u) => Published(seq[u]) /\ seq[u] < kWritingFlag
  BY SlotOfType, Kinds, RingAssumption DEF WriterTypes, Numbered
<1>1. ASSUME NEW r \in Record, Submit(t, r) PROVE Stamped'
  <2>1. \A s \in Slot : gen[s] # write_seq
    BY <1>1, Kinds, RingAssumption DEF WriterTypes, Submit
  <2> QED
    BY <1>1, <2>1 DEF Submit, WriterTypes
<1>2. CASE LoadGen(t)
  BY Zenon, <1>2 DEF LoadGen, ring, WriterTypes
<1>3. CASE LoadOwned(t) \/ ClaimLost(t)
  <2>1. Return(t) /\ UNCHANGED <<write_seq, gen>>
    BY Zenon, <1>3 DEF LoadOwned, ClaimLost, ring
  <2> QED
    BY Zenon, <2>1 DEF Return, WriterTypes
<1>4. CASE Claim(t)
  <2> DEFINE c == SlotOf(seq[t])
  <2>1. /\ c \in Slot /\ seq[t] \in Nat
        /\ gen' = [gen EXCEPT ![c] = seq[t] + kWritingFlag]
        /\ wpc' = [wpc EXCEPT ![t] = "store"]
        /\ UNCHANGED <<write_seq, seq, cur>>
        /\ ~Writing(gen[c])
    BY Zenon, <1>0, <1>4 DEF Claim, WriterTypes
  <2>2. \A u \in Thread : Owns(u) => SlotOf(seq[u]) # c
    BY <1>0, <2>1, Kinds DEF WriterTypes
  <2> HIDE DEF c
  <2>3. \A s \in Slot : Published(gen[s])' => gen[s]' < write_seq'
    BY Zenon, <2>1, Kinds DEF WriterTypes, Published, Writing
  <2>4. \A u \in Thread : Active(u)' => \A s \in Slot : gen[s]' # seq[u]'
    <3>1. \A u \in Thread : Active(u)' => Active(u)
      BY Zenon, <1>4, <2>1 DEF Claim, WriterTypes
    <3>2. \A u \in Thread : Active(u) => seq[t] + kWritingFlag # seq[u]
      BY <1>0, <2>1, RingAssumption DEF WriterTypes
    <3> QED
      BY Zenon, <2>1, <3>1, <3>2 DEF WriterTypes
  <2>5. \A u \in Thread :
           Owns(u)' => gen'[SlotOf(seq[u])] = seq[u] + kWritingFlag
    <3> TAKE u \in Thread
    <3>1. CASE u = t
      BY Zenon, <1>0, <2>1, <3>1 DEF WriterTypes, c
    <3>2. CASE u # t
      BY Zenon, <1>0, <2>1, <2>2, <3>2 DEF WriterTypes
    <3> QED
      BY Zenon, <3>1, <3>2
  <2>6. \A u \in Thread : (wpc[u] = "claim")' => ~Writing(cur[u])'
    BY Zenon, <2>1 DEF WriterTypes
  <2> QED
    BY Zenon, <2>1, <2>3, <2>4, <2>5, <2>6
<1>5. CASE StoreWord(t)
  BY Zenon, <1>5 DEF StoreWord
<1>6. CASE StoreLen(t)
  BY Zenon, <1>6 DEF StoreLen, WriterTypes
<1>7. CASE Publish(t)
  <2> DEFINE c == SlotOf(seq[t])
  <2>1. /\ c \in Slot /\ seq[t] \in Nat /\ seq[t] < write_seq
        /\ gen' = [gen EXCEPT ![c] = seq[t]]
        /\ wpc' = [wpc EXCEPT ![t] = "idle"]
        /\ seq' = [seq EXCEPT ![t] = 0]
        /\ cur' = [cur EXCEPT ![t] = 0]
        /\ UNCHANGED write_seq
    BY Zenon, <1>0, <1>7 DEF Publish, Return, WriterTypes, Numbered
  <2>2. \A u \in Thread : Owns(u) /\ u # t => SlotOf(seq[u]) # c
    <3> SUFFICES ASSUME NEW u \in Thread, Owns(u), u # t, SlotOf(seq[u]) = c
                 PROVE  FALSE
      BY Zenon
    <3>1. /\ Owns(t)
          /\ gen[c] = seq[u] + kWritingFlag /\ gen[c] = seq[t] + kWritingFlag
      BY Zenon, <1>7 DEF Publish
    <3>2. seq[u] = seq[t]
      <4>1. seq[u] \in Nat /\ seq[t] \in Nat /\ kWritingFlag \in Nat
        BY Zenon, RingAssumption DEF WriterTypes
      <4>2. seq[u] + kWritingFlag = seq[t] + kWritingFlag
        BY Zenon, <3>1
      <4> HIDE DEF c
      <4> QED
        BY <4>1, <4>2
    <3>3. seq[u] # seq[t]
      BY Zenon, <3>1 DEF Numbered
    <3> QED
      BY Zenon, <3>2, <3>3
  <2> HIDE DEF c
  <2>3. \A u \in Thread : Active(u)' => u # t /\ Active(u) /\ seq'[u] = seq[u]
    BY Zenon, <2>1 DEF WriterTypes
  <2>4. \A s \in Slot : Published(gen[s])' => gen[s]' < write_seq'
    BY Zenon, <2>1 DEF WriterTypes, Published, Writing
  <2>5. \A u \in Thread : Active(u)' => \A s \in Slot : gen[s]' # seq[u]'
    BY <1>7, <2>1, <2>3 DEF WriterTypes, Numbered, Publish
  <2>6. \A u \in Thread :
           Owns(u)' => gen'[SlotOf(seq'[u])] = seq'[u] + kWritingFlag
    BY Zenon, <1>0, <2>1, <2>2, <2>3 DEF WriterTypes
  <2>7. \A u \in Thread : (wpc[u] = "claim")' => ~Writing(cur[u])'
    BY Zenon, <2>1 DEF WriterTypes
  <2> QED
    BY Zenon, <2>4, <2>5, <2>6, <2>7
<1> QED
  BY Zenon, <1>1, <1>2, <1>3, <1>4, <1>5, <1>6, <1>7 DEF WriterStep

\* An owner writes its own slot only, word by word.
LEMMA FillingStep ==
  ASSUME WriterTypes, Numbered, OneWriterPerSlot, Filling, NEW t \in Thread,
         (\E r \in Record : Submit(t, r)) \/ WriterStep(t)
  PROVE  Filling'
<1> USE DEF Filling, Owns
<1>1. ASSUME NEW r \in Record, Submit(t, r) PROVE Filling'
  BY Zenon, <1>1 DEF Submit, WriterTypes
<1>2. CASE LoadGen(t)
  BY Zenon, <1>2 DEF LoadGen, ring, WriterTypes
<1>3. CASE LoadOwned(t) \/ ClaimLost(t) \/ Publish(t)
  <2>1. Return(t) /\ UNCHANGED <<len, data>>
    BY Zenon, <1>3 DEF LoadOwned, ClaimLost, Publish, ring
  <2> QED
    BY Zenon, <2>1 DEF Return, WriterTypes
<1>4. CASE Claim(t)
  <2>1. CopyLen(rec[t]) \in Nat /\ 1 \in 1..CopyLen(rec[t]) + 1
    BY <1>4, CopyLenType, RingAssumption DEF Claim, Numbered, Active
  <2>2. \A w \in Word : ~(w < 1)
    BY RingAssumption DEF Word
  <2> QED
    BY Zenon, <1>4, <2>1, <2>2 DEF Claim, WriterTypes
<1>5. CASE StoreWord(t)
  <2> DEFINE c == SlotOf(seq[t])
  <2>1. /\ c \in Slot /\ rec[t] \in Record /\ next[t] \in 1..CopyLen(rec[t]) + 1
        /\ next[t] <= CopyLen(rec[t]) /\ wpc[t] = "store"
        /\ data' = [data EXCEPT ![c][next[t]] = rec[t]]
        /\ next' = [next EXCEPT ![t] = next[t] + 1]
        /\ UNCHANGED <<len, wpc, rec, seq>>
    BY Zenon, <1>5, SlotOfType DEF StoreWord, Numbered, Active, WriterTypes
  <2>2. CopyLen(rec[t]) \in 1..slot_words
    BY Zenon, <2>1, CopyLenType
  <2>3. next[t] \in Word /\ next[t] + 1 \in 1..CopyLen(rec[t]) + 1
    BY <2>1, <2>2, RingAssumption DEF Word
  <2>4. \A u \in Thread : u # t /\ Owns(u) => SlotOf(seq[u]) # c
    BY Zenon, <2>1 DEF OneWriterPerSlot
  <2>5. \A u \in Thread : SlotOf(seq[u]) \in Slot
    BY Zenon, SlotOfType DEF WriterTypes
  <2> HIDE DEF c
  <2>6. \A s \in Slot : s # c => data'[s] = data[s]
    BY Zenon, <2>1 DEF WriterTypes
  <2>7. \A w \in Word : data'[c][w] = IF w = next[t] THEN rec[t] ELSE data[c][w]
    BY Zenon, <2>1, <2>3 DEF WriterTypes
  <2>8. \A w \in Word : w < next[t] + 1 => data'[c][w] = rec[t]
    <3>1. \A w \in Word : w < next[t] => data[c][w] = rec[t]
      BY Zenon, <2>1 DEF c
    <3>2. \A w \in Word : w < next[t] + 1 => w = next[t] \/ w < next[t]
      BY <2>1, <2>2, RingAssumption DEF Word
    <3> QED
      BY Zenon, <2>7, <3>1, <3>2
  <2> SUFFICES ASSUME NEW u \in Thread, Owns(u)
               PROVE  Filling!(u)'
    BY Zenon, <2>1
  <2>9. CASE u = t
    BY Zenon, <2>1, <2>3, <2>8, <2>9 DEF WriterTypes, c
  <2>10. CASE u # t
    BY Zenon, <2>1, <2>4, <2>5, <2>6, <2>10 DEF WriterTypes
  <2> QED
    BY Zenon, <2>9, <2>10
<1>6. CASE StoreLen(t)
  <2>1. \A u \in Thread : u # t /\ Owns(u) => SlotOf(seq[u]) # SlotOf(seq[t])
    BY Zenon, <1>6 DEF OneWriterPerSlot, StoreLen
  <2>2. \A u \in Thread : SlotOf(seq[u]) \in Slot
    BY Zenon, SlotOfType DEF WriterTypes
  <2>3. next[t] = CopyLen(rec[t]) + 1
    BY <1>6, CopyLenType, RingAssumption DEF StoreLen, Numbered, Active
  <2> SUFFICES ASSUME NEW u \in Thread, Owns(u)
               PROVE  Filling!(u)'
    BY <1>6 DEF StoreLen, WriterTypes
  <2>4. CASE u = t
    BY Zenon, <1>6, <2>2, <2>3, <2>4 DEF StoreLen, WriterTypes
  <2>5. CASE u # t
    BY Zenon, <1>6, <2>1, <2>2, <2>5 DEF StoreLen, WriterTypes
  <2> QED
    BY Zenon, <2>4, <2>5
<1> QED
  BY Zenon, <1>1, <1>2, <1>3, <1>4, <1>5, <1>6 DEF WriterStep

\* A slot is written only while it is owned, and published when it is filled.
LEMMA FilledStep ==
  ASSUME WriterTypes, Numbered, Stamped, Filling, Filled, NEW t \in Thread,
         (\E r \in Record : Submit(t, r)) \/ WriterStep(t)
  PROVE  Filled'
<1> DEFINE c == SlotOf(seq[t])
<1>0. c \in Slot /\ seq[t] \in Nat
  BY Zenon, SlotOfType DEF WriterTypes
<1> HIDE DEF c
<1>1. CASE UNCHANGED <<gen, len, data>>
  BY Zenon, <1>1 DEF Filled, Holds
<1>2. CASE Claim(t)
  <2>1. /\ gen' = [gen EXCEPT ![c] = seq[t] + kWritingFlag]
        /\ UNCHANGED <<len, data>>
    BY Zenon, <1>2 DEF Claim, c
  <2>2. ~Published(gen'[c])
    BY Zenon, <1>0, <2>1, Kinds DEF WriterTypes
  <2>3. \A s \in Slot : s # c => gen'[s] = gen[s]
    BY Zenon, <1>0, <2>1 DEF WriterTypes
  <2> QED
    BY Zenon, <2>1, <2>2, <2>3 DEF Filled, Holds
<1>3. CASE StoreWord(t) \/ StoreLen(t)
  <2>1. UNCHANGED gen /\ ~Published(gen[c])
    BY Zenon, <1>0, <1>3, Kinds DEF StoreWord, StoreLen, Stamped, Owns, c
  <2>2. \A s \in Slot : s # c => data'[s] = data[s] /\ len'[s] = len[s]
    BY Zenon, <1>0, <1>3 DEF StoreWord, StoreLen, WriterTypes, c
  <2> QED
    BY <2>1, <2>2 DEF Filled, Holds
<1>4. CASE Publish(t)
  <2>1. gen' = [gen EXCEPT ![c] = seq[t]] /\ UNCHANGED <<len, data>>
    BY Zenon, <1>4 DEF Publish, c
  <2>2. rec[t] \in Record /\ Holds(c, rec[t])
    <3>1. /\ rec[t] \in Record /\ next[t] = CopyLen(rec[t]) + 1
          /\ len[c] = CopyLen(rec[t])
          /\ \A w \in Word : w < next[t] => data[c][w] = rec[t]
      BY Zenon, <1>4 DEF Publish, Filling, Owns, Numbered, Active, c
    <3>2. \A w \in Word : w <= CopyLen(rec[t]) => w < next[t]
      BY <3>1, CopyLenType, RingAssumption DEF Word
    <3> QED
      BY Zenon, <3>1, <3>2 DEF Holds
  <2>3. \A s \in Slot : s # c => gen'[s] = gen[s]
    BY Zenon, <1>0, <2>1 DEF WriterTypes
  <2> QED
    BY <2>1, <2>2, <2>3 DEF Filled, Holds
<1> QED
  BY Zenon, <1>1, <1>2, <1>3, <1>4
     DEF WriterStep, Submit, LoadGen, LoadOwned, ClaimLost, ring

-----------------------------------------------------------------------------
\* A writer takes from a dump only slots whose generation it has changed, to
\* one the dump did not read.
LEMMA CopyingWriterStep ==
  ASSUME WriterTypes, DumperTypes, Numbered, Stamped, Copying, NEW t \in Thread,
         (\E r \in Record : Submit(t, r)) \/ WriterStep(t), UNCHANGED dumper
  PROVE  Copying'
<1> DEFINE c == SlotOf(seq[t])
<1>0. c \in Slot /\ seq[t] \in Nat
  BY Zenon, SlotOfType DEF WriterTypes
<1> HIDE DEF c
<1> SUFFICES ASSUME NEW d \in Thread PROVE Copying!(d)'
  BY Zenon DEF Copying
<1>1. UNCHANGED <<dpc, at, got, want, buf>>
  BY Zenon DEF dumper
<1>2. ASSUME Reads(d)
      PROVE  /\ got[d] < write_seq'
             /\ \A u \in Thread : Active(u)' => got[d] # seq'[u]
  <2>0. /\ got[d] \in Nat /\ got[d] < write_seq
        /\ \A u \in Thread : Active(u) => got[d] # seq[u]
    BY Zenon, <1>2 DEF Copying, Fresh, DumperTypes
  <2>1. CASE \E r \in Record : Submit(t, r)
    <3>1. /\ write_seq' = write_seq + 1 /\ write_seq \in Nat
          /\ seq' = [seq EXCEPT ![t] = write_seq]
          /\ \A u \in Thread : u # t => Active(u)' = Active(u)
      BY Zenon, <2>1 DEF Submit, WriterTypes, Active
    <3> QED
      BY <2>0, <3>1 DEF WriterTypes
  <2>2. CASE WriterStep(t)
    <3>1. CASE LoadOwned(t) \/ ClaimLost(t) \/ Publish(t)
      <4>1. Return(t) /\ UNCHANGED write_seq
        BY Zenon, <3>1 DEF LoadOwned, ClaimLost, Publish, ring
      <4> QED
        BY Zenon, <2>0, <4>1 DEF Return, WriterTypes, Active
    <3>2. CASE LoadGen(t) \/ Claim(t) \/ StoreWord(t) \/ StoreLen(t)
      BY Zenon, <2>0, <3>2
         DEF LoadGen, Claim, StoreWord, StoreLen, ring, WriterTypes, Active
    <3> QED
      BY Zenon, <2>2, <3>1, <3>2 DEF WriterStep
  <2> QED
    BY Zenon, <2>1, <2>2
<1>3. ASSUME dpc[d] = "copy", gen'[SlotOf(at[d])] = got[d]
      PROVE  /\ gen[SlotOf(at[d])] = got[d]
             /\ len'[SlotOf(at[d])] = len[SlotOf(at[d])]
             /\ data'[SlotOf(at[d])] = data[SlotOf(at[d])]
  <2>0. /\ SlotOf(at[d]) \in Slot /\ got[d] \in Nat
        /\ got[d] < kWritingFlag
        /\ \A u \in Thread : Active(u) => got[d] # seq[u]
    <3>1. /\ at[d] \in Nat /\ got[d] \in Nat /\ got[d] < write_seq
          /\ \A u \in Thread : Active(u) => got[d] # seq[u]
      BY Zenon, <1>3 DEF Copying, Fresh, Reads, DumperTypes
    <3>2. write_seq \in Nat /\ write_seq < kWritingFlag
      <4>1. write_seq \in 0..MaxSeq
        BY RingAssumption DEF WriterTypes
      <4> QED
        BY <4>1, Kinds
    <3> QED
      BY <3>1, <3>2, SlotOfType, RingAssumption
  <2>1. CASE UNCHANGED <<gen, len, data>>
    BY Zenon, <1>3, <2>1
  <2>2. CASE Claim(t)
    <3>1. /\ gen' = [gen EXCEPT ![c] = seq[t] + kWritingFlag]
          /\ UNCHANGED <<len, data>>
      BY Zenon, <2>2 DEF Claim, c
    <3>2. SlotOf(at[d]) # c
      BY Zenon, <1>0, <1>3, <2>0, <3>1, ClaimedApart DEF WriterTypes
    <3> QED
      BY Zenon, <1>0, <1>3, <2>0, <3>1, <3>2 DEF WriterTypes
  <2>3. CASE StoreWord(t) \/ StoreLen(t)
    <3>1. UNCHANGED gen /\ gen[c] = seq[t] + kWritingFlag
      BY Zenon, <2>3 DEF StoreWord, StoreLen, Stamped, Owns, c
    <3>2. SlotOf(at[d]) # c
      BY Zenon, <1>0, <1>3, <2>0, <3>1, ClaimedApart
    <3>3. \A s \in Slot : s # c => data'[s] = data[s] /\ len'[s] = len[s]
      BY Zenon, <1>0, <2>3 DEF StoreWord, StoreLen, WriterTypes, c
    <3> QED
      BY Zenon, <1>3, <2>0, <3>1, <3>2, <3>3
  <2>4. CASE Publish(t)
    <3>1. gen' = [gen EXCEPT ![c] = seq[t]] /\ UNCHANGED <<len, data>>
      BY Zenon, <2>4 DEF Publish, c
    <3>2. got[d] # seq[t]
      BY Zenon, <2>0, <2>4 DEF Publish, Active
    <3>3. SlotOf(at[d]) # c
      BY Zenon, <1>0, <1>3, <2>0, <3>1, <3>2 DEF WriterTypes
    <3> QED
      BY Zenon, <1>0, <1>3, <2>0, <3>1, <3>3 DEF WriterTypes
  <2> QED
    BY Zenon, <2>1, <2>2, <2>3, <2>4
       DEF WriterStep, Submit, LoadGen, LoadOwned, ClaimLost, ring
<1> QED
  BY ZenonT(30), <1>1, <1>2, <1>3 DEF Copying, Fresh, Copied, Reads

\* An empty buffer.
LEMMA EmptyCopy == Len(<<>>) = 0 /\ \A w \in 1..0 : FALSE
  OBVIOUS

\* A length cut to the size of the dump's buffer.
LEMMA CutLength ==
  ASSUME NEW n \in 0..slot_words
  PROVE  /\ 0 <= Smaller(n, kDumpCopyMax)
         /\ Smaller(n, kDumpCopyMax) <= slot_words
  BY RingAssumption DEF Smaller

\* One word more in the buffer.
LEMMA AppendCopy ==
  ASSUME NEW q \in Text, NEW e
  PROVE  /\ Len(q) \in Nat /\ Len(Append(q, e)) = Len(q) + 1
         /\ \A w \in 1..Len(q) : Append(q, e)[w] = q[w]
         /\ Append(q, e)[Len(q) + 1] = e
  BY DEF Text

\* A dump copies what the slot holds.
LEMMA CopyingDumperStep ==
  ASSUME WriterTypes, DumperTypes, Stamped, Copying, NEW t \in Thread,
         DumpBegin(t) \/ DumpReturn(t) \/ DumperStep(t),
         UNCHANGED <<ring, writer>>
  PROVE  Copying'
<1> DEFINE c == SlotOf(at[t])
<1>0. c \in Slot /\ at[t] \in Nat /\ buf[t] \in Text
  BY Zenon, SlotOfType DEF DumperTypes
<1> HIDE DEF c
<1>1. UNCHANGED <<write_seq, gen, len, data, wpc, seq>>
  BY Zenon DEF ring, writer
<1> SUFFICES ASSUME NEW d \in Thread PROVE Copying!(d)'
  BY ZenonT(30) DEF Copying
<1>2. ASSUME d # t PROVE Copying!(d)'
  <2>1. /\ dpc'[d] = dpc[d] /\ at'[d] = at[d] /\ got'[d] = got[d]
        /\ want'[d] = want[d] /\ buf'[d] = buf[d]
    BY Zenon, <1>2 DEF DumpBegin, DumpReturn, DumperStep, DumpLoadGen, DumpSkip,
                DumpLoadLen, DumpLoadWord, DumpWrite, DumpEnd, NextSlot,
                DumperTypes
  <2> QED
    BY <1>1, <2>1 DEF Copying, Fresh, Copied, Reads, Active
<1>3. ASSUME d = t PROVE Copying!(d)'
  <2>1. CASE DumpBegin(t) \/ DumpReturn(t) \/ DumpEnd(t)
    BY Zenon, <1>3, <2>1 DEF DumpBegin, DumpReturn, DumpEnd, DumperTypes, Copying, Reads
  <2>2. ASSUME NextSlot(t) PROVE Copying!(d)'
    BY Zenon, <1>3, <2>2 DEF NextSlot, DumperTypes, Reads
  <2>3. CASE DumpLoadGen(t)
    <3>1. gen[c] < write_seq /\ \A u \in Thread : Active(u) => gen[c] # seq[u]
      BY Zenon, <1>0, <2>3 DEF DumpLoadGen, Stamped, c
    <3>2. dpc'[t] = "len" /\ got'[t] = gen[c] /\ buf'[t] = <<>>
      BY Zenon, <2>3 DEF DumpLoadGen, DumperTypes, Copying, c
    <3>3. Fresh(t)'
      BY Zenon, <1>1, <3>1, <3>2 DEF Fresh, Active
    <3> QED
      BY Zenon, <1>3, <3>2, <3>3
  <2>4. CASE DumpLoadLen(t) /\ len[c] # 0
    <3>1. /\ dpc[t] = "len" /\ dpc'[t] = "copy" /\ buf'[t] = <<>>
          /\ want'[t] = Smaller(len[c], kDumpCopyMax)
          /\ got'[t] = got[t] /\ at'[t] = at[t]
      BY ZenonT(30), <2>4 DEF DumpLoadLen, DumperTypes, Copying, c
    <3>2. len[c] \in 0..slot_words
      BY Zenon, <1>0 DEF WriterTypes
    <3>3. 0 <= want'[t] /\ want'[t] <= slot_words
      BY Zenon, <3>1, <3>2, CutLength
    <3>4. Copied(t)'
      BY Zenon, <1>1, <3>1, <3>3, EmptyCopy DEF Copied, c
    <3>5. Fresh(t)'
      BY Zenon, <1>1, <3>1 DEF Fresh, Copying, Reads, Active
    <3> QED
      BY Zenon, <1>3, <3>1, <3>4, <3>5
  <2>5. CASE DumpLoadWord(t)
    <3> DEFINE word == data[c][Len(buf[t]) + 1]
    <3>1. /\ dpc[t] = "copy" /\ dpc'[t] = "copy" /\ Len(buf[t]) < want[t]
          /\ buf'[t] = Append(buf[t], word)
          /\ want'[t] = want[t] /\ got'[t] = got[t] /\ at'[t] = at[t]
      BY Zenon, <2>5 DEF DumpLoadWord, DumperTypes, c
    <3>2. Copied(t) /\ Fresh(t)
      BY Zenon, <3>1 DEF Copying, Reads
    <3>3. /\ Len(buf[t]) \in Nat /\ want[t] \in Nat
          /\ Len(buf'[t]) = Len(buf[t]) + 1
          /\ \A w \in 1..Len(buf[t]) : buf'[t][w] = buf[t][w]
          /\ buf'[t][Len(buf[t]) + 1] = word
      <4>1. buf[t] \in Text /\ want[t] \in Nat
        BY Zenon DEF DumperTypes
      <4> QED
        BY ONLY <3>1, <4>1, AppendCopy, SMTT(30)
    <3>4. Len(buf'[t]) <= want[t]
      BY <3>1, <3>3
    <3>5. gen[c] = got[t] => \A w \in 1..Len(buf'[t]) : buf'[t][w] = data[c][w]
      <4>1. \A w \in 1..Len(buf'[t]) : w \in 1..Len(buf[t]) \/ w = Len(buf[t]) + 1
        BY <3>3
      <4>2. gen[c] = got[t] => \A w \in 1..Len(buf[t]) : buf[t][w] = data[c][w]
        BY Zenon, <3>2 DEF Copied, c
      <4> QED
        BY Zenon, <3>3, <4>1, <4>2
    <3>6. Copied(t)'
      BY Zenon, <1>1, <3>1, <3>2, <3>4, <3>5 DEF Copied, c
    <3>7. Fresh(t)'
      BY Zenon, <1>1, <3>1, <3>2 DEF Fresh, Active
    <3> QED
      BY Zenon, <1>3, <3>1, <3>6, <3>7
  <2> QED
    BY Zenon, <2>1, <2>2, <2>3, <2>4, <2>5
       DEF DumperStep, DumpSkip, DumpWrite, DumpLoadLen, c
<1> QED
  BY Zenon, <1>2, <1>3

\* What a dump adds to its output after the second load is one record.
LEMMA TornStep ==
  ASSUME WriterTypes, DumperTypes, Stamped, Filled, Copying, NoTornRecord,
         NEW t \in Thread,
         DumpBegin(t) \/ DumpReturn(t) \/ DumperStep(t)
  PROVE  NoTornRecord'
<1> DEFINE Good(x) == ~x.stale => Whole(x.words)
<1>0. \A d \in Thread : \A i \in DOMAIN printed[d] : Good(printed[d][i])
  BY Zenon DEF NoTornRecord
<1> SUFFICES \A d \in Thread : \A i \in DOMAIN printed'[d] : Good(printed'[d][i])
  BY Zenon DEF NoTornRecord
<1>1. ASSUME NEW x \in LineType, Good(x),
             printed' = [printed EXCEPT ![t] = Append(printed[t], x)],
             NEW d \in Thread, NEW i \in DOMAIN printed'[d]
      PROVE  Good(printed'[d][i])
  <2> HIDE DEF Good
  <2>1. CASE d # t
    BY Zenon, <1>0, <1>1, <2>1 DEF DumperTypes
  <2>2. CASE d = t
    <3>1. printed[t] \in Seq(LineType) /\ printed'[t] = Append(printed[t], x)
      BY Zenon, <1>1 DEF DumperTypes
    <3>2. \/ i \in DOMAIN printed[t] /\ printed'[t][i] = printed[t][i]
          \/ printed'[t][i] = x
      BY <1>1, <2>2, <3>1
    <3> QED
      BY Zenon, <1>0, <1>1, <2>2, <3>2
  <2> QED
    BY Zenon, <2>1, <2>2
<1>2. ASSUME NEW stale \in BOOLEAN
      PROVE  /\ Line(t, stale) \in LineType
             /\ Line(t, stale).stale = stale /\ Line(t, stale).words = buf[t]
  BY DEF Line, LineType, DumperTypes
<1>3. CASE DumpWrite(t) /\ Unchanged(t)
  <2> DEFINE c == SlotOf(at[t])
  <2>1. /\ dpc[t] = "copy" /\ Len(buf[t]) = want[t] /\ gen[c] = got[t]
        /\ printed' = [printed EXCEPT ![t] = Append(printed[t], Line(t, FALSE))]
    BY Zenon, <1>3 DEF DumpWrite, Unchanged
  <2>2. c \in Slot /\ got[t] < write_seq /\ Published(gen[c])
    <3>1. at[t] \in Nat /\ got[t] \in Nat /\ got[t] < write_seq
      BY Zenon, <2>1 DEF Copying, Fresh, Reads, DumperTypes
    <3>2. got[t] < MaxSeq
      BY <3>1, RingAssumption DEF WriterTypes
    <3> QED
      BY Zenon, <2>1, <3>1, <3>2, SlotOfType, Kinds
  <2>3. PICK r \in Record : Holds(c, r)
    BY Zenon, <2>2 DEF Filled
  <2>4. /\ Len(buf[t]) = Smaller(CopyLen(r), kDumpCopyMax)
        /\ \A w \in 1..Len(buf[t]) : buf[t][w] = data[c][w]
    BY Zenon, <2>1, <2>3 DEF Copying, Copied, Holds
  <2>5. Len(buf[t]) \in Nat /\ Len(buf[t]) <= CopyLen(r)
        /\ CopyLen(r) \in Nat /\ CopyLen(r) <= slot_words
    BY <2>4, CopyLenType, RingAssumption DEF Smaller
  <2>6. \A w \in 1..Len(buf[t]) : w \in Word /\ w <= CopyLen(r)
    BY <2>5, RingAssumption DEF Word
  <2>7. \A w \in DOMAIN buf[t] : buf[t][w] = r
    <3>1. DOMAIN buf[t] = 1..Len(buf[t])
      BY DEF DumperTypes, Text
    <3> QED
      BY Zenon, <2>3, <2>4, <2>6, <3>1 DEF Holds
  <2>8. Whole(buf[t])
    BY Zenon, <2>4, <2>7 DEF Whole
  <2> QED
    BY Zenon, <1>1, <1>2, <2>1, <2>8
<1>4. CASE printed' = [printed EXCEPT ![t] = Append(printed[t], Line(t, TRUE))]
  BY Zenon, <1>1, <1>2, <1>4
<1>5. CASE DumpReturn(t)
  <2>1. printed' = [printed EXCEPT ![t] = <<>>]
    BY Zenon, <1>5 DEF DumpReturn
  <2> HIDE DEF Good
  <2> QED
    BY <1>0, <2>1 DEF DumperTypes
<1>6. CASE UNCHANGED printed
  <2> HIDE DEF Good
  <2> QED
    BY Zenon, <1>0, <1>6
<1> QED
  BY Zenon, <1>3, <1>4, <1>5, <1>6
     DEF DumpBegin, DumperStep, DumpLoadGen, DumpSkip, DumpLoadLen,
         DumpLoadWord, DumpWrite, DumpEnd

-----------------------------------------------------------------------------
\* Owners of one slot would have one number.
LEMMA OneOwner ==
  ASSUME WriterTypes, Numbered, Stamped PROVE OneWriterPerSlot
<1> SUFFICES ASSUME NEW t \in Thread, NEW u \in Thread, t # u, Owns(t), Owns(u),
                    SlotOf(seq[t]) = SlotOf(seq[u])
             PROVE  FALSE
  BY Zenon DEF OneWriterPerSlot, Owns
<1>1. seq[t] + kWritingFlag = seq[u] + kWritingFlag
  BY Zenon DEF Stamped
<1>2. seq[t] \in Nat /\ seq[u] \in Nat /\ kWritingFlag \in Nat
  BY Zenon, RingAssumption DEF WriterTypes
<1>3. seq[t] = seq[u]
  BY <1>1, <1>2
<1> QED
  BY Zenon, <1>3 DEF Numbered, Owns, Active

\* The invariant is inductive.
LEMMA RingStep == RingInv /\ [RingNext]_ringvars => RingInv'
<1> SUFFICES ASSUME RingInv, [RingNext]_ringvars PROVE RingInv'
  BY Zenon
<1>0. /\ WriterTypes /\ DumperTypes /\ Numbered /\ Stamped /\ Filling /\ Filled
      /\ Copying /\ NoTornRecord
  BY Zenon DEF RingInv
<1>1. OneWriterPerSlot
  BY Zenon, <1>0, OneOwner
<1>2. ASSUME NEW t \in Thread, (\E r \in Record : Submit(t, r)) \/ WriterStep(t)
      PROVE  RingInv'
  <2>1. UNCHANGED dumper
    BY Zenon, <1>2 DEF Submit, WriterStep, LoadGen, LoadOwned, Claim, ClaimLost,
                StoreWord, StoreLen, Publish
  <2>2. WriterTypes' /\ Numbered' /\ Stamped' /\ Filling' /\ Filled'
    BY Zenon, <1>0, <1>1, <1>2, WriterTypeStep, NumberedStep, StampedStep, FillingStep,
       FilledStep
  <2>3. Copying'
    BY Zenon, <1>0, <1>2, <2>1, CopyingWriterStep
  <2>4. DumperTypes' /\ NoTornRecord'
    BY <1>0, <2>1 DEF DumperTypes, NoTornRecord, dumper
  <2> QED
    BY Zenon, <2>2, <2>3, <2>4 DEF RingInv
<1>3. ASSUME NEW t \in Thread, DumpBegin(t) \/ DumpReturn(t) \/ DumperStep(t)
      PROVE  RingInv'
  <2>1. UNCHANGED <<ring, writer>>
    BY Zenon, <1>3 DEF DumpBegin, DumpReturn, DumperStep, DumpLoadGen, DumpSkip,
                DumpLoadLen, DumpLoadWord, DumpWrite, DumpEnd
  <2>2. WriterTypes' /\ Numbered' /\ Stamped'
    BY Zenon, <1>0, <2>1 DEF WriterTypes, Numbered, Stamped, Active, Owns, ring, writer
  <2>3. Filling' /\ Filled'
    BY Zenon, <1>0, <2>1 DEF Filling, Filled, Holds, Owns, ring, writer
  <2>4. DumperTypes' /\ Copying' /\ NoTornRecord'
    BY Zenon, <1>0, <1>3, <2>1, DumperTypeStep, CopyingDumperStep, TornStep
  <2> QED
    BY Zenon, <2>2, <2>3, <2>4 DEF RingInv
<1>4. CASE UNCHANGED ringvars
  <2>1. UNCHANGED <<ring, writer>> /\ UNCHANGED dumper
    BY Zenon, <1>4 DEF ringvars
  <2>2. WriterTypes' /\ Numbered' /\ Stamped'
    BY Zenon, <1>0, <2>1 DEF WriterTypes, Numbered, Stamped, Active, Owns, ring, writer
  <2>3. Filling' /\ Filled'
    BY Zenon, <1>0, <2>1 DEF Filling, Filled, Holds, Owns, ring, writer
  <2>4. DumperTypes' /\ NoTornRecord'
    BY <1>0, <2>1 DEF DumperTypes, NoTornRecord, dumper
  <2>5. Copying'
    BY Zenon, <1>0, <2>1 DEF Copying, Copied, Fresh, Reads, Active, ring, writer, dumper
  <2> QED
    BY Zenon, <2>2, <2>3, <2>4, <2>5 DEF RingInv
<1> QED
  BY Zenon, <1>2, <1>3, <1>4 DEF RingNext

\* Whatever threads submit and dump, two of them never fill one slot of the
\* ring, and a line that signal_safe_dump() prints is one record unless the
\* second load of its generation took effect before the copy.
THEOREM RingSafe == RingSpec => [](OneWriterPerSlot /\ NoTornRecord)
<1>1. RingInv => OneWriterPerSlot /\ NoTornRecord
  BY Zenon, OneOwner DEF RingInv
<1> QED
  BY <1>1, InitInv, RingStep, PTL DEF RingSpec

-----------------------------------------------------------------------------
(***************************************************************************)
(* What a dump prints.  A generation is printed, or is still ahead in the  *)
(* slots the dump goes through.                                            *)
(***************************************************************************)
Lines(t) == {printed[t][i] : i \in DOMAIN printed[t]}
Shown(t, g) == \E x \in Lines(t) : x.gen = g

\* Slot s is among those the dump of t has yet to read, or was printed.
Comes(t, s) ==
    \E i \in 0..last[t] - 1 : /\ SlotOf(i) = s
                              /\ i < at[t] => Shown(t, gen[s])

\* The generations settled when the dump of t began: nobody publishes under
\* one again, and the dump has read, or will read, the slot of each.
Settling(t) ==
    /\ \A g \in settled[t] : g \in Nat /\ Published(g) /\ g < write_seq
    /\ \A u \in Thread : Active(u) => seq[u] \notin settled[t]
    /\ dpc[t] # "idle" => \A s \in Slot : gen[s] \in settled[t] => Comes(t, s)
    /\ Reads(t) => at[t] < last[t] /\ SlotOf(got[t]) = SlotOf(at[t])
    /\ Reads(t) /\ gen[SlotOf(at[t])] \in settled[t]
           => got[t] = gen[SlotOf(at[t])]
    /\ dpc[t] = "done" => at[t] = last[t]

\* A record is published in the slot of its number.
Placed == \A s \in Slot : Published(gen[s]) => SlotOf(gen[s]) = s

\* What was printed of a slot that nobody claimed since is what it holds.
Showing(t) ==
    \A x \in Lines(t) :
        /\ x.gen < write_seq
        /\ \A u \in Thread : Active(u) => seq[u] # x.gen
        /\ \A s \in Slot : gen[s] = x.gen => x.words[1] = data[s][1]

DumpInv ==
    /\ RingInv /\ Placed
    /\ last \in [Thread -> Nat] /\ settled \in [Thread -> SUBSET Nat]
    /\ \A t \in Thread : Settling(t) /\ Showing(t)

\* A number is its remainder and multiples of the number of slots.
LEMMA Remainder ==
  ASSUME NEW q \in Int, NEW r \in Slot
  PROVE  SlotOf(slots_cap * q + r) = r
<1>1. PICK y \in Int : y = slots_cap * q + r
  BY RingAssumption DEF Slot
<1>2. y % slots_cap \in 0..slots_cap - 1
  BY RingAssumption
<1>3. y = slots_cap * (y \div slots_cap) + (y % slots_cap)
  BY RingAssumption
<1> QED
  BY <1>1, <1>2, <1>3, RingAssumption DEF Slot, SlotOf

\* A lap, wherever it begins, comes by every slot.
LEMMA Lap ==
  ASSUME NEW b \in Nat, NEW s \in Slot
  PROVE  \E i \in b..b + slots_cap - 1 : SlotOf(i) = s
<1>1. /\ b % slots_cap \in Slot /\ b \div slots_cap \in Int
      /\ b = slots_cap * (b \div slots_cap) + (b % slots_cap)
  BY RingAssumption DEF Slot
<1>2. PICK r \in Slot, q \in Int : b = slots_cap * q + r
  BY <1>1
<1>3. CASE r <= s
  <2>1. SlotOf(slots_cap * q + s) = s
    BY Remainder
  <2>2. slots_cap * q + s \in b..b + slots_cap - 1
    BY RingAssumption, <1>2, <1>3 DEF Slot
  <2> QED
    BY <2>1, <2>2
<1>4. CASE r > s
  <2>1. SlotOf(slots_cap * (q + 1) + s) = s
    BY Remainder
  <2>2. slots_cap * (q + 1) + s \in b..b + slots_cap - 1
    BY RingAssumption, <1>2, <1>4 DEF Slot
  <2> QED
    BY <2>1, <2>2
<1> QED
  BY <1>2, <1>3, <1>4, RingAssumption DEF Slot

\* The dump goes back far enough to come by every slot that was used.
LEMMA WindowCovers ==
  ASSUME NEW n \in Nat, NEW g \in Nat, g < n
  PROVE  \E i \in 0..n - 1 : First(n) <= i /\ SlotOf(i) = SlotOf(g)
<1>1. CASE n > slots_cap
  <2>1. n - slots_cap \in Nat /\ First(n) = n - slots_cap
    BY <1>1, RingAssumption DEF First
  <2>2. PICK b \in Nat, s \in Slot : b = n - slots_cap /\ s = SlotOf(g)
    BY <2>1, SlotOfType
  <2>3. PICK i \in b..b + slots_cap - 1 : SlotOf(i) = s
    BY Lap
  <2> QED
    BY <2>1, <2>2, <2>3, RingAssumption
<1>2. CASE ~(n > slots_cap)
  BY <1>2, RingAssumption DEF First
<1> QED
  BY Zenon, <1>1, <1>2

\* What is printed are lines.
LEMMA LineTypes ==
  ASSUME DumperTypes, NEW t \in Thread, NEW x \in Lines(t)
  PROVE  x \in LineType /\ x.gen \in Nat /\ x.words \in Text
<1>1. PICK i \in DOMAIN printed[t] : x = printed[t][i]
  BY Zenon DEF Lines
<1>2. printed[t] \in Seq(LineType)
  BY Zenon DEF DumperTypes
<1>3. x \in LineType
  BY <1>1, <1>2
<1> QED
  BY <1>3 DEF LineType

\* What a step of submit() does to a slot: nothing that a published one shows,
\* or it takes it, or it publishes under its own number.
LEMMA WriterEffect ==
  ASSUME RingInv, NEW t \in Thread,
         (\E r \in Record : Submit(t, r)) \/ WriterStep(t)
  PROVE  /\ write_seq' \in Nat /\ write_seq <= write_seq'
         /\ \A u \in Thread : Active(u)' =>
               \/ Active(u) /\ seq'[u] = seq[u] /\ rec'[u] = rec[u]
               \/ u = t /\ wpc[t] = "idle" /\ seq'[u] = write_seq
         /\ \A s \in Slot :
               \/ /\ gen'[s] = gen[s]
                  /\ Published(gen[s]) => data'[s] = data[s]
               \/ ~Published(gen'[s])
               \/ /\ Active(t) /\ gen'[s] = seq[t] /\ s = SlotOf(seq[t])
                  /\ data'[s][1] = rec[t] /\ wpc'[t] = "idle"
<1> DEFINE c == SlotOf(seq[t])
<1>0. /\ WriterTypes /\ Numbered /\ Stamped /\ Filling
      /\ c \in Slot /\ seq[t] \in Nat /\ write_seq \in Nat
  BY Zenon, SlotOfType DEF RingInv, WriterTypes
<1> HIDE DEF c
<1>1. CASE \E r \in Record : Submit(t, r)
  <2>1. /\ write_seq' = write_seq + 1 /\ UNCHANGED <<gen, data>>
        /\ wpc[t] = "idle"
        /\ \A u \in Thread : u # t => wpc'[u] = wpc[u] /\ seq'[u] = seq[u] /\ rec'[u] = rec[u]
        /\ seq'[t] = write_seq
    BY Zenon, <1>0, <1>1 DEF Submit, WriterTypes
  <2>2. write_seq' \in Nat /\ write_seq <= write_seq'
    BY <1>0, <2>1
  <2> QED
    BY Zenon, <2>1, <2>2 DEF Active
<1>2. CASE LoadOwned(t) \/ ClaimLost(t) \/ Publish(t)
  <2>1. /\ wpc'[t] = "idle" /\ UNCHANGED <<write_seq, data>>
        /\ \A u \in Thread : u # t => wpc'[u] = wpc[u] /\ seq'[u] = seq[u] /\ rec'[u] = rec[u]
    BY Zenon, <1>0, <1>2 DEF LoadOwned, ClaimLost, Publish, Return, ring, WriterTypes
  <2>2. write_seq' \in Nat /\ write_seq <= write_seq'
    BY <1>0, <2>1
  <2>3. CASE UNCHANGED gen
    BY Zenon, <2>1, <2>2, <2>3 DEF Active
  <2>4. CASE Publish(t)
    <3>1. \A s \in Slot : gen'[s] = IF s = c THEN seq[t] ELSE gen[s]
      BY Zenon, <1>0, <2>4 DEF Publish, WriterTypes, c
    <3>2. /\ rec[t] \in Record /\ next[t] = CopyLen(rec[t]) + 1 /\ Active(t)
          /\ \A w \in Word : w < next[t] => data[c][w] = rec[t]
      BY Zenon, <1>0, <2>4 DEF Publish, Filling, Owns, Numbered, Active, c
    <3>3. 1 \in Word /\ 1 < next[t]
      BY <3>2, CopyLenType, RingAssumption DEF Word
    <3> QED
      BY Zenon, <2>1, <2>2, <3>1, <3>2, <3>3 DEF Active, c
  <2> QED
    BY Zenon, <1>2, <2>3, <2>4 DEF LoadOwned, ClaimLost, ring
<1>3. CASE LoadGen(t) \/ Claim(t) \/ StoreWord(t) \/ StoreLen(t)
  <2>1. /\ UNCHANGED <<write_seq, seq, rec>>
        /\ \A u \in Thread : Active(u)' => Active(u)
    BY Zenon, <1>0, <1>3
       DEF LoadGen, Claim, StoreWord, StoreLen, ring, WriterTypes, Active
  <2>2. write_seq' \in Nat /\ write_seq <= write_seq'
    BY <1>0, <2>1
  <2>3. CASE UNCHANGED <<gen, data>>
    BY Zenon, <2>1, <2>2, <2>3
  <2>4. CASE Claim(t)
    <3>1. \A s \in Slot : s # c => gen'[s] = gen[s] /\ data'[s] = data[s]
      BY Zenon, <1>0, <2>4 DEF Claim, WriterTypes, c
    <3>2. ~Published(gen'[c])
      BY Zenon, <1>0, <2>4, Kinds DEF Claim, WriterTypes, c
    <3> QED
      BY Zenon, <2>1, <2>2, <3>1, <3>2
  <2>5. CASE StoreWord(t)
    <3>1. UNCHANGED gen /\ \A s \in Slot : s # c => data'[s] = data[s]
      BY Zenon, <1>0, <2>5 DEF StoreWord, WriterTypes, c
    <3>2. ~Published(gen[c])
      BY Zenon, <1>0, <2>5, Kinds DEF StoreWord, Stamped, Owns, c
    <3> QED
      BY Zenon, <2>1, <2>2, <3>1, <3>2
  <2> QED
    BY Zenon, <1>3, <2>3, <2>4, <2>5 DEF LoadGen, StoreLen, ring
<1> QED
  BY Zenon, <1>1, <1>2, <1>3 DEF WriterStep

\* Writers leave alone what a dump has settled and what it has printed.
LEMMA SettlingWriterStep ==
  ASSUME DumpInv, NEW t \in Thread,
         (\E r \in Record : Submit(t, r)) \/ WriterStep(t), UNCHANGED dumper
  PROVE  Placed' /\ \A d \in Thread : Settling(d)' /\ Showing(d)'
<1>0. /\ RingInv /\ WriterTypes /\ DumperTypes /\ Numbered /\ Placed
      /\ UNCHANGED <<dpc, last, at, got, printed, settled>>
      /\ write_seq \in Nat /\ last \in [Thread -> Nat]
      /\ settled \in [Thread -> SUBSET Nat]
  BY Zenon DEF DumpInv, RingInv, WriterTypes, dumper
<1>1. /\ write_seq' \in Nat /\ write_seq <= write_seq'
      /\ \A u \in Thread : Active(u)' =>
            \/ Active(u) /\ seq'[u] = seq[u]
            \/ seq'[u] = write_seq
      /\ \A s \in Slot :
            \/ gen'[s] = gen[s] /\ (Published(gen[s]) => data'[s] = data[s])
            \/ ~Published(gen'[s])
            \/ Active(t) /\ gen'[s] = seq[t] /\ s = SlotOf(seq[t])
  BY Zenon, <1>0, WriterEffect
<1>2. Placed'
  BY Zenon, <1>0, <1>1 DEF Placed
<1>3. ASSUME NEW d \in Thread PROVE Settling(d)'
  <2>0. Settling(d)
    BY Zenon DEF DumpInv
  <2>1. \A g \in settled[d] : g \in Nat /\ Published(g) /\ g < write_seq
    BY Zenon, <2>0 DEF Settling
  <2>2. \A g \in settled[d] : g < write_seq' /\ g # write_seq
    BY <1>0, <1>1, <2>1
  <2>3. \A u \in Thread : Active(u)' => seq'[u] \notin settled[d]
    BY Zenon, <1>1, <2>0, <2>2 DEF Settling
  <2>4. \A s \in Slot : gen'[s] \in settled[d] => gen'[s] = gen[s]
    BY Zenon, <1>1, <2>0, <2>1 DEF Settling
  <2>5. \A s \in Slot : gen'[s] = gen[s] => (Comes(d, s) => Comes(d, s)')
    BY Zenon, <1>0 DEF Comes, Shown, Lines
  <2>6. SlotOf(at[d]) \in Slot
    BY Zenon, <1>0, SlotOfType DEF DumperTypes
  <2>7. dpc[d] # "idle" => \A s \in Slot : gen'[s] \in settled[d] => Comes(d, s)'
    BY Zenon, <2>0, <2>4, <2>5 DEF Settling
  <2> QED
    BY Zenon, <1>0, <2>0, <2>1, <2>2, <2>3, <2>4, <2>6, <2>7 DEF Settling, Reads
<1>4. ASSUME NEW d \in Thread, NEW x \in Lines(d)
      PROVE  /\ x.gen < write_seq'
             /\ \A u \in Thread : Active(u)' => seq'[u] # x.gen
             /\ \A s \in Slot : gen'[s] = x.gen => x.words[1] = data'[s][1]
  <2>1. /\ x.gen \in Nat /\ x.gen < write_seq
        /\ \A u \in Thread : Active(u) => seq[u] # x.gen
        /\ \A s \in Slot : gen[s] = x.gen => x.words[1] = data[s][1]
    BY ZenonT(30), <1>0, <1>4, LineTypes DEF DumpInv, Showing
  <2>2. x.gen < write_seq' /\ x.gen # write_seq /\ x.gen < MaxSeq
    BY Zenon, <1>0, <1>1, <2>1, BelowSeq DEF WriterTypes
  <2>3. Published(x.gen)
    BY Zenon, <2>1, <2>2, Kinds
  <2> QED
    BY Zenon, <1>1, <2>1, <2>2, <2>3
<1>5. \A d \in Thread : Lines(d)' = Lines(d)
  BY Zenon, <1>0 DEF Lines
<1>6. \A d \in Thread : Showing(d)'
  BY Zenon, <1>4, <1>5 DEF Showing
<1> QED
  BY Zenon, <1>2, <1>3, <1>6

\* The dump leaves a slot behind: it was printed, or was not settled.
LEMMA Onward ==
  ASSUME DumpInv, NEW t \in Thread, NextSlot(t), Settling(t),
         dpc[t] # "idle", UNCHANGED <<ring, writer, last, settled>>,
         Lines(t) \subseteq Lines(t)',
         \A s \in Slot : s = SlotOf(at[t]) /\ gen[s] \in settled[t]
                            => Shown(t, gen[s])'
  PROVE  Settling(t)'
<1>0. /\ DumperTypes /\ at[t] \in Nat /\ last[t] \in Nat
  BY Zenon DEF DumpInv, RingInv, DumperTypes
<1>1. /\ at'[t] = at[t] + 1 /\ dpc'[t] = "gen"
      /\ UNCHANGED <<write_seq, gen, wpc, seq, last, settled>>
  BY Zenon, <1>0 DEF NextSlot, DumperTypes, ring, writer
<1>2. ASSUME NEW s \in Slot, gen[s] \in settled[t] PROVE Comes(t, s)'
  <2>1. PICK i \in 0..last[t] - 1 : SlotOf(i) = s /\ (i < at[t] => Shown(t, gen[s]))
    BY Zenon, <1>2 DEF Settling, Comes
  <2>2. CASE i = at[t]
    <3>1. Shown(t, gen[s])'
      BY Zenon, <1>1, <1>2, <2>1, <2>2
    <3> QED
      BY Zenon, <1>1, <2>1, <3>1 DEF Comes
  <2>3. CASE i # at[t]
    <3>1. i < at[t] + 1 => i < at[t]
      BY Zenon, <1>0, <2>3, NotPast
    <3>2. Shown(t, gen[s]) => Shown(t, gen[s])'
      BY Zenon, <1>1 DEF Shown
    <3> QED
      BY ZenonT(30), <1>1, <2>1, <3>1, <3>2 DEF Comes
  <2> QED
    BY Zenon, <2>2, <2>3
<1> QED
  BY Zenon, <1>1, <1>2 DEF Settling, Reads, Active

\* A line is added to what was printed.
LEMMA LinesAppend ==
  ASSUME DumperTypes, NEW t \in Thread, NEW x \in LineType,
         printed' = [printed EXCEPT ![t] = Append(printed[t], x)]
  PROVE  Lines(t)' = Lines(t) \cup {x}
<1>1. printed[t] \in Seq(LineType) /\ printed'[t] = Append(printed[t], x)
  BY Zenon DEF DumperTypes
<1>2. PICK p \in Seq(LineType) : p = printed[t]
  BY Zenon, <1>1
<1>3. /\ DOMAIN Append(p, x) = DOMAIN p \cup {Len(p) + 1}
      /\ Append(p, x)[Len(p) + 1] = x
      /\ \A i \in DOMAIN p : Append(p, x)[i] = p[i]
  BY SMTT(30)
<1>4. {Append(p, x)[i] : i \in DOMAIN Append(p, x)} = {p[i] : i \in DOMAIN p} \cup {x}
  BY ZenonT(30), <1>3
<1>5. Lines(t)' = {Append(p, x)[i] : i \in DOMAIN Append(p, x)}
  BY <1>1, <1>2 DEF Lines
<1>6. Lines(t) = {p[i] : i \in DOMAIN p}
  BY <1>2 DEF Lines
<1> QED
  BY Zenon, <1>4, <1>5, <1>6

\* The line a dump prints is of the slot whose generation it has; a stale one
\* is of no slot any more.
LEMMA WriteShows ==
  ASSUME DumpInv, NEW t \in Thread, DumpWrite(t), NEW stale \in BOOLEAN,
         NEW x, x = Line(t, stale)
  PROVE  /\ x \in LineType /\ x.gen = got[t] /\ x.gen < write_seq
         /\ \A u \in Thread : Active(u) => seq[u] # x.gen
         /\ \A s \in Slot : gen[s] = x.gen => x.words[1] = data[s][1]
<1> DEFINE c == SlotOf(at[t])
<1>1. /\ WriterTypes /\ DumperTypes /\ Filled /\ Copying /\ Placed
      /\ dpc[t] = "copy" /\ Len(buf[t]) = want[t]
      /\ c \in Slot /\ got[t] \in Nat /\ buf[t] \in Text
  BY Zenon, SlotOfType DEF DumpInv, RingInv, DumpWrite, DumperTypes
<1>2. x \in LineType /\ x.gen = got[t] /\ x.words = buf[t]
  BY ZenonT(30), <1>1 DEF Line, LineType
<1>3. Fresh(t) /\ Copied(t) /\ SlotOf(got[t]) = c
  BY Zenon, <1>1 DEF Copying, Reads, DumpInv, Settling
<1>4. got[t] < write_seq /\ \A u \in Thread : Active(u) => seq[u] # got[t]
  BY Zenon, <1>3 DEF Fresh
<1>5. got[t] < MaxSeq
  BY Zenon, <1>1, <1>4, BelowSeq DEF WriterTypes
<1>6. Published(got[t])
  BY Zenon, <1>1, <1>5, Kinds
<1>7. \A s \in Slot : gen[s] = got[t] => s = c
  BY Zenon, <1>1, <1>3, <1>6 DEF Placed
<1>8. ASSUME gen[c] = got[t] PROVE buf[t][1] = data[c][1]
  <2>1. PICK r \in Record : Holds(c, r)
    BY Zenon, <1>1, <1>6, <1>8 DEF Filled
  <2> HIDE DEF c
  <2>2. Len(buf[t]) = Smaller(CopyLen(r), kDumpCopyMax)
    BY Zenon, <1>1, <1>3, <1>8, <2>1 DEF Copied, Holds, c
  <2>3. 1 \in 1..Len(buf[t])
    BY <2>2, CopyLenType, RingAssumption DEF Smaller
  <2> QED
    BY Zenon, <1>1, <1>3, <1>8, <2>3 DEF Copied, c
<1> QED
  BY Zenon, <1>2, <1>4, <1>7, <1>8

\* A dump reads the slots one after the other and prints what is settled.
LEMMA SettlingDumperStep ==
  ASSUME DumpInv, NEW t \in Thread,
         DumpBegin(t) \/ DumpReturn(t) \/ DumperStep(t),
         UNCHANGED <<ring, writer>>
  PROVE  Settling(t)' /\ Showing(t)'
<1> DEFINE c == SlotOf(at[t])
<1>0. /\ WriterTypes /\ DumperTypes /\ Stamped /\ Filled /\ Placed
      /\ Settling(t) /\ Showing(t)
      /\ c \in Slot /\ at[t] \in Nat /\ write_seq \in Nat
      /\ DOMAIN last = Thread /\ DOMAIN settled = Thread
  BY Zenon, SlotOfType DEF DumpInv, RingInv, WriterTypes, DumperTypes
<1> HIDE DEF c
<1>1. UNCHANGED <<write_seq, gen, len, data, wpc, seq>>
  BY Zenon DEF ring, writer
<1>2. ASSUME UNCHANGED printed PROVE Lines(t)' = Lines(t)
  BY Zenon, <1>2 DEF Lines
<1>3. ASSUME Lines(t)' \subseteq Lines(t) PROVE Showing(t)'
  BY Zenon, <1>0, <1>1, <1>3 DEF Showing, Active
<1>4. CASE DumpBegin(t)
  <2>1. /\ last'[t] = write_seq /\ at'[t] = First(write_seq) /\ dpc'[t] = "gen"
        /\ settled'[t] = {g \in {gen[s] : s \in Slot} : Published(g)}
        /\ UNCHANGED printed
    BY Zenon, <1>0, <1>4 DEF DumpBegin, DumperTypes
  <2>2. \A g \in settled'[t] : g \in Nat /\ Published(g) /\ g < write_seq
    <3>1. \A s \in Slot : /\ gen[s] \in Nat
                          /\ Published(gen[s]) => gen[s] < write_seq
      BY Zenon, <1>0 DEF Stamped, WriterTypes
    <3> QED
      BY Zenon, <2>1, <3>1
  <2>3. \A u \in Thread : Active(u) => seq[u] \notin settled'[t]
    BY Zenon, <1>0, <2>1 DEF Stamped
  <2>4. ASSUME NEW s \in Slot, gen[s] \in settled'[t] PROVE Comes(t, s)'
    <3>1. gen[s] \in Nat /\ gen[s] < write_seq /\ SlotOf(gen[s]) = s
      BY Zenon, <1>0, <2>2, <2>4 DEF Placed
    <3>2. PICK i \in 0..write_seq - 1 : First(write_seq) <= i /\ SlotOf(i) = s
      <4>1. \E i \in 0..write_seq - 1 :
               First(write_seq) <= i /\ SlotOf(i) = SlotOf(gen[s])
        BY ONLY <1>0, <3>1, WindowCovers
      <4> QED
        BY Zenon, <3>1, <4>1
    <3>3. First(write_seq) \in Nat
      BY <1>0, RingAssumption DEF First
    <3>4. ~(i < First(write_seq))
      BY <1>0, <3>2, <3>3
    <3> QED
      BY Zenon, <2>1, <3>2, <3>4 DEF Comes
  <2>5. Settling(t)'
    BY Zenon, <1>1, <2>1, <2>2, <2>3, <2>4 DEF Settling, Reads, Active
  <2> QED
    BY Zenon, <1>2, <1>3, <2>1, <2>5
<1>5. CASE DumpReturn(t)
  <2>1. dpc'[t] = "idle" /\ settled'[t] = {} /\ printed'[t] = <<>>
    BY Zenon, <1>0, <1>5 DEF DumpReturn, DumperTypes
  <2>2. DOMAIN printed'[t] = {}
    BY <2>1
  <2>3. Lines(t)' = {}
    BY Zenon, <2>2 DEF Lines
  <2> QED
    BY Zenon, <1>3, <2>1, <2>3 DEF Settling, Reads
<1>6. CASE DumpLoadGen(t) \/ DumpEnd(t) \/ DumpLoadWord(t) \/ (DumpLoadLen(t) /\ len[c] # 0)
  <2>1. /\ UNCHANGED <<last, at, printed, settled>> /\ dpc[t] # "idle"
        /\ \/ /\ dpc[t] = "gen" /\ at[t] < last[t] /\ dpc'[t] = "len"
              /\ got'[t] = gen[c] /\ Published(gen[c])
           \/ dpc[t] = "gen" /\ dpc'[t] = "done" /\ at[t] = last[t]
           \/ Reads(t) /\ Reads(t)' /\ got'[t] = got[t]
    BY Zenon, <1>0, <1>6
       DEF DumpLoadGen, DumpEnd, DumpLoadWord, DumpLoadLen, DumperTypes, Reads, c
  <2>2. \A s \in Slot : Comes(t, s) => Comes(t, s)'
    BY Zenon, <1>1, <2>1 DEF Comes, Shown, Lines
  <2>3. Published(gen[c]) => SlotOf(gen[c]) = c
    BY Zenon, <1>0 DEF Placed
  <2>4. Settling(t)'
    BY Zenon, <1>0, <1>1, <2>1, <2>2, <2>3 DEF Settling, Reads, Active, c
  <2> QED
    BY Zenon, <1>2, <1>3, <2>1, <2>4
<1>7. CASE DumpSkip(t) \/ (DumpLoadLen(t) /\ len[c] = 0)
  <2>1. NextSlot(t) /\ dpc[t] # "idle" /\ UNCHANGED <<last, settled, printed>>
    BY Zenon, <1>7 DEF DumpSkip, DumpLoadLen, c
  <2>2. gen[c] \notin settled[t]
    <3>1. CASE ~Published(gen[c])
      BY Zenon, <1>0, <3>1 DEF Settling
    <3>2. CASE len[c] = 0 /\ Published(gen[c])
      <4>1. PICK r \in Record : len[c] = CopyLen(r)
        BY Zenon, <1>0, <3>2 DEF Filled, Holds
      <4>2. CopyLen(r) # 0
        BY CopyLenType
      <4> QED
        BY Zenon, <3>2, <4>1, <4>2
    <3> QED
      BY Zenon, <1>7, <3>1, <3>2 DEF DumpSkip, c
  <2>3. Settling(t)'
    BY Zenon, <1>0, <1>2, <2>1, <2>2, Onward DEF c
  <2> QED
    BY Zenon, <1>2, <1>3, <2>1, <2>3
<1>8. CASE DumpWrite(t)
  <2>1. NextSlot(t) /\ dpc[t] # "idle" /\ Reads(t) /\ UNCHANGED <<last, settled>>
    BY Zenon, <1>8 DEF DumpWrite, Reads
  <2>2. ASSUME NEW stale \in BOOLEAN, NEW x, x = Line(t, stale),
               printed' = [printed EXCEPT ![t] = Append(printed[t], x)]
        PROVE  /\ x.gen = got[t] /\ Lines(t)' = Lines(t) \cup {x}
               /\ Showing(t)'
    <3>1. /\ x \in LineType /\ x.gen = got[t] /\ x.gen < write_seq
          /\ \A u \in Thread : Active(u) => seq[u] # x.gen
          /\ \A s \in Slot : gen[s] = x.gen => x.words[1] = data[s][1]
      BY ONLY DumpInv, t \in Thread, <1>8, <2>2, WriteShows
    <3>2. Lines(t)' = Lines(t) \cup {x}
      BY Zenon, <1>0, <2>2, <3>1, LinesAppend
    <3>3. Showing(t)'
      BY Zenon, <1>0, <1>1, <3>1, <3>2 DEF Showing, Active
    <3> QED
      BY Zenon, <3>1, <3>2, <3>3
  <2>3. CASE Unchanged(t)
    <3>1. PICK x : x = Line(t, FALSE)
      BY Zenon
    <3>2. printed' = [printed EXCEPT ![t] = Append(printed[t], x)]
      BY Zenon, <1>8, <2>3, <3>1 DEF DumpWrite
    <3>3. x.gen = gen[c] /\ Lines(t)' = Lines(t) \cup {x} /\ Showing(t)'
      BY Zenon, <2>2, <2>3, <3>1, <3>2 DEF Unchanged, c
    <3>4. \A s \in Slot : s = c => Shown(t, gen[s])'
      BY Zenon, <1>1, <3>3 DEF Shown
    <3>5. Settling(t)'
      BY Zenon, <1>0, <2>1, <3>3, <3>4, Onward DEF c
    <3> QED
      BY Zenon, <3>3, <3>5
  <2>4. CASE ~Unchanged(t)
    <3>1. Lines(t) \subseteq Lines(t)' /\ Showing(t)'
      <4>1. CASE UNCHANGED printed
        BY Zenon, <1>2, <1>3, <4>1
      <4>2. CASE printed' = [printed EXCEPT ![t] = Append(printed[t], Line(t, TRUE))]
        BY Zenon, <2>2, <4>2
      <4> QED
        BY Zenon, <1>8, <2>4, <4>1, <4>2 DEF DumpWrite
    <3>2. gen[c] \notin settled[t]
      BY Zenon, <1>0, <2>1, <2>4 DEF Settling, Unchanged, c
    <3>3. Settling(t)'
      BY Zenon, <1>0, <2>1, <3>1, <3>2, Onward DEF c
    <3> QED
      BY Zenon, <3>1, <3>3
  <2> QED
    BY Zenon, <2>3, <2>4
<1> QED
  BY Zenon, <1>4, <1>5, <1>6, <1>7, <1>8 DEF DumperStep

\* At first nothing is settled and nothing is printed.
LEMMA InitDump == RingInit => DumpInv
<1> SUFFICES ASSUME RingInit PROVE DumpInv
  BY Zenon
<1>1. RingInv
  BY Zenon, InitInv
<1>2. Placed
  BY Zenon, Kinds DEF RingInit, Placed
<1>3. last \in [Thread -> Nat] /\ settled \in [Thread -> SUBSET Nat]
  BY DEF RingInit
<1>4. ASSUME NEW t \in Thread PROVE Settling(t) /\ Showing(t)
  <2>1. /\ settled[t] = {} /\ dpc[t] = "idle" /\ printed[t] = <<>>
    BY Zenon DEF RingInit
  <2>2. DOMAIN printed[t] = {}
    BY <2>1
  <2>3. Lines(t) = {}
    BY Zenon, <2>2 DEF Lines
  <2> QED
    BY Zenon, <2>1, <2>3 DEF Settling, Showing, Reads
<1> QED
  BY Zenon, <1>1, <1>2, <1>3, <1>4 DEF DumpInv

\* A thread's dump is nobody else's business.
LEMMA DumpKept ==
  ASSUME NEW d \in Thread, Settling(d), Showing(d), UNCHANGED <<ring, writer>>,
         dpc'[d] = dpc[d], last'[d] = last[d], at'[d] = at[d], got'[d] = got[d],
         printed'[d] = printed[d], settled'[d] = settled[d]
  PROVE  Settling(d)' /\ Showing(d)'
<1>1. UNCHANGED <<write_seq, gen, data, wpc, seq>>
  BY Zenon DEF ring, writer
<1>2. Lines(d)' = Lines(d)
  BY Zenon DEF Lines
<1>3. \A s \in Slot : Comes(d, s)' <=> Comes(d, s)
  BY Zenon, <1>1, <1>2 DEF Comes, Shown
<1>4. Settling(d)'
  BY Zenon, <1>1, <1>3 DEF Settling, Reads, Active
<1>5. Showing(d)'
  BY Zenon, <1>1, <1>2 DEF Showing, Active
<1> QED
  BY Zenon, <1>4, <1>5

\* The invariant of dumps is inductive.
LEMMA DumpStep == DumpInv /\ [RingNext]_ringvars => DumpInv'
<1> SUFFICES ASSUME DumpInv, [RingNext]_ringvars PROVE DumpInv'
  BY Zenon
<1>0. /\ RingInv /\ Placed /\ WriterTypes /\ DumperTypes
      /\ last \in [Thread -> Nat] /\ settled \in [Thread -> SUBSET Nat]
      /\ \A d \in Thread : Settling(d) /\ Showing(d)
  BY Zenon DEF DumpInv, RingInv
<1>1. RingInv'
  BY Zenon, <1>0, RingStep
<1>2. ASSUME NEW t \in Thread, (\E r \in Record : Submit(t, r)) \/ WriterStep(t)
      PROVE  DumpInv'
  <2>1. UNCHANGED dumper
    BY Zenon, <1>2 DEF Submit, WriterStep, LoadGen, LoadOwned, Claim, ClaimLost,
                StoreWord, StoreLen, Publish
  <2>2. last' \in [Thread -> Nat] /\ settled' \in [Thread -> SUBSET Nat]
    BY Zenon, <1>0, <2>1 DEF dumper
  <2> QED
    BY Zenon, <1>1, <1>2, <2>1, <2>2, SettlingWriterStep DEF DumpInv
<1>3. ASSUME NEW t \in Thread, DumpBegin(t) \/ DumpReturn(t) \/ DumperStep(t)
      PROVE  DumpInv'
  <2>1. UNCHANGED <<ring, writer>>
    BY Zenon, <1>3 DEF DumpBegin, DumpReturn, DumperStep, DumpLoadGen, DumpSkip,
                DumpLoadLen, DumpLoadWord, DumpWrite, DumpEnd
  <2>2. Placed'
    BY Zenon, <1>0, <2>1 DEF Placed, ring
  <2>3. last' \in [Thread -> Nat] /\ settled' \in [Thread -> SUBSET Nat]
    <3>1. CASE DumpBegin(t)
      <4>1. {g \in {gen[s] : s \in Slot} : Published(g)} \in SUBSET Nat
        BY Zenon, <1>0 DEF WriterTypes
      <4> QED
        BY Zenon, <1>0, <3>1, <4>1 DEF DumpBegin, WriterTypes
    <3>2. CASE DumpReturn(t)
      BY <1>0, <3>2 DEF DumpReturn
    <3>3. CASE DumperStep(t)
      BY Zenon, <1>0, <3>3 DEF DumperStep, DumpLoadGen, DumpSkip, DumpLoadLen,
                  DumpLoadWord, DumpWrite, DumpEnd
    <3> QED
      BY Zenon, <1>3, <3>1, <3>2, <3>3
  <2>4. ASSUME NEW d \in Thread, d # t
        PROVE  /\ dpc'[d] = dpc[d] /\ last'[d] = last[d] /\ at'[d] = at[d]
               /\ got'[d] = got[d] /\ printed'[d] = printed[d]
               /\ settled'[d] = settled[d]
    <3>1. dpc'[d] = dpc[d] /\ at'[d] = at[d] /\ got'[d] = got[d]
      BY Zenon, <1>0, <1>3, <2>4
         DEF DumpBegin, DumpReturn, DumperStep, DumpLoadGen, DumpSkip, DumpLoadLen,
             DumpLoadWord, DumpWrite, DumpEnd, NextSlot, DumperTypes
    <3>2. CASE DumpBegin(t) \/ DumpReturn(t)
      BY Zenon, <1>0, <2>4, <3>1, <3>2 DEF DumpBegin, DumpReturn, DumperTypes
    <3>3. CASE DumperStep(t)
      <4>1. UNCHANGED <<last, settled>> /\ (DumpWrite(t) \/ UNCHANGED printed)
        BY Zenon, <3>3 DEF DumperStep, DumpLoadGen, DumpSkip, DumpLoadLen,
                    DumpLoadWord, DumpWrite, DumpEnd
      <4>2. DumpWrite(t) => printed'[d] = printed[d]
        BY Zenon, <1>0, <2>4 DEF DumpWrite, DumperTypes
      <4> QED
        BY Zenon, <3>1, <4>1, <4>2
    <3> QED
      BY Zenon, <1>3, <3>2, <3>3
  <2>5. Settling(t)' /\ Showing(t)'
    BY Zenon, <1>3, <2>1, SettlingDumperStep
  <2>6. ASSUME NEW d \in Thread, d # t PROVE Settling(d)' /\ Showing(d)'
    BY Zenon, <1>0, <2>1, <2>4, <2>6, DumpKept
  <2> QED
    BY Zenon, <1>1, <2>2, <2>3, <2>5, <2>6 DEF DumpInv
<1>4. CASE UNCHANGED ringvars
  <2>1. UNCHANGED <<ring, writer>> /\ UNCHANGED <<dpc, last, at, got, printed, settled>>
    BY Zenon, <1>4 DEF ringvars, dumper
  <2>2. Placed' /\ last' \in [Thread -> Nat] /\ settled' \in [Thread -> SUBSET Nat]
    BY Zenon, <1>0, <2>1 DEF Placed, ring
  <2>3. \A d \in Thread : Settling(d)' /\ Showing(d)'
    BY Zenon, <1>0, <2>1, DumpKept
  <2> QED
    BY Zenon, <1>1, <2>2, <2>3 DEF DumpInv
<1> QED
  BY Zenon, <1>2, <1>3, <1>4 DEF RingNext

\* A dump that is over has printed what was settled and is in its slot still.
LEMMA SettledShown ==
  ASSUME DumpInv, NEW t \in Thread, dpc[t] = "done",
         NEW s \in Slot, gen[s] \in settled[t]
  PROVE  Shown(t, gen[s])
<1>1. Comes(t, s) /\ at[t] = last[t] /\ last[t] \in Nat
  BY Zenon DEF DumpInv, Settling
<1>2. PICK i \in 0..last[t] - 1 : i < last[t] => Shown(t, gen[s])
  BY Zenon, <1>1 DEF Comes
<1>3. i < last[t]
  BY <1>1
<1> QED
  BY Zenon, <1>2, <1>3

\* Writers claim and publish slots while a dump goes through them, and still
\* it prints every record that was published when it began and whose slot
\* nobody has claimed since.
THEOREM DumpComplete == RingSpec => []DumpMissesNothingSettled
<1>1. ASSUME DumpInv PROVE DumpMissesNothingSettled
  <2>1. ASSUME NEW t \in Thread, dpc[t] = "done", NEW s \in Slot,
               gen[s] \in settled[t]
        PROVE  \E i \in DOMAIN printed[t] : printed[t][i].gen = gen[s]
    BY ZenonT(30), <1>1, <2>1, SettledShown DEF Shown, Lines
  <2> QED
    BY Zenon, <2>1 DEF DumpMissesNothingSettled
<1> QED
  BY <1>1, InitDump, DumpStep, PTL DEF RingSpec

-----------------------------------------------------------------------------
(***************************************************************************)
(* The Logger: what it gives to the ring are records, so its steps are     *)
(* steps of the ring.                                                      *)
(***************************************************************************)
Logged ==
    /\ queue \in Seq(Record) /\ batch \in Seq(Record)
    /\ DOMAIN lpc = Thread /\ DOMAIN log = Thread
    /\ \A t \in Thread : lpc[t] \in {"snapshot", "submit"} => log[t] \in Record
    /\ lpc[worker] \notin {"snapshot", "submit"}
    /\ lpc[worker] = "ring" => batch # <<>>

\* Nothing else is queued, delivered or submitted.
LEMMA LoggedStep == Logged /\ [Next]_vars => Logged'
<1> SUFFICES ASSUME Logged, [Next]_vars PROVE Logged'
  BY Zenon
<1> USE LoggerAssumption DEF Logged, Caller
<1>1. ASSUME NEW t \in Thread, Dispatch(t) PROVE Logged'
  BY <1>1 DEF Dispatch, Goes, async
<1>2. ASSUME NEW t \in Thread, Snapshot(t) \/ SubmitRing(t) \/ FatalFlush(t)
      PROVE Logged'
  BY Zenon, <1>2 DEF Snapshot, SubmitRing, FatalFlush, Goes, async
<1>3. ASSUME NEW t \in Thread, SubmitNowhere(t) \/ RingReturns(t) PROVE Logged'
  BY Zenon, <1>3 DEF SubmitNowhere, RingReturns, Submitted, Goes
<1>4. ASSUME NEW t \in Thread, SubmitQueue(t) PROVE Logged'
  <2>1. log[t] \in Record
    BY Zenon, <1>4 DEF SubmitQueue, Submitted, Goes
  <2>2. queue' \in Seq(Record) /\ UNCHANGED batch
    BY <1>4, <2>1 DEF SubmitQueue, Submitted
  <2> QED
    BY Zenon, <1>4, <2>2 DEF SubmitQueue, Submitted, Goes
<1>5. ASSUME NEW t \in Thread, Write(t) \/ Dump(t) \/ HandlerEnds(t) PROVE Logged'
  BY Zenon, <1>5 DEF Write, Dump, HandlerEnds, calls, async
<1>6. ASSUME NEW t \in Thread, Abort(t) \/ Fault(t) PROVE Logged'
  BY Zenon, <1>6 DEF Abort, Fault, async
<1>7. CASE WorkerTake \/ WorkerExit
  BY Zenon, <1>7 DEF WorkerTake, WorkerExit, calls
<1>8. CASE WorkerDeliver \/ (\E u \in Thread : Sticks(u))
  BY Zenon, <1>8 DEF WorkerDeliver, Sticks, Goes, async, calls
<1>9. CASE WorkerDelivered
  <2>1. batch # <<>> /\ batch' = Tail(batch) /\ UNCHANGED <<queue, log>>
    BY Zenon, <1>9 DEF WorkerDelivered, Goes
  <2>2. batch' \in Seq(Record)
    BY <2>1
  <2> QED
    BY Zenon, <1>9, <2>1, <2>2 DEF WorkerDelivered, Goes
<1>10. CASE Main
  BY Zenon, <1>10 DEF Main, InitBegin, InitRing, InitSinks, InitHandlers, Shutdown,
               StopBegin, StopJoin, Goes, async
<1>11. CASE UNCHANGED vars
  BY Zenon, <1>11 DEF vars, async, calls
<1> QED
  BY Zenon, <1>1, <1>2, <1>3, <1>4, <1>5, <1>6, <1>7, <1>8, <1>9, <1>10, <1>11
     DEF Next, Proceeds, WorkerStep

\* A step of the Logger is one of submit(), one of a dump, or neither.
LEMMA RingSteps ==
  ASSUME Logged, Next
  PROVE  \/ /\ UNCHANGED log
            /\ \E u \in Thread : (\E r \in Record : Submit(u, r)) \/ WriterStep(u)
         \/ /\ UNCHANGED log
            /\ \E u \in Thread : DumpBegin(u) \/ DumpReturn(u) \/ DumperStep(u)
         \/ UNCHANGED ringvars
<1>1. ASSUME NEW t \in Thread, SubmitRing(t)
      PROVE  UNCHANGED log /\ \E r \in Record : Submit(t, r)
  BY Zenon, <1>1 DEF SubmitRing, Goes, Logged
<1>2. CASE WorkerDeliver
  <2>1. Head(batch) \in Record
    BY <1>2 DEF WorkerDeliver, Logged
  <2> QED
    BY Zenon, <1>2, <2>1, LoggerAssumption DEF WorkerDeliver
<1>3. ASSUME NEW t \in Thread, Write(t) \/ Dump(t)
      PROVE  /\ UNCHANGED log
             /\ WriterStep(t) \/ DumpBegin(t) \/ DumperStep(t)
  BY Zenon, <1>3 DEF Write, Dump, calls
<1>4. ASSUME NEW t \in Thread, Abort(t) \/ HandlerEnds(t)
      PROVE  (UNCHANGED log /\ DumpReturn(t)) \/ UNCHANGED ringvars
  BY Zenon, <1>4 DEF Abort, HandlerEnds, DumpOver, calls
<1>5. ASSUME NEW t \in Thread,
             \/ Dispatch(t) \/ Snapshot(t) \/ SubmitNowhere(t) \/ SubmitQueue(t)
             \/ RingReturns(t) \/ FatalFlush(t) \/ Fault(t) \/ Sticks(t)
      PROVE  UNCHANGED ringvars
  BY Zenon, <1>5 DEF Dispatch, Snapshot, SubmitNowhere, SubmitQueue, RingReturns,
              FatalFlush, Fault, Sticks
<1>6. CASE WorkerTake \/ WorkerDelivered \/ WorkerExit \/ Main
  BY Zenon, <1>6 DEF WorkerTake, WorkerDelivered, WorkerExit, Main, InitBegin,
              InitRing, InitSinks, InitHandlers, Shutdown, StopBegin,
              StopJoin
<1> QED
  BY Zenon, <1>1, <1>2, <1>3, <1>4, <1>5, <1>6 DEF Next, Proceeds, WorkerStep

\* So every step of the Logger is one of the ring, or none.
LEMMA RingStepOf == Logged /\ [Next]_vars => [RingNext]_ringvars
<1>1. CASE UNCHANGED vars
  BY Zenon, <1>1 DEF vars
<1> QED
  BY Zenon, <1>1, RingSteps DEF RingNext

\* The Logger implements the ring's specification: through dispatch(), the
\* worker, the fatal path and the signal handlers, the ring sees a submit() or
\* a dump at a time from each thread.
THEOREM LoggerImplementsRing == Spec => RingSpec
<1>1. Init => Logged /\ RingInit
  BY LoggerAssumption DEF Init, Logged
<1> QED
  BY <1>1, LoggedStep, RingStepOf, PTL DEF Spec, RingSpec

\* The same of what the fatal path and the crash handlers dump: of its lines,
\* only one that such a load let through can be torn.
THEOREM LoggerDumpsWhole == Spec => []NoTornRecord
  BY LoggerImplementsRing, RingSafe, PTL

\* Nor do threads that log, the worker among them, fill one slot together.
THEOREM LoggerOneWriter == Spec => []OneWriterPerSlot
  BY LoggerImplementsRing, RingSafe, PTL

\* Nor do they miss a record that was in the ring when they began.
THEOREM LoggerDumpsSettled == Spec => []DumpMissesNothingSettled
  BY LoggerImplementsRing, DumpComplete, PTL

-----------------------------------------------------------------------------
(***************************************************************************)
(* The fatal record.  Every record goes into the ring once: it is in the   *)
(* hands of its thread, then queued, then in the worker's hands, or is     *)
(* handed over by the thread itself.                                       *)
(***************************************************************************)
Elems(q) == {q[i] : i \in DOMAIN q}
Distinct(q) == \A i, j \in DOMAIN q : q[i] = q[j] => i = j
Entered == through \cup Elems(queue) \cup Elems(batch)

CallTypes ==
    /\ sinks \in SinkLists /\ list \in [Thread -> SinkLists]
    /\ DOMAIN lpc = Thread /\ DOMAIN log = Thread
    /\ count \in [Thread -> Nat] /\ met \in [Thread -> BOOLEAN]

\* The three places are apart, and hold records that were dispatched.
Apart ==
    /\ Distinct(queue) /\ Distinct(batch)
    /\ Elems(queue) \cap Elems(batch) = {}
    /\ through \cap (Elems(queue) \cup Elems(batch)) = {}
    /\ \A r \in Entered : \A t \in Caller : r[1] = t => r[2] \in 0..count[t]

\* The record thread t hands over has its number and is in none of them.
Own(t) == log[t] = <<t, count[t]>> /\ log[t] \notin Entered

Handing ==
    /\ \A t \in Caller :
           /\ lpc[t] \in {"snapshot", "submit", "ring"} => Own(t)
           /\ Active(t) => /\ lpc[t] \in {"ring", "handler"}
                           /\ rec[t] = log[t] /\ Own(t)
    /\ Active(worker) => /\ lpc[worker] \in {"ring", "handler"}
                         /\ batch # <<>> /\ rec[worker] = Head(batch)

\* The flush of the fatal path met its deadline, behind a ring.
Met(t) == lpc[t] = "dump" /\ met[t] /\ list[t] # "initial"

\* What the ring holds of thread t's record is settled for t's dump.
SettledFor(t) ==
    dpc[t] # "idle" =>
        \A s \in Slot : Published(gen[s]) /\ data[s][1] = log[t]
                            => gen[s] \in settled[t]

\* A fatal record is on its way, then through, then settled for the dump.
FatalPath(t) ==
    /\ lpc[t] \notin {"dump", "handler"} => ~met[t] /\ dpc[t] = "idle"
    /\ lpc[t] \in {"flush", "dump"} /\ list[t] # "initial" =>
          /\ log[t] \in Entered
          /\ list[t] = "ring" => log[t] \in through
    /\ Met(t) => log[t] \in through /\ SettledFor(t)

FatalInv ==
    /\ Logged /\ CallTypes /\ Apart /\ Handing
    /\ \A t \in Caller : FatalPath(t)

\* What is in a sequence: an empty one, ...
LEMMA ElemsEmpty == Elems(<<>>) = {} /\ Distinct(<<>>)
  BY DEF Elems, Distinct

\* ... one more at its end ...
LEMMA ElemsAppend ==
  ASSUME NEW q \in Seq(Record), NEW e \in Record
  PROVE  /\ Elems(Append(q, e)) = Elems(q) \cup {e}
         /\ Distinct(q) /\ e \notin Elems(q) => Distinct(Append(q, e))
<1>1. PICK a, n : /\ a = Append(q, e) /\ DOMAIN a = DOMAIN q \cup {n}
                  /\ n \notin DOMAIN q /\ a[n] = e
                  /\ \A i \in DOMAIN q : a[i] = q[i]
  <2>1. /\ DOMAIN Append(q, e) = DOMAIN q \cup {Len(q) + 1}
        /\ Len(q) + 1 \notin DOMAIN q /\ Append(q, e)[Len(q) + 1] = e
        /\ \A i \in DOMAIN q : Append(q, e)[i] = q[i]
    OBVIOUS
  <2> QED
    BY Zenon, <2>1
<1>2. Elems(a) = Elems(q) \cup {e}
  BY <1>1 DEF Elems
<1>3. ASSUME Distinct(q), e \notin Elems(q) PROVE Distinct(a)
  <2> SUFFICES ASSUME NEW i \in DOMAIN a, NEW j \in DOMAIN a, a[i] = a[j]
               PROVE  i = j
    BY Zenon DEF Distinct
  <2>1. \A k \in DOMAIN q : q[k] # e
    BY Zenon, <1>3 DEF Elems
  <2> QED
    BY Zenon, <1>1, <1>3, <2>1 DEF Distinct
<1> QED
  BY Zenon, <1>1, <1>2, <1>3

\* ... and without its head.
LEMMA ElemsTail ==
  ASSUME NEW q \in Seq(Record), q # <<>>
  PROVE  /\ Elems(q) = Elems(Tail(q)) \cup {Head(q)}
         /\ Distinct(q) => Distinct(Tail(q)) /\ Head(q) \notin Elems(Tail(q))
<1>1. PICK a, h :
        /\ a = Tail(q) /\ h = Head(q) /\ 1 \in DOMAIN q /\ h = q[1]
        /\ \A i \in DOMAIN a : /\ i + 1 \in DOMAIN q /\ a[i] = q[i + 1]
                               /\ i \in Int /\ i + 1 # 1
        /\ \A i \in DOMAIN q : i = 1 \/ (i - 1 \in DOMAIN a /\ a[i - 1] = q[i])
  <2>1. /\ 1 \in DOMAIN q /\ Head(q) = q[1]
        /\ \A i \in DOMAIN Tail(q) :
              /\ i + 1 \in DOMAIN q /\ Tail(q)[i] = q[i + 1]
              /\ i \in Int /\ i + 1 # 1
        /\ \A i \in DOMAIN q :
              i = 1 \/ (i - 1 \in DOMAIN Tail(q) /\ Tail(q)[i - 1] = q[i])
    OBVIOUS
  <2> QED
    BY Zenon, <2>1
<1>2. ASSUME NEW i \in DOMAIN q PROVE q[i] \in Elems(a) \cup {h}
  <2>1. i = 1 \/ (i - 1 \in DOMAIN a /\ a[i - 1] = q[i])
    BY Zenon, <1>1, <1>2
  <2> QED
    BY Zenon, <1>1, <2>1 DEF Elems
<1>3. ASSUME NEW i \in DOMAIN a PROVE a[i] \in Elems(q)
  <2>1. i + 1 \in DOMAIN q /\ a[i] = q[i + 1]
    BY Zenon, <1>1, <1>3
  <2> QED
    BY Zenon, <2>1 DEF Elems
<1>4. h \in Elems(q)
  BY Zenon, <1>1 DEF Elems
<1>5. ASSUME Distinct(q) PROVE Distinct(a)
  <2> SUFFICES ASSUME NEW i \in DOMAIN a, NEW j \in DOMAIN a, a[i] = a[j]
               PROVE  i = j
    BY Zenon DEF Distinct
  <2>1. i + 1 = j + 1
    <3>1. q[i + 1] = q[j + 1] /\ i + 1 \in DOMAIN q /\ j + 1 \in DOMAIN q
      BY Zenon, <1>1
    <3> QED
      BY Zenon, <1>5, <3>1 DEF Distinct
  <2>2. i \in Int /\ j \in Int
    BY Zenon, <1>1
  <2> QED
    BY <2>1, <2>2
<1>6. ASSUME Distinct(q) PROVE h \notin Elems(a)
  <2> SUFFICES ASSUME NEW i \in DOMAIN a, h = a[i] PROVE FALSE
    BY Zenon DEF Elems
  <2>1. i + 1 \in DOMAIN q /\ q[i + 1] = q[1] /\ i + 1 # 1 /\ 1 \in DOMAIN q
    BY Zenon, <1>1
  <2> QED
    BY Zenon, <1>6, <2>1 DEF Distinct
<1>7. Elems(q) = Elems(a) \cup {h}
  BY Zenon, <1>2, <1>3, <1>4 DEF Elems
<1> QED
  BY Zenon, <1>1, <1>5, <1>6, <1>7

\* The variables of dispatch() keep their types.
LEMMA CallTypesStep == CallTypes /\ [Next]_vars => CallTypes'
<1> SUFFICES ASSUME CallTypes, [Next]_vars PROVE CallTypes'
  BY Zenon
<1> USE DEF CallTypes
<1>1. ASSUME NEW t \in Thread, Dispatch(t) PROVE CallTypes'
  BY <1>1 DEF Dispatch, Goes, config
<1>2. ASSUME NEW t \in Thread, Snapshot(t) \/ SubmitRing(t) PROVE CallTypes'
  BY Zenon, <1>2 DEF Snapshot, SubmitRing, Goes, config
<1>3. ASSUME NEW t \in Thread, FatalFlush(t) PROVE CallTypes'
  BY Zenon, <1>3 DEF FatalFlush, Goes, config
<1>4. ASSUME NEW t \in Thread, SubmitNowhere(t) \/ RingReturns(t) \/ SubmitQueue(t)
      PROVE CallTypes'
  <2>1. \E here \in {"submit", "ring"} : Submitted(t, here)
    BY Zenon, <1>4 DEF SubmitNowhere, RingReturns, SubmitQueue
  <2>2. "initial" \in SinkLists
    BY Zenon DEF SinkLists
  <2>3. UNCHANGED <<sinks, count, met>>
    BY Zenon, <2>1 DEF Submitted, config
  <2>4. DOMAIN lpc' = Thread /\ DOMAIN log' = Thread
    BY Zenon, <2>1 DEF Submitted, Goes
  <2>5. list' \in [Thread -> SinkLists]
    BY Zenon, <2>1, <2>2 DEF Submitted
  <2> QED
    BY Zenon, <2>3, <2>4, <2>5
<1>5. ASSUME NEW t \in Thread, Write(t) \/ Dump(t) \/ HandlerEnds(t) PROVE CallTypes'
  BY Zenon, <1>5 DEF Write, Dump, HandlerEnds, calls, config
<1>6. ASSUME NEW t \in Thread, Abort(t) \/ Fault(t) PROVE CallTypes'
  BY Zenon, <1>6 DEF Abort, Fault
<1>7. CASE WorkerTake \/ WorkerExit
  BY Zenon, <1>7 DEF WorkerTake, WorkerExit, calls, config
<1>8. CASE WorkerDeliver \/ WorkerDelivered \/ (\E u \in Thread : Sticks(u))
  BY Zenon, <1>8 DEF WorkerDeliver, WorkerDelivered, Sticks, Goes, calls, config
<1>9. CASE InitSinks
  <2>1. sinks' \in SinkLists
    BY Zenon, <1>9 DEF InitSinks, SinkLists
  <2> QED
    BY Zenon, <1>9, <2>1 DEF InitSinks, Goes
<1>10. CASE InitBegin \/ InitRing \/ InitHandlers \/ Shutdown \/ StopBegin \/ StopJoin
  BY Zenon, <1>10 DEF InitBegin, InitRing, InitHandlers, Shutdown, StopBegin,
               StopJoin, Goes, config
<1>11. CASE UNCHANGED vars
  BY Zenon, <1>11 DEF vars, calls, config
<1> QED
  BY Zenon, <1>1, <1>2, <1>3, <1>4, <1>5, <1>6, <1>7, <1>8, <1>9, <1>10, <1>11
     DEF Next, Proceeds, WorkerStep, Main

\* A step inside submit() keeps the record, or ends.
LEMMA WriterKeeps ==
  ASSUME WriterTypes, NEW t \in Thread, WriterStep(t), NEW u \in Thread, Active(u)'
  PROVE  Active(u) /\ rec'[u] = rec[u]
<1>1. CASE LoadOwned(t) \/ ClaimLost(t) \/ Publish(t)
  <2>1. Return(t)
    BY Zenon, <1>1 DEF LoadOwned, ClaimLost, Publish
  <2> QED
    BY Zenon, <2>1 DEF Return, WriterTypes, Active
<1>2. CASE LoadGen(t) \/ Claim(t) \/ StoreWord(t) \/ StoreLen(t)
  BY Zenon, <1>2 DEF LoadGen, Claim, StoreWord, StoreLen, WriterTypes, Active
<1> QED
  BY Zenon, <1>1, <1>2 DEF WriterStep

-----------------------------------------------------------------------------
\* A step of thread t that hands nothing over: it leaves its place in
\* dispatch() alone, or faults, or has the sinks, or is beyond the ring.
Aside(t) ==
    /\ UNCHANGED <<queue, batch, through, count>>
    /\ \A u \in Thread : Active(u)' => Active(u) /\ rec'[u] = rec[u]
    /\ \A u \in Thread : u # t => lpc'[u] = lpc[u] /\ log'[u] = log[u]
    /\ \/ lpc'[t] = lpc[t] /\ log'[t] = log[t]
       \/ lpc'[t] = "handler" /\ log'[t] = log[t]
       \/ lpc[t] = "snapshot" /\ lpc'[t] = "submit" /\ log'[t] = log[t]
       \/ /\ lpc[t] \notin {"ring", "handler"}
          /\ lpc'[t] \notin {"snapshot", "submit", "ring"}

\* Every record stays where it is.
Handed == Apart' /\ Handing' /\ through \subseteq through' /\ Entered \subseteq Entered'

\* A step aside moves no record.
LEMMA AsideStep ==
  ASSUME Apart, Handing, NEW t \in Thread, Aside(t)
  PROVE  Handed
<1>1. UNCHANGED <<queue, batch, through, count>> /\ Entered' = Entered
  BY Zenon DEF Aside, Entered
<1>2. Apart'
  BY Zenon, <1>1 DEF Apart
<1>3. \A u \in Thread : Active(u)' => Active(u) /\ rec'[u] = rec[u]
  BY Zenon DEF Aside
<1>4. \A u \in Caller : Own(u) /\ log'[u] = log[u] => Own(u)'
  BY Zenon, <1>1 DEF Own
<1>5. ASSUME NEW u \in Caller
      PROVE  /\ lpc'[u] \in {"snapshot", "submit", "ring"} => Own(u)'
             /\ Active(u)' => /\ lpc'[u] \in {"ring", "handler"}
                              /\ rec'[u] = log'[u] /\ Own(u)'
  <2>1. u \in Thread
    BY Zenon DEF Caller
  <2>2. CASE lpc'[u] = lpc[u] /\ log'[u] = log[u]
    BY Zenon, <1>3, <1>4, <2>1, <2>2 DEF Handing
  <2>3. CASE u = t
    BY Zenon, <1>3, <1>4, <2>1, <2>2, <2>3 DEF Handing, Aside
  <2> QED
    BY Zenon, <2>1, <2>2, <2>3 DEF Aside
<1>6. Active(worker)' => /\ lpc'[worker] \in {"ring", "handler"}
                         /\ batch' # <<>> /\ rec'[worker] = Head(batch')
  BY Zenon, <1>1, <1>3, LoggerAssumption DEF Handing, Aside
<1>7. Handing'
  BY Zenon, <1>5, <1>6 DEF Handing
<1> QED
  BY Zenon, <1>1, <1>2, <1>7 DEF Handed

\* Dispatching, handing over to the worker, flushing, dumping, crashing,
\* starting and stopping are such steps.
LEMMA AsideSteps ==
  ASSUME WriterTypes, CallTypes, NEW t \in Thread,
         \/ Snapshot(t) \/ SubmitNowhere(t) \/ Write(t) \/ FatalFlush(t)
         \/ Dump(t) \/ Abort(t) \/ HandlerEnds(t) \/ Fault(t)
  PROVE  Aside(t)
<1> USE DEF CallTypes
<1>1. ASSUME UNCHANGED <<wpc, rec>>
      PROVE  \A u \in Thread : Active(u)' => Active(u) /\ rec'[u] = rec[u]
  BY Zenon, <1>1 DEF Active
<1>2. CASE Snapshot(t) \/ FatalFlush(t)
  <2>1. UNCHANGED <<wpc, rec, queue, batch, through, count>>
    BY Zenon, <1>2 DEF Snapshot, FatalFlush, ringvars, writer, async
  <2> QED
    BY Zenon, <1>1, <1>2, <2>1 DEF Snapshot, FatalFlush, Goes, Aside
<1>3. CASE SubmitNowhere(t)
  <2>1. UNCHANGED <<wpc, rec, queue, batch, through, count>>
    BY Zenon, <1>3 DEF SubmitNowhere, Submitted, ringvars, writer
  <2>2. /\ lpc[t] = "submit" /\ lpc'[t] \in {"flush", "idle"}
        /\ \A u \in Thread : u # t => lpc'[u] = lpc[u] /\ log'[u] = log[u]
    BY Zenon, <1>3 DEF SubmitNowhere, Submitted, Goes
  <2> QED
    BY Zenon, <1>1, <2>1, <2>2 DEF Aside
<1>4. CASE Write(t)
  <2>1. UNCHANGED <<queue, batch, through, count, lpc, log>> /\ WriterStep(t)
    BY Zenon, <1>4 DEF Write, async, calls
  <2> QED
    BY Zenon, <2>1, WriterKeeps DEF Aside
<1>5. CASE Dump(t) \/ HandlerEnds(t)
  <2>1. UNCHANGED <<queue, batch, through, count, lpc, log>>
    BY Zenon, <1>5 DEF Dump, HandlerEnds, async, calls
  <2>2. UNCHANGED writer
    BY Zenon, <1>5 DEF Dump, HandlerEnds, DumpOver, DumpBegin, DumpReturn,
                DumperStep, DumpLoadGen, DumpSkip, DumpLoadLen, DumpLoadWord,
                DumpWrite, DumpEnd, ringvars
  <2>3. UNCHANGED <<wpc, rec>>
    BY Zenon, <2>2 DEF writer
  <2> QED
    BY Zenon, <1>1, <2>1, <2>3 DEF Aside
<1>6. CASE Abort(t) \/ Fault(t)
  <2>1. UNCHANGED <<queue, batch, through, count, log>>
    BY Zenon, <1>6 DEF Abort, Fault, async
  <2>2. UNCHANGED writer
    BY Zenon, <1>6 DEF Abort, Fault, DumpOver, DumpReturn, ringvars
  <2>3. UNCHANGED <<wpc, rec>>
    BY Zenon, <2>2 DEF writer
  <2> QED
    BY Zenon, <1>1, <1>6, <2>1, <2>3 DEF Abort, Fault, Aside
<1> QED
  BY Zenon, <1>2, <1>3, <1>4, <1>5, <1>6

\* The worker's and the main thread's steps without a record, and a write that
\* does not return.
LEMMA AsideAlone ==
  ASSUME CallTypes,
         WorkerExit \/ (\E t \in Thread : Sticks(t)) \/ Main \/ UNCHANGED vars
  PROVE  Aside(worker) \/ Aside(main)
<1> USE LoggerAssumption DEF CallTypes, Caller
<1>1. UNCHANGED <<wpc, rec, queue, batch, through, count, log>>
  BY Zenon DEF WorkerExit, Sticks, Main, InitBegin, InitRing, InitSinks,
         InitHandlers, Shutdown, StopBegin, StopJoin, vars, ringvars, writer,
         async, calls
<1>2. \A u \in Thread : Active(u)' => Active(u) /\ rec'[u] = rec[u]
  BY Zenon, <1>1 DEF Active
<1>3. CASE WorkerExit \/ (\E t \in Thread : Sticks(t)) \/ UNCHANGED vars
  <2>1. UNCHANGED lpc
    BY Zenon, <1>3 DEF WorkerExit, Sticks, vars, calls
  <2> QED
    BY Zenon, <1>1, <1>2, <2>1 DEF Aside
<1>4. CASE Main
  <2>1. /\ lpc[main] \notin {"ring", "handler"}
        /\ lpc'[main] \notin {"snapshot", "submit", "ring"}
        /\ \A u \in Thread : u # main => lpc'[u] = lpc[u]
    BY Zenon, <1>4 DEF Main, InitBegin, InitRing, InitSinks, InitHandlers,
           Shutdown, StopBegin, StopJoin, Goes
  <2> QED
    BY Zenon, <1>1, <1>2, <2>1 DEF Aside
<1> QED
  BY Zenon, <1>3, <1>4

\* A thread dispatches a record of its own that is nowhere yet.
LEMMA DispatchHands ==
  ASSUME CallTypes, Apart, Handing, NEW t \in Thread, Dispatch(t)
  PROVE  Handed
<1>1. /\ t \in Caller /\ lpc[t] = "idle" /\ lpc'[t] = "snapshot"
      /\ log'[t] = <<t, count[t] + 1>> /\ count'[t] = count[t] + 1
      /\ \A u \in Thread : u # t => /\ lpc'[u] = lpc[u] /\ log'[u] = log[u]
                                    /\ count'[u] = count[u]
  BY ZenonT(30) DEF Dispatch, Goes, CallTypes
<1>2. UNCHANGED <<wpc, rec, queue, batch, through>>
  BY Zenon DEF Dispatch, ringvars, writer, async
<1>3. Entered' = Entered
  BY Zenon, <1>2 DEF Entered
<1>4. \A u \in Caller : count[u] \in Nat
  BY Zenon DEF CallTypes, Caller
<1>5. log'[t][1] = t /\ log'[t][2] = count[t] + 1
  <2>1. log'[t] = <<t, count[t] + 1>>
    BY Zenon, <1>1
  <2> QED
    BY ONLY <2>1, SMTT(30)
<1>6. Own(t)'
  <2>1. ASSUME log'[t] \in Entered PROVE FALSE
    <3>1. log'[t][2] \in 0..count[t]
      BY Zenon, <1>1, <1>5, <2>1 DEF Apart
    <3>2. count[t] \in Nat
      BY Zenon, <1>1, <1>4
    <3> QED
      BY ONLY <1>5, <3>1, <3>2, SMTT(30)
  <2> QED
    BY Zenon, <1>1, <1>3, <2>1 DEF Own
<1>7. Apart'
  <2>1. ASSUME NEW r \in Entered, NEW u \in Caller, r[1] = u
        PROVE  r[2] \in 0..count'[u]
    <3>1. r[2] \in 0..count[u]
      BY Zenon, <2>1 DEF Apart
    <3>2. CASE u # t
      BY Zenon, <1>1, <3>1, <3>2 DEF Caller
    <3>3. CASE u = t
      BY <1>1, <1>4, <3>1, <3>3
    <3> QED
      BY Zenon, <3>2, <3>3
  <2> QED
    BY Zenon, <1>2, <1>3, <2>1 DEF Apart
<1>8. Handing'
  <2>1. ASSUME NEW u \in Caller
        PROVE  /\ lpc'[u] \in {"snapshot", "submit", "ring"} => Own(u)'
               /\ Active(u)' => /\ lpc'[u] \in {"ring", "handler"}
                                /\ rec'[u] = log'[u] /\ Own(u)'
    <3>1. CASE u = t
      BY Zenon, <1>1, <1>2, <1>6, <3>1 DEF Handing, Active
    <3>2. CASE u # t
      BY Zenon, <1>1, <1>2, <1>3, <3>2 DEF Handing, Active, Own, Caller
    <3> QED
      BY Zenon, <3>1, <3>2
  <2>2. Active(worker)' => /\ lpc'[worker] \in {"ring", "handler"}
                           /\ batch' # <<>> /\ rec'[worker] = Head(batch')
    BY Zenon, <1>1, <1>2, LoggerAssumption DEF Handing, Active, Caller
  <2> QED
    BY Zenon, <2>1, <2>2 DEF Handing
<1> QED
  BY Zenon, <1>2, <1>3, <1>7, <1>8 DEF Handed

\* Thread t hands its record over: to the queue, or the ring has it.
HandsOver(t) ==
    /\ t \in Caller /\ Own(t) /\ ~Active(t)
    /\ Entered' = Entered \cup {log[t]} /\ through \subseteq through'
    /\ UNCHANGED <<wpc, rec, batch, count>>
    /\ lpc'[t] \notin {"snapshot", "submit", "ring"}
    /\ \A u \in Thread : u # t => lpc'[u] = lpc[u] /\ log'[u] = log[u]
    /\ Distinct(queue)' /\ (Elems(queue) \cap Elems(batch) = {})'
    /\ (through \cap (Elems(queue) \cup Elems(batch)) = {})'

\* A record handed over was nowhere, and nobody else has it.
LEMMA HandsOverStep ==
  ASSUME CallTypes, Apart, Handing, NEW t \in Thread, HandsOver(t)
  PROVE  Handed
<1>1. /\ t \in Caller /\ log[t] = <<t, count[t]>> /\ log[t] \notin Entered
      /\ count[t] \in Nat /\ ~Active(t)
  BY Zenon DEF HandsOver, Own, CallTypes
<1>2. log[t][1] = t /\ log[t][2] = count[t] /\ count[t] \in 0..count[t]
  BY <1>1
<1>3. UNCHANGED <<wpc, rec, batch, count>> /\ Entered' = Entered \cup {log[t]}
  BY Zenon DEF HandsOver
<1>4. ASSUME NEW u \in Caller, u # t, Own(u) PROVE Own(u)'
  <2>1. log[u] # log[t]
    BY <1>1, <1>4 DEF Own
  <2>2. log'[u] = log[u]
    BY Zenon, <1>4 DEF HandsOver, Caller
  <2> QED
    BY Zenon, <1>3, <1>4, <2>1, <2>2 DEF Own
<1>5. Apart'
  <2>1. \A r \in Entered' : \A u \in Caller : r[1] = u => r[2] \in 0..count'[u]
    BY Zenon, <1>2, <1>3 DEF Apart
  <2>2. Distinct(batch)'
    BY Zenon, <1>3 DEF Apart
  <2> QED
    BY Zenon, <2>1, <2>2 DEF Apart, HandsOver
<1>6. Handing'
  <2>1. ASSUME NEW u \in Caller
        PROVE  /\ lpc'[u] \in {"snapshot", "submit", "ring"} => Own(u)'
               /\ Active(u)' => /\ lpc'[u] \in {"ring", "handler"}
                                /\ rec'[u] = log'[u] /\ Own(u)'
    <3>1. CASE u = t
      BY Zenon, <1>1, <1>3, <3>1 DEF HandsOver, Active
    <3>2. CASE u # t
      BY Zenon, <1>3, <1>4, <3>2 DEF HandsOver, Handing, Active, Caller
    <3> QED
      BY Zenon, <3>1, <3>2
  <2>2. worker \in Thread /\ worker # t
    BY Zenon, <1>1, LoggerAssumption DEF Caller
  <2>3. Active(worker)' => /\ lpc'[worker] \in {"ring", "handler"}
                           /\ batch' # <<>> /\ rec'[worker] = Head(batch')
    BY Zenon, <1>3, <2>2 DEF HandsOver, Handing, Active
  <2> QED
    BY Zenon, <2>1, <2>3 DEF Handing
<1> QED
  BY Zenon, <1>3, <1>5, <1>6 DEF Handed, HandsOver

\* submit() to the queue, and the return of the ring's.
LEMMA SubmitHands ==
  ASSUME Logged, CallTypes, Apart, Handing, NEW t \in Thread,
         SubmitQueue(t) \/ RingReturns(t)
  PROVE  Handed
<1>1. /\ \E here \in {"submit", "ring"} : Submitted(t, here) /\ lpc[t] = here
      /\ t \in Caller /\ UNCHANGED <<wpc, rec>>
  BY Zenon, LoggerAssumption
     DEF SubmitQueue, RingReturns, Submitted, Goes, Logged, Caller, ringvars, writer
<1>2. Own(t)
  BY Zenon, <1>1 DEF Handing
<1>3. /\ lpc'[t] \notin {"snapshot", "submit", "ring"}
      /\ \A u \in Thread : u # t => lpc'[u] = lpc[u] /\ log'[u] = log[u]
      /\ UNCHANGED <<batch, count>>
  BY Zenon, <1>1 DEF Submitted, Goes, CallTypes
<1>4. CASE SubmitQueue(t)
  <2>1. lpc[t] = "submit" /\ queue' = Append(queue, log[t]) /\ UNCHANGED through
    BY Zenon, <1>4 DEF SubmitQueue, Submitted, Goes
  <2>2. ~Active(t) /\ log[t] \in Record /\ queue \in Seq(Record)
    BY Zenon, <1>1, <2>1 DEF Handing, Logged
  <2>3. /\ Elems(queue') = Elems(queue) \cup {log[t]}
        /\ Distinct(queue) /\ log[t] \notin Elems(queue) => Distinct(queue')
    BY Zenon, <2>1, <2>2, ElemsAppend
  <2>4. log[t] \notin Elems(queue) /\ log[t] \notin Elems(batch) /\ log[t] \notin through
    BY Zenon, <1>2 DEF Own, Entered
  <2>5. Entered' = Entered \cup {log[t]}
    BY Zenon, <1>3, <2>1, <2>3 DEF Entered
  <2>6. /\ Distinct(queue') /\ Elems(queue') \cap Elems(batch') = {}
        /\ through' \cap (Elems(queue') \cup Elems(batch')) = {}
    BY Zenon, <1>3, <2>1, <2>3, <2>4 DEF Apart
  <2> QED
    BY Zenon, <1>1, <1>2, <1>3, <2>1, <2>2, <2>5, <2>6, HandsOverStep DEF HandsOver
<1>5. CASE RingReturns(t)
  <2>1. through' = through \cup {log[t]} /\ UNCHANGED queue /\ wpc[t] = "idle"
    BY Zenon, <1>5 DEF RingReturns
  <2>2. log[t] \notin Elems(queue) /\ log[t] \notin Elems(batch)
    BY Zenon, <1>2 DEF Own, Entered
  <2>3. Entered' = Entered \cup {log[t]}
    BY Zenon, <1>3, <2>1 DEF Entered
  <2>4. /\ Distinct(queue') /\ Elems(queue') \cap Elems(batch') = {}
        /\ through' \cap (Elems(queue') \cup Elems(batch')) = {}
    BY Zenon, <1>3, <2>1, <2>2 DEF Apart
  <2> QED
    BY Zenon, <1>1, <1>2, <1>3, <2>1, <2>3, <2>4, HandsOverStep DEF HandsOver, Active
<1> QED
  BY Zenon, <1>4, <1>5

\* A thread, or the worker, begins the ring's submit() with its record.
LEMMA SubmitRingHands ==
  ASSUME Logged, WriterTypes, CallTypes, Apart, Handing,
         (\E t \in Thread : SubmitRing(t)) \/ WorkerDeliver
  PROVE  Handed
<1> DEFINE Hands(t, r) ==
      /\ Submit(t, r) /\ UNCHANGED <<log, count, queue, batch, through>>
      /\ lpc' = [lpc EXCEPT ![t] = "ring"]
      /\ \/ t \in Caller /\ lpc[t] = "submit" /\ r = log[t]
         \/ t = worker /\ lpc[t] = "idle" /\ r = Head(batch) /\ batch # <<>>
<1>0. PICK t \in Thread : \E r : Hands(t, r)
  <2>1. CASE WorkerDeliver
    BY Zenon, <2>1, LoggerAssumption DEF WorkerDeliver, Goes, async
  <2>2. ASSUME NEW t \in Thread, SubmitRing(t) PROVE Hands(t, log[t])
    BY Zenon, <2>2, LoggerAssumption DEF SubmitRing, Goes, async, Logged, Caller
  <2> QED
    BY Zenon, <2>1, <2>2
<1>1. PICK r : Hands(t, r)
  BY Zenon, <1>0
<1>2. /\ lpc'[t] = "ring" /\ \A u \in Thread : u # t => lpc'[u] = lpc[u]
      /\ rec'[t] = r /\ \A u \in Thread : u # t => /\ wpc'[u] = wpc[u]
                                                   /\ rec'[u] = rec[u]
  BY Zenon, <1>1 DEF Submit, WriterTypes, CallTypes
<1>3. Entered' = Entered /\ \A u \in Caller : Own(u)' <=> Own(u)
  BY Zenon, <1>1 DEF Entered, Own
<1>4. Apart'
  BY Zenon, <1>1, <1>3 DEF Apart
<1>5. ASSUME NEW u \in Caller
      PROVE  /\ lpc'[u] \in {"snapshot", "submit", "ring"} => Own(u)'
             /\ Active(u)' => /\ lpc'[u] \in {"ring", "handler"}
                              /\ rec'[u] = log'[u] /\ Own(u)'
  <2>1. CASE u = t
    BY Zenon, <1>1, <1>2, <1>3, <2>1 DEF Handing, Caller
  <2>2. CASE u # t
    BY Zenon, <1>1, <1>2, <1>3, <2>2 DEF Handing, Active, Caller
  <2> QED
    BY Zenon, <2>1, <2>2
<1>6. Active(worker)' => /\ lpc'[worker] \in {"ring", "handler"}
                         /\ batch' # <<>> /\ rec'[worker] = Head(batch')
  BY Zenon, <1>1, <1>2, LoggerAssumption DEF Handing, Active, Caller
<1>7. Handing'
  BY Zenon, <1>5, <1>6 DEF Handing
<1> QED
  BY Zenon, <1>1, <1>3, <1>4, <1>7 DEF Handed

\* The worker takes what is queued, and has delivered a record of it.
LEMMA WorkerHands ==
  ASSUME Logged, CallTypes, Apart, Handing, WorkerTake \/ WorkerDelivered
  PROVE  Handed
<1>1. /\ UNCHANGED <<wpc, rec, log, count>> /\ ~Active(worker)
      /\ \A u \in Caller : lpc'[u] = lpc[u]
  <2>1. CASE WorkerTake
    BY Zenon, <2>1 DEF WorkerTake, Handing, Active, ringvars, writer, calls
  <2>2. CASE WorkerDelivered
    BY Zenon, <2>2, LoggerAssumption
       DEF WorkerDelivered, Goes, Active, ringvars, writer, Caller, CallTypes
  <2> QED
    BY Zenon, <2>1, <2>2
<1>2. ASSUME Entered' = Entered, Apart', through \subseteq through'
      PROVE  Handed
  <2>1. \A u \in Caller : Own(u)' <=> Own(u)
    BY Zenon, <1>1, <1>2 DEF Own
  <2>2. ~Active(worker)' /\ \A u \in Caller : Active(u)' <=> Active(u)
    BY Zenon, <1>1 DEF Active
  <2>3. Handing'
    BY Zenon, <1>1, <2>1, <2>2 DEF Handing
  <2> QED
    BY Zenon, <1>2, <2>3 DEF Handed
<1>3. CASE WorkerTake
  <2>1. batch = <<>> /\ batch' = queue /\ queue' = <<>> /\ UNCHANGED through
    BY Zenon, <1>3 DEF WorkerTake
  <2>2. Elems(batch) = {} /\ Elems(queue') = {} /\ Distinct(queue')
    BY Zenon, <2>1, ElemsEmpty
  <2>3. Entered' = Entered
    BY Zenon, <2>1, <2>2 DEF Entered
  <2>4. Apart'
    BY Zenon, <1>1, <2>1, <2>2, <2>3 DEF Apart
  <2> QED
    BY Zenon, <1>2, <2>1, <2>3, <2>4
<1>4. CASE WorkerDelivered
  <2>1. /\ batch \in Seq(Record) /\ batch # <<>> /\ UNCHANGED queue
        /\ through' = through \cup {Head(batch)} /\ batch' = Tail(batch)
    BY Zenon, <1>4 DEF WorkerDelivered, Goes, Logged
  <2>2. /\ Elems(batch) = Elems(batch') \cup {Head(batch)}
        /\ Distinct(batch') /\ Head(batch) \notin Elems(batch')
    BY Zenon, <2>1, ElemsTail DEF Apart
  <2>3. Entered' = Entered
    BY Zenon, <2>1, <2>2 DEF Entered
  <2>4. Apart'
    <3>1. /\ Elems(queue') \cap Elems(batch') = {}
          /\ through' \cap (Elems(queue') \cup Elems(batch')) = {}
      BY Zenon, <2>1, <2>2 DEF Apart
    <3> QED
      BY Zenon, <1>1, <2>1, <2>2, <2>3, <3>1 DEF Apart
  <2> QED
    BY Zenon, <1>2, <2>1, <2>3, <2>4
<1> QED
  BY Zenon, <1>3, <1>4

\* So every step keeps the records apart.
LEMMA HandedStep ==
  ASSUME RingInv, Logged, CallTypes, Apart, Handing, [Next]_vars
  PROVE  Handed
<1>1. WriterTypes
  BY Zenon DEF RingInv
<1>2. ASSUME NEW t \in Thread,
             \/ Snapshot(t) \/ SubmitNowhere(t) \/ Write(t) \/ FatalFlush(t)
             \/ Dump(t) \/ Abort(t) \/ HandlerEnds(t) \/ Fault(t)
      PROVE  Handed
  BY Zenon, <1>1, <1>2, AsideSteps, AsideStep
<1>3. ASSUME WorkerExit \/ (\E t \in Thread : Sticks(t)) \/ Main \/ UNCHANGED vars
      PROVE  Handed
  BY Zenon, <1>3, AsideAlone, AsideStep, LoggerAssumption DEF Caller
<1>4. ASSUME NEW t \in Thread,
             Dispatch(t) \/ SubmitQueue(t) \/ SubmitRing(t) \/ RingReturns(t)
      PROVE  Handed
  BY Zenon, <1>1, <1>4, DispatchHands, SubmitHands, SubmitRingHands
<1>5. ASSUME WorkerTake \/ WorkerDeliver \/ WorkerDelivered PROVE Handed
  BY Zenon, <1>1, <1>5, WorkerHands, SubmitRingHands
<1> QED
  BY Zenon, <1>2, <1>3, <1>4, <1>5 DEF Next, Proceeds, WorkerStep

-----------------------------------------------------------------------------
\* A record that is through is not published again.
LEMMA SettledForWriter ==
  ASSUME DumpInv, Logged, Apart, Handing, NEW t \in Caller,
         log[t] \in through, SettledFor(t), NEW u \in Thread,
         (\E r \in Record : Submit(u, r)) \/ WriterStep(u), UNCHANGED log
  PROVE  SettledFor(t)'
<1>1. UNCHANGED <<dpc, settled>>
  BY Zenon DEF Submit, WriterStep, LoadGen, LoadOwned, Claim, ClaimLost,
         StoreWord, StoreLen, Publish, dumper
<1>2. Active(u) => rec[u] \notin through
  <2>1. CASE u = worker
    <3>1. Active(u) => rec[u] = Head(batch) /\ batch # <<>> /\ batch \in Seq(Record)
      BY Zenon, <2>1 DEF Handing, Logged
    <3>2. Active(u) => rec[u] \in Elems(batch)
      BY Zenon, <3>1, ElemsTail
    <3> QED
      BY Zenon, <3>2 DEF Apart
  <2>2. CASE u # worker
    BY Zenon, <2>2 DEF Handing, Own, Entered, Caller
  <2> QED
    BY Zenon, <2>1, <2>2
<1>3. \A s \in Slot :
         \/ gen'[s] = gen[s] /\ (Published(gen[s]) => data'[s] = data[s])
         \/ ~Published(gen'[s])
         \/ Active(u) /\ data'[s][1] = rec[u]
  <2>1. RingInv
    BY Zenon DEF DumpInv
  <2> QED
    BY Zenon, <2>1, WriterEffect
<1> QED
  BY Zenon, <1>1, <1>2, <1>3 DEF SettledFor

\* What is in the ring when a dump begins is settled for it.
LEMMA SettledForDumper ==
  ASSUME DumpInv, NEW t \in Thread, SettledFor(t), NEW u \in Thread,
         DumpBegin(u) \/ DumpReturn(u) \/ DumperStep(u), UNCHANGED log
  PROVE  SettledFor(t)'
<1>1. UNCHANGED <<gen, data>>
  BY Zenon DEF DumpBegin, DumpReturn, DumperStep, DumpLoadGen, DumpSkip,
         DumpLoadLen, DumpLoadWord, DumpWrite, DumpEnd, ring
<1>2. DumperTypes /\ settled \in [Thread -> SUBSET Nat]
  BY Zenon DEF DumpInv, RingInv
<1>3. CASE DumpBegin(u)
  <2>1. CASE u = t
    <3>1. settled'[t] = {g \in {gen[s] : s \in Slot} : Published(g)}
      BY Zenon, <1>2, <1>3, <2>1 DEF DumpBegin
    <3> QED
      BY Zenon, <1>1, <3>1 DEF SettledFor
  <2>2. CASE u # t
    <3>1. settled'[t] = settled[t] /\ dpc'[t] = dpc[t]
      BY Zenon, <1>2, <1>3, <2>2 DEF DumpBegin, DumperTypes
    <3> QED
      BY Zenon, <1>1, <3>1 DEF SettledFor
  <2> QED
    BY Zenon, <2>1, <2>2
<1>4. CASE DumpReturn(u)
  <2>1. dpc'[t] = "idle" \/ (settled'[t] = settled[t] /\ dpc'[t] = dpc[t])
    BY Zenon, <1>2, <1>4 DEF DumpReturn, DumperTypes
  <2> QED
    BY Zenon, <1>1, <2>1 DEF SettledFor
<1>5. CASE DumperStep(u)
  <2>1. UNCHANGED settled /\ dpc[u] # "idle"
    BY Zenon, <1>5 DEF DumperStep, DumpLoadGen, DumpSkip, DumpLoadLen,
                DumpLoadWord, DumpWrite, DumpEnd
  <2>2. u # t => dpc'[t] = dpc[t]
    BY Zenon, <1>2, <1>5 DEF DumperStep, DumpLoadGen, DumpSkip, DumpLoadLen,
                DumpLoadWord, DumpWrite, DumpEnd, NextSlot, DumperTypes
  <2> QED
    BY Zenon, <1>1, <2>1, <2>2 DEF SettledFor
<1> QED
  BY Zenon, <1>3, <1>4, <1>5

\* What is settled for the fatal path's dump stays so.
LEMMA SettledForStep ==
  ASSUME DumpInv, Logged, Apart, Handing, Next, NEW t \in Caller,
         log[t] \in through, SettledFor(t), log'[t] = log[t]
  PROVE  SettledFor(t)'
<1>1. CASE UNCHANGED ringvars
  <2>1. UNCHANGED <<ring, dumper>>
    BY Zenon, <1>1 DEF ringvars
  <2> QED
    BY Zenon, <2>1 DEF SettledFor, ring, dumper
<1>2. t \in Thread
  BY Zenon DEF Caller
<1> QED
  BY Zenon, <1>1, <1>2, RingSteps, SettledForWriter, SettledForDumper

\* A step that is not of thread t's dispatch().
LEMMA PathKept ==
  ASSUME NEW t \in Caller, FatalPath(t), Handed,
         lpc'[t] = lpc[t], log'[t] = log[t], list'[t] = list[t], met'[t] = met[t],
         dpc'[t] = dpc[t] \/ lpc[t] \in {"dump", "handler"},
         Met(t) => SettledFor(t)'
  PROVE  FatalPath(t)'
<1>1. through \subseteq through' /\ Entered \subseteq Entered'
  BY Zenon DEF Handed
<1> QED
  BY Zenon, <1>1 DEF FatalPath, Met

\* Before the flush of the fatal path there is nothing to show.
LEMMA PathBefore ==
  ASSUME NEW t \in Caller, FatalPath(t), lpc[t] \notin {"dump", "handler"},
         lpc'[t] \notin {"flush", "dump"}, met'[t] = met[t], dpc'[t] = dpc[t]
  PROVE  FatalPath(t)'
  BY Zenon DEF FatalPath, Met

\* Steps of thread t on its way to the flush.
LEMMA SubmittedPath ==
  ASSUME CallTypes, Handed, NEW t \in Caller, FatalPath(t),
         Submitted(t, "submit") \/ Submitted(t, "ring"), dpc'[t] = dpc[t],
         Fatal(t) /\ list[t] # "initial" =>
             log[t] \in Entered' /\ (list[t] = "ring" => log[t] \in through')
  PROVE  FatalPath(t)'
<1>1. /\ lpc[t] \in {"submit", "ring"} /\ UNCHANGED met /\ t \in Thread
      /\ \/ ~Fatal(t) /\ lpc'[t] = "idle"
         \/ Fatal(t) /\ lpc'[t] = "flush" /\ log'[t] = log[t] /\ list'[t] = list[t]
  BY Zenon DEF Submitted, Goes, CallTypes, Caller
<1>2. CASE lpc'[t] = "idle"
  BY Zenon, <1>1, <1>2, PathBefore
<1>3. CASE lpc'[t] = "flush" /\ Fatal(t) /\ log'[t] = log[t] /\ list'[t] = list[t]
  BY Zenon, <1>1, <1>3 DEF FatalPath, Met
<1> QED
  BY Zenon, <1>1, <1>2, <1>3

\* The flush: what it waited for is through.
LEMMA FlushPath ==
  ASSUME CallTypes, Handed, NEW t \in Caller, FatalPath(t), FatalFlush(t)
  PROVE  FatalPath(t)'
<1>1. /\ lpc[t] = "flush" /\ lpc'[t] = "dump" /\ t \in Thread
      /\ UNCHANGED <<log, list, dpc, queue, batch, through>>
      /\ met'[t] => met[t] \/ Flushed(list[t])
  BY Zenon DEF FatalFlush, Goes, CallTypes, Caller, ringvars, dumper, async
<1>2. ~met[t] /\ dpc[t] = "idle"
  BY Zenon, <1>1 DEF FatalPath
<1>3. list[t] # "initial" =>
         log[t] \in Entered /\ (list[t] = "ring" => log[t] \in through)
  BY Zenon, <1>1 DEF FatalPath
<1>4. ASSUME met'[t], list[t] # "initial" PROVE log[t] \in through
  <2>1. CASE list[t] = "ring"
    BY Zenon, <1>3, <2>1
  <2>2. CASE list[t] = "async"
    <3>1. queue = <<>> /\ batch = <<>>
      BY Zenon, <1>1, <1>2, <1>4, <2>2 DEF Flushed
    <3> QED
      BY Zenon, <1>3, <1>4, <3>1, ElemsEmpty DEF Entered
  <2> QED
    BY Zenon, <1>1, <1>4, <2>1, <2>2 DEF CallTypes, SinkLists
<1>5. Entered' = Entered
  BY Zenon, <1>1 DEF Entered
<1> QED
  BY Zenon, <1>1, <1>2, <1>3, <1>4, <1>5 DEF FatalPath, Met, SettledFor

\* The record of a fatal dispatch() is on its way, through, or settled.
LEMMA FatalPathStep ==
  ASSUME DumpInv, FatalInv, Next, Handed, NEW t \in Caller
  PROVE  FatalPath(t)'
<1>0. /\ Logged /\ CallTypes /\ Apart /\ Handing /\ FatalPath(t)
      /\ t \in Thread /\ t # worker
  BY Zenon DEF FatalInv, Caller
<1>1. ASSUME lpc'[t] = lpc[t], log'[t] = log[t], list'[t] = list[t],
             met'[t] = met[t], dpc'[t] = dpc[t] \/ lpc[t] \in {"dump", "handler"}
      PROVE  FatalPath(t)'
  <2>1. Met(t) => SettledFor(t)'
    BY Zenon, <1>0, <1>1, SettledForStep DEF FatalPath
  <2> QED
    BY Zenon, <1>0, <1>1, <2>1, PathKept
<1>2. ASSUME UNCHANGED ringvars PROVE dpc'[t] = dpc[t]
  BY Zenon, <1>2 DEF ringvars, dumper
<1>3. ASSUME NEW u \in Thread, u # t, Dispatch(u) \/ Proceeds(u) \/ Fault(u)
      PROVE  FatalPath(t)'
  <2>1. /\ lpc'[t] = lpc[t] /\ log'[t] = log[t] /\ list'[t] = list[t]
        /\ met'[t] = met[t]
    BY Zenon, <1>0, <1>3
       DEF Dispatch, Proceeds, Fault, Snapshot, SubmitNowhere, SubmitQueue,
           SubmitRing, Write, RingReturns, FatalFlush, Dump, Abort, HandlerEnds,
           Submitted, Goes, CallTypes, calls
  <2>2. dpc'[t] = dpc[t]
    BY ZenonT(30), <1>0, <1>2, <1>3
       DEF DumpInv, RingInv, DumperTypes,
           Dispatch, Proceeds, Fault, Snapshot, SubmitNowhere, SubmitQueue,
           SubmitRing, Write, RingReturns, FatalFlush, Dump, Abort, HandlerEnds,
           DumpOver, Submit, WriterStep, LoadGen, LoadOwned, Claim, ClaimLost,
           StoreWord, StoreLen, Publish, dumper,
           DumpBegin, DumpReturn, DumperStep, DumpLoadGen, DumpSkip, DumpLoadLen,
           DumpLoadWord, DumpWrite, DumpEnd, NextSlot
  <2> QED
    BY Zenon, <1>1, <2>1, <2>2
<1>4. CASE Dispatch(t)
  <2>1. lpc[t] = "idle" /\ lpc'[t] = "snapshot" /\ met'[t] = met[t] /\ UNCHANGED ringvars
    BY Zenon, <1>0, <1>4 DEF Dispatch, Goes, CallTypes
  <2> QED
    BY Zenon, <1>0, <1>2, <2>1, PathBefore
<1>5. CASE Snapshot(t)
  <2>1. lpc[t] = "snapshot" /\ lpc'[t] = "submit" /\ met'[t] = met[t] /\ UNCHANGED ringvars
    BY Zenon, <1>0, <1>5 DEF Snapshot, Goes, CallTypes
  <2> QED
    BY Zenon, <1>0, <1>2, <2>1, PathBefore
<1>6. CASE SubmitRing(t)
  <2>1. lpc[t] = "submit" /\ lpc'[t] = "ring" /\ met'[t] = met[t] /\ dpc'[t] = dpc[t]
    BY Zenon, <1>0, <1>6 DEF SubmitRing, Goes, CallTypes, Submit, dumper
  <2> QED
    BY Zenon, <1>0, <2>1, PathBefore
<1>7. CASE SubmitNowhere(t)
  <2>1. UNCHANGED ringvars /\ Submitted(t, "submit") /\ (Fatal(t) => list[t] = "initial")
    BY Zenon, <1>7 DEF SubmitNowhere
  <2> QED
    BY Zenon, <1>0, <1>2, <2>1, SubmittedPath
<1>8. CASE SubmitQueue(t)
  <2>1. /\ UNCHANGED ringvars /\ Submitted(t, "submit") /\ list[t] = "async"
        /\ queue' = Append(queue, log[t]) /\ lpc[t] = "submit"
    BY Zenon, <1>8 DEF SubmitQueue, Submitted, Goes
  <2>2. log[t] \in Record /\ queue \in Seq(Record)
    BY Zenon, <1>0, <2>1 DEF Logged
  <2>3. log[t] \in Elems(queue')
    BY Zenon, <2>1, <2>2, ElemsAppend
  <2> QED
    BY Zenon, <1>0, <1>2, <2>1, <2>3, SubmittedPath DEF Entered
<1>9. CASE RingReturns(t)
  <2>1. /\ UNCHANGED ringvars /\ Submitted(t, "ring")
        /\ through' = through \cup {log[t]}
    BY Zenon, <1>9 DEF RingReturns
  <2> QED
    BY Zenon, <1>0, <1>2, <2>1, SubmittedPath DEF Entered
<1>10. CASE Write(t)
  <2>1. UNCHANGED <<lpc, log, list, met, dpc>>
    BY Zenon, <1>10 DEF Write, calls, WriterStep, LoadGen, LoadOwned, Claim,
               ClaimLost, StoreWord, StoreLen, Publish, dumper
  <2> QED
    BY Zenon, <1>1, <2>1
<1>11. CASE Dump(t) \/ HandlerEnds(t)
  <2>1. UNCHANGED <<lpc, log, list, met>> /\ lpc[t] \in {"dump", "handler"}
    BY Zenon, <1>11 DEF Dump, HandlerEnds, calls
  <2> QED
    BY Zenon, <1>1, <2>1
<1>12. CASE Abort(t) \/ Fault(t)
  <2>1. \/ lpc'[t] = "handler"
        \/ UNCHANGED <<lpc, log, list, met>> /\ lpc[t] = "dump"
    BY Zenon, <1>0, <1>12 DEF Abort, Fault, CallTypes
  <2>2. CASE lpc'[t] = "handler"
    BY Zenon, <2>2 DEF FatalPath, Met
  <2> QED
    BY Zenon, <1>1, <2>1, <2>2
<1>13. CASE FatalFlush(t)
  BY Zenon, <1>0, <1>13, FlushPath
<1>14. CASE WorkerStep \/ (\E u \in Thread : Sticks(u))
  <2>1. /\ lpc'[t] = lpc[t] /\ UNCHANGED <<log, list, met, dpc>>
    BY Zenon, <1>0, <1>14
       DEF WorkerStep, WorkerTake, WorkerDeliver, WorkerDelivered, WorkerExit,
           Sticks, Goes, CallTypes, calls, Submit, ringvars, dumper
  <2> QED
    BY Zenon, <1>1, <2>1
<1>15. CASE Main
  <2>1. UNCHANGED <<log, list, met, dpc>>
    BY Zenon, <1>15
       DEF Main, InitBegin, InitRing, InitSinks, InitHandlers, Shutdown,
           StopBegin, StopJoin, ringvars, dumper
  <2>2. \/ lpc'[t] = lpc[t]
        \/ lpc[t] \notin {"dump", "handler"} /\ lpc'[t] \notin {"flush", "dump"}
    BY Zenon, <1>0, <1>15
       DEF Main, InitBegin, InitRing, InitSinks, InitHandlers, Shutdown,
           StopBegin, StopJoin, Goes, CallTypes
  <2> QED
    BY Zenon, <1>0, <1>1, <2>1, <2>2, PathBefore
<1> QED
  BY Zenon, <1>3, <1>4, <1>5, <1>6, <1>7, <1>8, <1>9, <1>10, <1>11, <1>12, <1>13,
     <1>14, <1>15 DEF Next, Proceeds

\* The invariant of the fatal path is inductive, on that of the dumps.
LEMMA FatalStep == DumpInv /\ FatalInv /\ [Next]_vars => FatalInv'
<1> SUFFICES ASSUME DumpInv, FatalInv, [Next]_vars PROVE FatalInv'
  BY Zenon
<1>0. RingInv /\ Logged /\ CallTypes /\ Apart /\ Handing
  BY Zenon DEF DumpInv, FatalInv
<1>1. Logged' /\ CallTypes'
  BY Zenon, <1>0, LoggedStep, CallTypesStep
<1>2. Handed
  BY Zenon, <1>0, HandedStep
<1>3. \A t \in Caller : FatalPath(t)'
  <2>1. CASE Next
    BY Zenon, <1>2, <2>1, FatalPathStep
  <2>2. CASE UNCHANGED vars
    <3>1. UNCHANGED <<lpc, log, list, met, dpc, through, queue, batch, gen, data, settled>>
      BY Zenon, <2>2 DEF vars, calls, async, ringvars, ring, dumper
    <3> QED
      BY Zenon, <3>1 DEF FatalInv, FatalPath, Met, SettledFor, Entered
  <2> QED
    BY Zenon, <2>1, <2>2
<1> QED
  BY Zenon, <1>1, <1>2, <1>3 DEF FatalInv, Handed

\* Nothing is logged at first.
LEMMA InitFatal == Init => FatalInv
<1> SUFFICES ASSUME Init PROVE FatalInv
  BY Zenon
<1>1. Logged
  BY LoggerAssumption DEF Init, Logged
<1>2. CallTypes
  BY DEF Init, CallTypes, SinkLists
<1>3. queue = <<>> /\ batch = <<>> /\ through = {}
  BY Zenon DEF Init
<1>4. Elems(queue) = {} /\ Elems(batch) = {} /\ Distinct(queue) /\ Distinct(batch)
  BY Zenon, <1>3, ElemsEmpty
<1>5. Entered = {}
  BY Zenon, <1>3, <1>4 DEF Entered
<1>6. Apart
  BY Zenon, <1>3, <1>4, <1>5 DEF Apart
<1>7. \A t \in Thread : /\ wpc[t] = "idle" /\ lpc[t] = "idle" /\ ~met[t]
                        /\ dpc[t] = "idle"
  BY Zenon DEF Init, RingInit
<1>8. Handing
  BY Zenon, <1>7, LoggerAssumption DEF Handing, Active, Caller
<1>9. \A t \in Caller : FatalPath(t)
  BY Zenon, <1>7 DEF FatalPath, Met, Caller
<1> QED
  BY Zenon, <1>1, <1>2, <1>6, <1>8, <1>9 DEF FatalInv

\* A fatal record that was logged behind the ring is through when the flush
\* met its deadline, whether the worker delivered it, the thread did, or
\* shutdown() came between; and the dump before abort() prints it, unless
\* other records took its slot.
THEOREM FatalRecordReachesDump == Spec => []FatalRecordDumped
<1>1. ASSUME DumpInv, FatalInv PROVE FatalRecordDumped
  <2> SUFFICES ASSUME NEW t \in Caller, Met(t), dpc[t] = "done"
               PROVE  log[t] \in through /\ (InRing(log[t]) => Prints(t, log[t]))
    BY Zenon DEF FatalRecordDumped, Met
  <2>1. t \in Thread /\ log[t] \in through /\ SettledFor(t)
    BY Zenon, <1>1 DEF FatalInv, FatalPath, Caller
  <2>2. ASSUME NEW s \in Slot, Published(gen[s]), data[s][1] = log[t]
        PROVE  Prints(t, log[t])
    <3>1. gen[s] \in settled[t]
      BY Zenon, <2>1, <2>2 DEF SettledFor
    <3>2. Shown(t, gen[s])
      BY Zenon, <1>1, <2>1, <3>1, SettledShown
    <3>3. PICK x \in Lines(t) : x.gen = gen[s]
      BY Zenon, <3>2 DEF Shown
    <3>4. x.words[1] = log[t]
      BY Zenon, <1>1, <2>1, <2>2, <3>3 DEF DumpInv, Showing
    <3> QED
      BY Zenon, <3>4 DEF Lines, Prints
  <2> QED
    BY Zenon, <2>1, <2>2 DEF InRing
<1>2. Init => DumpInv
  BY Zenon, InitDump DEF Init
<1>3. DumpInv /\ FatalInv /\ [Next]_vars => DumpInv'
  BY Zenon, DumpStep, RingStepOf DEF FatalInv
<1> QED
  BY <1>1, <1>2, <1>3, InitFatal, FatalStep, PTL DEF Spec
=============================================================================
