----------------------------- MODULE AsyncSink -----------------------------
(***************************************************************************)
(* AsyncSink: threads put log records into a bounded ring, a worker hands  *)
(* them to the downstream sinks in batches, flush() waits for the worker   *)
(* and stop() ends it.  A critical section of mutex_ is one step, except   *)
(* that a thread whose wait predicate was false still holds the mutex      *)
(* ("parking") until the condition variable has put it to sleep: stop()    *)
(* writes running_ and notifies without the mutex, so it can act there.    *)
(*                                                                         *)
(* A record is <<thread, n>>, the n-th that the thread submits.            *)
(***************************************************************************)
EXTENDS Integers, Sequences, FiniteSetsExt

CONSTANTS
    Thread,      \* threads that submit and flush
    MaxRecords(_),  \* bound: records a thread submits
    Blocks(_),   \* the overflow policy: submit(r) waits for space
    Capacity,    \* capacity_
    MaxBatch,    \* records the worker takes at once
    none

Record == UNION {{t} \X (1..MaxRecords(t)) : t \in Thread}

ASSUME SinkAssumption ==
    /\ \A t \in Thread : MaxRecords(t) \in Nat
    /\ Capacity \in Nat \ {0} /\ MaxBatch \in Nat \ {0}
    /\ \A r \in Record : Blocks(r) \in BOOLEAN
    /\ none \notin Record

VARIABLES
    queue, head, tail, size,  \* the ring: queue_, head_, tail_, size_
    inflight,   \* inflight_
    running,    \* running_
    batch,      \* the worker's batch, as far as it is not delivered
    worker,     \* where worker_loop is
    stopper,    \* where stop() is
    pc,         \* [Thread -> where its submit() or flush() is]
    rec,        \* [Thread -> the record it is submitting; none in a flush()]
    count,      \* [Thread -> records it has submitted]
    delivered,  \* the records the downstream sinks got, in order
    dropped,    \* the records counted by dropped_records_
    owed        \* [Thread -> what its flush() has to wait for]

ring == <<queue, head, tail, size>>
calls == <<pc, rec, count, owed>>
sinks == <<delivered, dropped>>
vars == <<ring, inflight, running, batch, worker, stopper, calls, sinks>>

Slot == 0..(Capacity - 1)

TypeOK ==
    /\ queue \in [Slot -> Record \cup {none}]
    /\ head \in Slot /\ tail \in Slot /\ size \in 0..Capacity
    /\ inflight \in 0..MaxBatch
    /\ running \in BOOLEAN
    /\ batch \in Seq(Record) /\ Len(batch) <= inflight
    /\ worker \in {"top", "parking", "waiting", "woken", "deliver", "exited"}
    /\ stopper \in {"none", "notify", "join", "returned"}
    /\ pc \in [Thread -> {"idle", "parking", "waiting", "woken", "inline",
                          "flushed"}]
    /\ rec \in [Thread -> Record \cup {none}]
    /\ count \in [Thread -> Nat] /\ \A t \in Thread : count[t] <= MaxRecords(t)
    /\ delivered \in Seq(Record) /\ dropped \subseteq Record
    /\ owed \in [Thread -> SUBSET Record]

Init ==
    /\ queue = [s \in Slot |-> none] /\ head = 0 /\ tail = 0 /\ size = 0
    /\ inflight = 0 /\ running = TRUE /\ batch = <<>>
    /\ worker = "top" /\ stopper = "none"
    /\ pc = [t \in Thread |-> "idle"] /\ rec = [t \in Thread |-> none]
    /\ count = [t \in Thread |-> 0]
    /\ delivered = <<>> /\ dropped = {} /\ owed = [t \in Thread |-> {}]

-----------------------------------------------------------------------------
\* Nobody holds mutex_.
Free == worker # "parking" /\ \A t \in Thread : pc[t] # "parking"

Queued == [i \in 1..size |-> queue[(head + i - 1) % Capacity]]

\* cv_produce_.notify_all(): submitters and flushers alike.
Notified(p) == [t \in Thread |-> IF p[t] = "waiting" THEN "woken" ELSE p[t]]

\* cv_consume_.notify_one(), and the notify_all() of stop().
WorkerNotified == IF worker = "waiting" THEN "woken" ELSE worker

\* queue_[tail_] = record, at the end of submit().
Enqueue(r) ==
    /\ queue' = [queue EXCEPT ![tail] = r]
    /\ tail' = (tail + 1) % Capacity
    /\ size' = size + 1
    /\ worker' = WorkerNotified
    /\ UNCHANGED head

\* Mutant of Dequeue: head_ stays.
DequeueInPlace(n) ==
    /\ size' = size - n
    /\ UNCHANGED <<queue, head, tail>>

\* The first n records leave the ring.
Dequeue(n) ==
    /\ head' = (head + n) % Capacity
    /\ size' = size - n
    /\ UNCHANGED <<queue, tail>>

-----------------------------------------------------------------------------
(***************************************************************************)
(* submit().                                                               *)
(***************************************************************************)
\* Thread t has the mutex and submits its next record, r.
Submits(t, r) ==
    /\ pc[t] = "idle" /\ Free
    /\ count[t] < MaxRecords(t) /\ r = <<t, count[t] + 1>>
    /\ count' = [count EXCEPT ![t] = @ + 1]

SubmitStopped(t) == \E r \in Record :
    /\ Submits(t, r) /\ ~running
    /\ pc' = [pc EXCEPT ![t] = "inline"]
    /\ rec' = [rec EXCEPT ![t] = r]
    /\ UNCHANGED <<ring, inflight, running, batch, worker, stopper, owed,
                   sinks>>

SubmitEnqueue(t) == \E r \in Record :
    /\ Submits(t, r) /\ running /\ size < Capacity
    /\ Enqueue(r)
    /\ UNCHANGED <<inflight, running, batch, stopper, pc, rec, owed, sinks>>

SubmitDrop(t) == \E r \in Record :
    /\ Submits(t, r) /\ running /\ size = Capacity /\ ~Blocks(r)
    /\ dropped' = dropped \cup {r}
    /\ UNCHANGED <<ring, inflight, running, batch, worker, stopper, pc, rec,
                   owed, delivered>>

\* Mutant of SubmitWait: the record goes past the full ring.
SubmitPastFull(t) == \E r \in Record :
    /\ Submits(t, r) /\ running /\ size = Capacity /\ Blocks(r)
    /\ pc' = [pc EXCEPT ![t] = "inline"]
    /\ rec' = [rec EXCEPT ![t] = r]
    /\ UNCHANGED <<ring, inflight, running, batch, worker, stopper, owed,
                   sinks>>

SubmitWait(t) == \E r \in Record :
    /\ Submits(t, r) /\ running /\ size = Capacity /\ Blocks(r)
    /\ pc' = [pc EXCEPT ![t] = "parking"]
    /\ rec' = [rec EXCEPT ![t] = r]
    /\ UNCHANGED <<ring, inflight, running, batch, worker, stopper, owed,
                   sinks>>

\* The condition variable has the thread on its list; the mutex is free.
Park(t) ==
    /\ pc[t] = "parking"
    /\ pc' = [pc EXCEPT ![t] = "waiting"]
    /\ UNCHANGED <<ring, inflight, running, batch, worker, stopper, rec, count,
                   owed, sinks>>

\* Mutant of SubmitWoken: a submitter that finds space does not look at
\* running_ again.
SubmitWokenForSpace(t) ==
    /\ pc[t] = "woken" /\ rec[t] # none /\ Free
    /\ \/ /\ size = Capacity
          /\ pc' = [pc EXCEPT ![t] = IF running THEN "parking" ELSE "inline"]
          /\ UNCHANGED <<ring, worker, rec>>
       \/ /\ size < Capacity
          /\ Enqueue(rec[t])
          /\ pc' = [pc EXCEPT ![t] = "idle"]
          /\ rec' = [rec EXCEPT ![t] = none]
    /\ UNCHANGED <<inflight, running, batch, stopper, count, owed, sinks>>

\* A submitter that was woken has the mutex again: there is space, or stop()
\* has begun, or it waits on.
SubmitWoken(t) ==
    /\ pc[t] = "woken" /\ rec[t] # none /\ Free
    /\ \/ /\ running /\ size = Capacity
          /\ pc' = [pc EXCEPT ![t] = "parking"]
          /\ UNCHANGED <<ring, worker, rec>>
       \/ /\ ~running
          /\ pc' = [pc EXCEPT ![t] = "inline"]
          /\ UNCHANGED <<ring, worker, rec>>
       \/ /\ running /\ size < Capacity
          /\ Enqueue(rec[t])
          /\ pc' = [pc EXCEPT ![t] = "idle"]
          /\ rec' = [rec EXCEPT ![t] = none]
    /\ UNCHANGED <<inflight, running, batch, stopper, count, owed, sinks>>

\* deliver(record) on the submitting thread, without the mutex.
DeliverInline(t) ==
    /\ pc[t] = "inline"
    /\ delivered' = Append(delivered, rec[t])
    /\ pc' = [pc EXCEPT ![t] = "idle"]
    /\ rec' = [rec EXCEPT ![t] = none]
    /\ UNCHANGED <<ring, inflight, running, batch, worker, stopper, count, owed,
                   dropped>>

-----------------------------------------------------------------------------
(***************************************************************************)
(* flush().                                                                *)
(***************************************************************************)
\* Mutant of Drained: the worker's batch does not count.
QueueEmpty == size = 0

Drained == size = 0 /\ inflight = 0

\* The records whose submit() has returned, except the dropped ones.
Accepted ==
    {r \in Record : r[2] <= count[r[1]] /\ r # rec[r[1]]} \ dropped

FlushCall(t) ==
    /\ pc[t] = "idle" /\ Free
    /\ pc' = [pc EXCEPT ![t] = IF Drained THEN "flushed" ELSE "parking"]
    /\ owed' = [owed EXCEPT ![t] = Accepted]
    /\ UNCHANGED <<ring, inflight, running, batch, worker, stopper, rec, count,
                   sinks>>

FlushWoken(t) ==
    /\ pc[t] = "woken" /\ rec[t] = none /\ Free
    /\ pc' = [pc EXCEPT ![t] = IF Drained THEN "flushed" ELSE "parking"]
    /\ UNCHANGED <<ring, inflight, running, batch, worker, stopper, rec, count,
                   owed, sinks>>

\* The downstream sinks are flushed.
FlushReturn(t) ==
    /\ pc[t] = "flushed"
    /\ pc' = [pc EXCEPT ![t] = "idle"]
    /\ owed' = [owed EXCEPT ![t] = {}]
    /\ UNCHANGED <<ring, inflight, running, batch, worker, stopper, rec, count,
                   sinks>>

-----------------------------------------------------------------------------
(***************************************************************************)
(* worker_loop().                                                          *)
(***************************************************************************)
WorkerExit ==
    /\ worker = "top" /\ Free /\ ~running /\ size = 0
    /\ worker' = "exited"
    /\ UNCHANGED <<ring, inflight, running, batch, stopper, calls, sinks>>

WorkerWait ==
    /\ worker = "top" /\ Free /\ running /\ size = 0
    /\ worker' = "parking"
    /\ UNCHANGED <<ring, inflight, running, batch, stopper, calls, sinks>>

WorkerPark ==
    /\ worker = "parking"
    /\ worker' = "waiting"
    /\ UNCHANGED <<ring, inflight, running, batch, stopper, calls, sinks>>

\* Mutant of WorkerTimeout: the worker waits without a deadline.
WorkerWaitsForever == FALSE /\ UNCHANGED vars

\* 100 ms have passed.
WorkerTimeout ==
    /\ worker = "waiting"
    /\ worker' = "woken"
    /\ UNCHANGED <<ring, inflight, running, batch, stopper, calls, sinks>>

\* The worker takes a batch, which is empty after a timeout, and wakes those
\* who wait for space.
WorkerTake ==
    /\ worker = "woken" \/ (worker = "top" /\ size > 0)
    /\ Free
    /\ LET n == Min({size, MaxBatch})
       IN  /\ Dequeue(n)
           /\ batch' = SubSeq(Queued, 1, n)
           /\ inflight' = n
           /\ pc' = IF n > 0 THEN Notified(pc) ELSE pc
    /\ worker' = "deliver"
    /\ UNCHANGED <<running, stopper, rec, count, owed, sinks>>

WorkerDeliver ==
    /\ worker = "deliver" /\ batch # <<>>
    /\ delivered' = Append(delivered, Head(batch))
    /\ batch' = Tail(batch)
    /\ UNCHANGED <<ring, inflight, running, worker, stopper, calls, dropped>>

\* Mutant of WorkerDone: the flushers are not woken.
WorkerDoneSilently ==
    /\ worker = "deliver" /\ batch = <<>> /\ Free
    /\ inflight' = 0
    /\ worker' = "top"
    /\ UNCHANGED <<ring, running, batch, stopper, calls, sinks>>

WorkerDone ==
    /\ worker = "deliver" /\ batch = <<>> /\ Free
    /\ inflight' = 0
    /\ pc' = Notified(pc)
    /\ worker' = "top"
    /\ UNCHANGED <<ring, running, batch, stopper, rec, count, owed, sinks>>

-----------------------------------------------------------------------------
(***************************************************************************)
(* stop(): a second call returns at once and changes nothing.              *)
(***************************************************************************)
Stop ==
    /\ running
    /\ running' = FALSE
    /\ stopper' = "notify"
    /\ UNCHANGED <<ring, inflight, batch, worker, calls, sinks>>

StopNotify ==
    /\ stopper = "notify"
    /\ worker' = WorkerNotified
    /\ pc' = Notified(pc)
    /\ stopper' = "join"
    /\ UNCHANGED <<ring, inflight, running, batch, rec, count, owed, sinks>>

\* The worker is joined, and stop() delivers what is left in the ring.  One
\* step: NothingStranded says that there is nothing left.
StopJoin ==
    /\ stopper = "join" /\ worker = "exited" /\ Free
    /\ Dequeue(size)
    /\ delivered' = delivered \o Queued
    /\ pc' = Notified(pc)
    /\ stopper' = "returned"
    /\ UNCHANGED <<inflight, running, batch, worker, rec, count, owed, dropped>>

-----------------------------------------------------------------------------
ThreadStep(t) ==
    \/ SubmitStopped(t) \/ SubmitEnqueue(t) \/ SubmitDrop(t) \/ SubmitWait(t)
    \/ FlushCall(t)
    \/ Park(t) \/ SubmitWoken(t) \/ FlushWoken(t)
    \/ DeliverInline(t) \/ FlushReturn(t)

WorkerStep ==
    \/ WorkerExit \/ WorkerWait \/ WorkerPark \/ WorkerTimeout
    \/ WorkerTake \/ WorkerDeliver \/ WorkerDone

Next ==
    \/ \E t \in Thread : ThreadStep(t)
    \/ WorkerStep
    \/ Stop \/ StopNotify \/ StopJoin

Spec == Init /\ [][Next]_vars

(***************************************************************************)
(* A thread that can run does, a timeout expires, a downstream sink        *)
(* returns, and whoever waits for mutex_ gets it at some time when it is   *)
(* free again and again.  Nobody has to call anything.                     *)
(***************************************************************************)
FairSpec ==
    /\ Spec
    /\ \A t \in Thread :
          /\ WF_vars(Park(t)) /\ WF_vars(DeliverInline(t))
          /\ WF_vars(FlushReturn(t))
          /\ SF_vars(SubmitWoken(t)) /\ SF_vars(FlushWoken(t))
    /\ SF_vars(WorkerStep)
    /\ WF_vars(StopNotify) /\ SF_vars(StopJoin)

-----------------------------------------------------------------------------
(***************************************************************************)
(* Properties.                                                             *)
(***************************************************************************)
Submitted == {r \in Record : r[2] <= count[r[1]]}

\* No record is lost, duplicated or overwritten in the ring, whatever stop()
\* and the overflow policy do: each one was dropped by the policy, or is in
\* the hands of its submit(), or is in exactly one place on its way.
EachRecordOnce ==
    LET onItsWay == delivered \o batch \o Queued
        held == {rec[t] : t \in Thread} \ {none}
    IN  /\ IsInjective(onItsWay)
        /\ Submitted = Range(onItsWay) \cup held \cup dropped
        /\ Range(onItsWay) \cap (held \cup dropped) = {}
        /\ held \cap dropped = {}

\* When flush() stops waiting, the downstream sinks have every record whose
\* submit() had returned before flush() was called, in a batch or not.
FlushCoversAccepted ==
    \A t \in Thread : pc[t] = "flushed" => owed[t] \subseteq Range(delivered)

\* Once the worker has left its loop nothing enters the ring any more: a
\* submitter that waited for space while stop() ran delivers by itself.
NothingStranded == worker = "exited" => size = 0

\* As long as the sink runs, the records of a thread are delivered in the
\* order in which it submitted them.
InOrderWhileRunning ==
    running => \A i, j \in DOMAIN delivered :
        i < j /\ delivered[i][1] = delivered[j][1]
            => delivered[i][2] < delivered[j][2]

\* No call hangs: a submit() that waits for space and a flush() return, also
\* when stop() notifies before they sleep.
CallsReturn == \A t \in Thread : pc[t] # "idle" ~> pc[t] = "idle"

\* stop() joins the worker and returns, also when the worker was just going
\* to sleep and missed the notification.
StopReturns == stopper = "notify" ~> stopper = "returned"
=============================================================================
