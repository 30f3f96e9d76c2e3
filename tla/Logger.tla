------------------------------- MODULE Logger -------------------------------
(***************************************************************************)
(* Logger and the crash path: threads dispatch records, fatal ones among   *)
(* them, while the main thread calls init() and shutdown() and a signal    *)
(* may hit any thread anywhere.  The crash ring is RingBufferSink, step by *)
(* step.  AsyncSink is here what module AsyncSink checks of it: a bounded  *)
(* queue, a worker that delivers its records in order, and delivery by the *)
(* caller once it is stopped.                                              *)
(*                                                                         *)
(* Of the console and file sinks, which get a record before the ring does, *)
(* only this is here: they write to descriptors, under a mutex each, and a *)
(* write may never return.  add_sink() is left out; a record below its     *)
(* level is one nobody dispatches.                                         *)
(***************************************************************************)
EXTENDS RingBufferSink

CONSTANTS
    worker,         \* AsyncSink's thread
    main,           \* the thread that calls init() and shutdown()
    MaxRecords(_),  \* bound: records a thread dispatches
    FatalRecord,    \* the records of level Fatal
    Faulty,         \* bound: the threads that may fault
    queue_capacity  \* capacity_ of the AsyncSink

Caller == Thread \ {worker}

ASSUME LoggerAssumption ==
    /\ worker \in Thread /\ main \in Caller
    /\ queue_capacity \in Nat \ {0}
    /\ FatalRecord \subseteq Record /\ Faulty \subseteq Thread
    /\ \A t \in Caller : /\ MaxRecords(t) \in Nat
                         /\ \A n \in 1..MaxRecords(t) : <<t, n>> \in Record

VARIABLES
    initialized, shutdown,  \* initialized_, shutdown_
    sinks,     \* sinks_: as constructed, the ring, or the ring behind AsyncSink
    ring_ptr,  \* ring_ptr_ is set
    handlers,  \* the signals whose crash handler is in place
    queue,     \* AsyncSink: records queued
    batch,     \* AsyncSink: records in the worker's hands
    running,   \* AsyncSink: running_
    exited,    \* AsyncSink: the worker has left its loop
    lpc,       \* [Thread -> where its call is]
    list,      \* [Thread -> snapshot_sinks()]
    log,       \* [Thread -> the record it dispatches]
    count,     \* [Thread -> records it dispatched]
    met,       \* [Thread -> the fatal path's flush met its deadline]
    alive,     \* the process runs
    stuck,     \* what does not return: a submit() to the console or file sink
               \* in front of the ring, a write to stderr
    through    \* history: the records whose submit() to the ring returned

config == <<initialized, shutdown, sinks, ring_ptr, handlers>>
async == <<queue, batch, running, exited>>
calls == <<lpc, list, log, count, met>>
process == <<alive, stuck>>
vars == <<ringvars, config, async, calls, process, through>>

SinkLists == {"initial", "ring", "async"}

TypeOK ==
    /\ RingTypeOK
    /\ initialized \in BOOLEAN /\ shutdown \in BOOLEAN
    /\ sinks \in SinkLists /\ ring_ptr \in BOOLEAN
    /\ handlers \subseteq {"fault", "abort"}
    /\ queue \in Seq(Record) /\ Len(queue) <= queue_capacity
    /\ batch \in Seq(Record) /\ Len(batch) <= queue_capacity
    /\ running \in BOOLEAN /\ exited \in BOOLEAN
    /\ lpc \in [Thread -> {"idle", "snapshot", "submit", "ring", "flush",
                           "dump", "handler", "init_ring", "init_sinks",
                           "init_handlers", "stop", "join"}]
    /\ list \in [Thread -> SinkLists]
    /\ log \in [Thread -> Record \cup {none}]
    /\ met \in [Thread -> BOOLEAN]
    /\ count \in [Thread -> Nat]
    /\ alive \in BOOLEAN /\ stuck \subseteq {"sink", "stderr"}
    /\ through \subseteq Record

Init ==
    /\ RingInit
    /\ initialized = FALSE /\ shutdown = FALSE
    /\ sinks = "initial" /\ ring_ptr = FALSE /\ handlers = {}
    /\ queue = <<>> /\ batch = <<>> /\ running = FALSE /\ exited = FALSE
    /\ lpc = [t \in Thread |-> "idle"]
    /\ list = [t \in Thread |-> "initial"]
    /\ log = [t \in Thread |-> none]
    /\ met = [t \in Thread |-> FALSE]
    /\ count = [t \in Thread |-> 0]
    /\ alive = TRUE /\ stuck = {} /\ through = {}

-----------------------------------------------------------------------------
\* Thread t goes on from here to there.
Goes(t, here, there) == alive /\ lpc[t] = here /\ lpc' = [lpc EXCEPT ![t] = there]

(***************************************************************************)
(* init(): a second call returns at once and changes nothing.              *)
(***************************************************************************)
InitBegin ==
    /\ ~initialized /\ Goes(main, "idle", "init_ring")
    /\ initialized' = TRUE
    /\ UNCHANGED <<ringvars, shutdown, sinks, ring_ptr, handlers, async, list,
                   log, count, met, process, through>>

\* The ring is constructed and published for the dump.
InitRing ==
    /\ Goes(main, "init_ring", "init_sinks")
    /\ ring_ptr' = TRUE
    /\ UNCHANGED <<ringvars, initialized, shutdown, sinks, handlers, async,
                   list, log, count, met, process, through>>

\* The list is swapped; with config.async its only sink is an AsyncSink.
InitSinks ==
    /\ Goes(main, "init_sinks", "init_handlers")
    /\ sinks' \in {"ring", "async"}
    /\ running' = (sinks' = "async")
    /\ UNCHANGED <<ringvars, initialized, shutdown, ring_ptr, handlers, queue,
                   batch, exited, list, log, count, met, process, through>>

\* install_crash_handlers, with config.enable_crash_handler.
InitHandlers ==
    /\ Goes(main, "init_handlers", "idle")
    /\ handlers' \in {{}, {"fault", "abort"}}
    /\ UNCHANGED <<ringvars, initialized, shutdown, sinks, ring_ptr, async,
                   list, log, count, met, process, through>>

-----------------------------------------------------------------------------
(***************************************************************************)
(* dispatch().                                                             *)
(***************************************************************************)
\* After shutdown() only fatal records pass.
Dispatch(t) == \E r \in Record :
    /\ t \in Caller /\ count[t] < MaxRecords(t) /\ r = <<t, count[t] + 1>>
    /\ ~shutdown \/ r \in FatalRecord
    /\ Goes(t, "idle", "snapshot")
    /\ count' = [count EXCEPT ![t] = @ + 1]
    /\ log' = [log EXCEPT ![t] = r]
    /\ UNCHANGED <<ringvars, config, async, list, met, process, through>>

Fatal(t) == log[t] \in FatalRecord

Snapshot(t) ==
    /\ Goes(t, "snapshot", "submit")
    /\ list' = [list EXCEPT ![t] = sinks]
    /\ UNCHANGED <<ringvars, config, async, log, count, met, process,
                   through>>

\* submit() to the last sink has returned.
Submitted(t, here) ==
    /\ Goes(t, here, IF Fatal(t) THEN "flush" ELSE "idle")
    /\ log' = [log EXCEPT ![t] = IF Fatal(t) THEN @ ELSE none]
    /\ list' = [list EXCEPT ![t] = IF Fatal(t) THEN @ ELSE "initial"]
    /\ UNCHANGED <<config, batch, running, exited, count, met, process>>

\* The sinks in front of the ring return: their mutex is free and their writes
\* go through.  The logger as constructed has only a console.
Passes(l) == IF l = "initial" THEN "stderr" \notin stuck ELSE "sink" \notin stuck

\* Only the console, or a full queue and a record below Warn: AsyncSink drops it.
SubmitNowhere(t) ==
    /\ \/ list[t] = "initial" /\ Passes(list[t])
       \/ /\ list[t] = "async" /\ running
          /\ Len(queue) = queue_capacity /\ ~Fatal(t)
    /\ Submitted(t, "submit")
    /\ UNCHANGED <<ringvars, queue, through>>

\* AsyncSink::submit; a fatal record waits for space.
SubmitQueue(t) ==
    /\ list[t] = "async" /\ running /\ Len(queue) < queue_capacity
    /\ queue' = Append(queue, log[t])
    /\ Submitted(t, "submit")
    /\ UNCHANGED <<ringvars, through>>

\* RingBufferSink::submit, directly or because AsyncSink was stopped, when the
\* sinks in front of it have returned.
SubmitRing(t) ==
    /\ list[t] = "ring" \/ (list[t] = "async" /\ ~running)
    /\ Passes(list[t])
    /\ Goes(t, "submit", "ring")
    /\ Submit(t, log[t])
    /\ UNCHANGED <<config, async, list, log, count, met, process, through>>

RingReturns(t) ==
    /\ t \in Caller /\ wpc[t] = "idle"
    /\ through' = through \cup {log[t]}
    /\ Submitted(t, "ring")
    /\ UNCHANGED <<ringvars, queue>>

-----------------------------------------------------------------------------
(***************************************************************************)
(* The fatal path, and the handler of SIGABRT and of the faults.           *)
(***************************************************************************)
\* Mutant of Flushed: records in the worker's hands are not waited for.
FlushedQueueOnly(l) == (l = "async" => queue = <<>>) /\ Passes(l)

\* What the flush() of a snapshot waits for: AsyncSink's queue and batch, and
\* the mutexes and writes of the sinks behind it.
Flushed(l) == (l = "async" => queue = <<>> /\ batch = <<>>) /\ Passes(l)

\* Mutant of FatalFlush: the flush has no deadline.
FatalFlushWaits(t) ==
    /\ Goes(t, "flush", "dump")
    /\ Flushed(list[t]) /\ met' = [met EXCEPT ![t] = TRUE]
    /\ UNCHANGED <<ringvars, config, async, list, log, count, process, through>>

\* run_with_deadline: the helper's flush() is over in time, or it is not,
\* whatever the reason, and the thread goes on all the same.
FatalFlush(t) ==
    /\ Goes(t, "flush", "dump")
    /\ \/ Flushed(list[t]) /\ met' = [met EXCEPT ![t] = TRUE]
       \/ met' = met
    /\ UNCHANGED <<ringvars, config, async, list, log, count, process,
                   through>>

\* dump_ring_buffer_to_stderr: without a ring there is nothing to dump.  Its
\* header and its lines are written to stderr.
Dump(t) ==
    /\ alive /\ lpc[t] \in {"dump", "handler"} /\ ring_ptr
    /\ "stderr" \notin stuck
    /\ DumpBegin(t) \/ DumperStep(t)
    /\ UNCHANGED <<config, async, calls, process, through>>

DumpOver(t) == IF ring_ptr THEN DumpReturn(t)
                           ELSE dpc[t] = "idle" /\ UNCHANGED ringvars

\* abort(): its signal runs the handler, which dumps once more; SA_RESETHAND
\* makes the next one the end of the process.
Abort(t) ==
    /\ alive /\ lpc[t] = "dump" /\ DumpOver(t)
    /\ handlers' = handlers \ {"abort"}
    /\ IF "abort" \in handlers
       THEN lpc' = [lpc EXCEPT ![t] = "handler"] /\ UNCHANGED alive
       ELSE alive' = FALSE /\ UNCHANGED lpc
    /\ UNCHANGED <<initialized, shutdown, sinks, ring_ptr, async, list, log,
                   count, met, stuck, through>>

\* crash_signal_handler, which writes to stderr itself, ends with the default
\* action of the signal.
HandlerEnds(t) ==
    /\ alive /\ lpc[t] = "handler" /\ DumpOver(t)
    /\ "stderr" \notin stuck
    /\ alive' = FALSE
    /\ UNCHANGED <<config, async, calls, stuck, through>>

\* A fault hits thread t anywhere, in the middle of a submit() for one.
Fault(t) ==
    /\ alive /\ "fault" \in handlers /\ dpc[t] = "idle"
    /\ t \in Faulty /\ lpc[t] # "handler"
    /\ t = worker => sinks = "async" /\ ~exited
    /\ handlers' = handlers \ {"fault"}
    /\ lpc' = [lpc EXCEPT ![t] = "handler"]
    /\ UNCHANGED <<ringvars, initialized, shutdown, sinks, ring_ptr, async,
                   list, log, count, met, process, through>>

-----------------------------------------------------------------------------
(***************************************************************************)
(* AsyncSink's worker, and shutdown().                                     *)
(***************************************************************************)
WorkerTake ==
    /\ alive /\ lpc[worker] = "idle" /\ batch = <<>> /\ queue # <<>>
    /\ batch' = queue /\ queue' = <<>>
    /\ UNCHANGED <<ringvars, config, running, exited, calls, process, through>>

\* The sinks in front of the ring have returned.
WorkerDeliver ==
    /\ batch # <<>> /\ Passes("async") /\ Goes(worker, "idle", "ring")
    /\ Submit(worker, Head(batch))
    /\ UNCHANGED <<config, async, list, log, count, met, process, through>>

WorkerDelivered ==
    /\ wpc[worker] = "idle" /\ Goes(worker, "ring", "idle")
    /\ through' = through \cup {Head(batch)}
    /\ batch' = Tail(batch)
    /\ UNCHANGED <<ringvars, config, queue, running, exited, list, log, count, met, process>>

WorkerExit ==
    /\ alive /\ lpc[worker] = "idle" /\ sinks = "async"
    /\ ~running /\ ~exited /\ queue = <<>> /\ batch = <<>>
    /\ exited' = TRUE
    /\ UNCHANGED <<ringvars, config, queue, batch, running, calls, process,
                   through>>

\* shutdown(): of the sinks only AsyncSink has something to stop.
Shutdown ==
    /\ ~shutdown
    /\ Goes(main, "idle", IF sinks = "async" THEN "stop" ELSE "idle")
    /\ shutdown' = TRUE
    /\ UNCHANGED <<ringvars, initialized, sinks, ring_ptr, handlers, async,
                   list, log, count, met, process, through>>

StopBegin ==
    /\ Goes(main, "stop", "join")
    /\ running' = FALSE
    /\ UNCHANGED <<ringvars, config, queue, batch, exited, list, log, count, met, process, through>>

\* The worker has been joined; it left nothing in the queue.
StopJoin ==
    /\ exited /\ Goes(main, "join", "idle")
    /\ UNCHANGED <<ringvars, config, async, list, log, count, met, process,
                   through>>

-----------------------------------------------------------------------------
\* Thread t is about to write: through the sinks that init() configured, or
\* straight to stderr.
WritesSinks(t) ==
    \/ lpc[t] = "submit" /\ list[t] # "initial" /\ (list[t] = "async" => ~running)
    \/ t = worker /\ lpc[t] = "idle" /\ batch # <<>>

WritesStderr(t) ==
    \/ lpc[t] = "submit" /\ list[t] = "initial"
    \/ lpc[t] \in {"dump", "handler"}

\* That write never returns, nor does any later one to the same descriptor:
\* a file, or stderr, which the sinks share with the dump if one of them is a
\* console.
Sticks(t) ==
    /\ alive /\ stuck = {}
    /\ \/ WritesSinks(t) /\ stuck' \in {{"sink"}, {"sink", "stderr"}}
       \/ WritesStderr(t) /\ stuck' = {"stderr"}
    /\ UNCHANGED <<ringvars, config, async, calls, alive, through>>

Write(t) ==
    /\ alive /\ lpc[t] = "ring" /\ WriterStep(t)
    /\ UNCHANGED <<config, async, calls, process, through>>

\* What thread t does on its own once it dispatches a record.
Proceeds(t) ==
    \/ Snapshot(t) \/ SubmitNowhere(t) \/ SubmitQueue(t) \/ SubmitRing(t)
    \/ Write(t) \/ RingReturns(t)
    \/ FatalFlush(t) \/ Dump(t) \/ Abort(t) \/ HandlerEnds(t)

WorkerStep == WorkerTake \/ WorkerDeliver \/ WorkerDelivered \/ WorkerExit

Main == InitBegin \/ InitRing \/ InitSinks \/ InitHandlers \/ Shutdown
            \/ StopBegin \/ StopJoin

Next ==
    \/ \E t \in Thread : Dispatch(t) \/ Proceeds(t) \/ Fault(t) \/ Sticks(t)
    \/ WorkerStep \/ Main

Spec == Init /\ [][Next]_vars

(***************************************************************************)
(* Threads run unless they wait for a write that does not return, and main *)
(* need not go on.                                                         *)
(***************************************************************************)
FairSpec ==
    /\ Spec
    /\ \A t \in Caller : WF_vars(Proceeds(t))
    /\ WF_vars(Proceeds(worker) \/ WorkerStep)

-----------------------------------------------------------------------------
(***************************************************************************)
(* Properties.                                                             *)
(***************************************************************************)
Prints(t, r) == \E i \in DOMAIN printed[t] : printed[t][i].words[1] = r

InRing(r) == \E s \in Slot : Published(gen[s]) /\ data[s][1] = r

\* A fatal record that was logged after init() is in the dump that precedes
\* the abort() if the flush met its deadline, unless other records took its
\* slot: dispatch() hands it to the ring before it dumps, directly, through
\* the worker, or inline when shutdown() has stopped the worker.
FatalRecordDumped ==
    \A t \in Caller :
        lpc[t] = "dump" /\ dpc[t] = "done" /\ met[t] /\ list[t] # "initial" =>
            /\ log[t] \in through
            /\ InRing(log[t]) => Prints(t, log[t])

FatalAt(here) == \E t \in Caller : lpc[t] = here /\ Fatal(t)

\* The dispatch of a fatal record ends the process if every write returns,
\* whatever init(), shutdown() and faults do meanwhile and although submit()
\* may have to wait for space in the queue.  Once submit() has returned it
\* does so even if the console or the file is stuck, because flush() runs
\* under a deadline, as long as the dump can be written to stderr.
FatalEnds ==
    /\ FatalAt("snapshot") ~> (~alive \/ stuck # {})
    /\ FatalAt("flush") ~> (~alive \/ "stderr" \in stuck)

\* What the comment in dispatch() says: dump and abort() happen even if a
\* worker never drains or a write to the console or file never returns.  It
\* does not hold of the code, where submit() comes before the deadline and
\* the dump writes to the descriptor that the console uses.
FatalAlwaysEnds == FatalAt("snapshot") ~> ~alive
=============================================================================
