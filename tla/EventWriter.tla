----------------------------- MODULE EventWriter -----------------------------
(***************************************************************************)
(* The writing half of DurableEventHub: producers and flushes put into one *)
(* bounded queue, a worker takes batches out of it and commits them.       *)
(*                                                                         *)
(* Everything runs in one event loop, so a step is what happens between    *)
(* two awaits.  An event is its place in the order of acceptance.          *)
(***************************************************************************)
EXTENDS Naturals, Sequences, FiniteSets

CONSTANTS
    Callers,    \* tasks that call handle and flush
    QueueCap,   \* PERSISTENCE_QUEUE_CAPACITY
    BatchSize,  \* MAX_BATCH_SIZE
    MaxEvents,  \* bound on the events accepted
    MaxFlushes, \* bound on the calls of flush: an endless row of calls can overtake one
    Nobody      \* no caller

ASSUME WriterAssumption ==
    /\ QueueCap \in Nat \ {0}
    /\ BatchSize \in Nat \ {0}
    /\ MaxEvents \in Nat
    /\ MaxFlushes \in Nat
    /\ IsFiniteSet(Callers) /\ Nobody \notin Callers

VARIABLES
    log,        \* the committed events
    accepted,   \* how many events handle has accepted
    flushes,    \* how many times flush has been called (for the bound)
    queue,      \* DurableEventHub._queue
    worker,     \* the durable-event-writer task
    batch,      \* the events it has taken and not yet committed
    barrier,    \* the flush whose barrier ended its batch
    lastBatch,  \* it has taken the stop item
    stopping,   \* DurableEventHub._stopping
    fatal,      \* DurableEventHub._fatal_error is set
    stopTask,   \* the durable-event-stop task
    call,       \* what each caller is doing
    future,     \* the future of a flush: pending, done, failed
    result,     \* how the last call of each caller ended
    need        \* events accepted when the flush of a caller began (history)

produced   == <<log, accepted, flushes>>
workerVars == <<worker, batch, barrier, lastBatch>>
stopVars   == <<stopping, stopTask>>
writerVars == <<log, accepted, flushes, queue, workerVars, stopVars, fatal, call, future,
          result, need>>

EventItem(n)   == [type |-> "event", n |-> n, by |-> Nobody]
BarrierItem(c) == [type |-> "barrier", n |-> 0, by |-> c]
StopItem       == [type |-> "stop", n |-> 0, by |-> Nobody]

WriterInit ==
    /\ log       = <<>>
    /\ accepted  = 0
    /\ flushes   = 0
    /\ queue     = <<>>
    /\ worker    = "idle"
    /\ batch     = <<>>
    /\ barrier   = Nobody
    /\ lastBatch = FALSE
    /\ stopping  = FALSE
    /\ fatal     = FALSE
    /\ stopTask  = "none"
    /\ call      = [c \in Callers |-> "idle"]
    /\ future    = [c \in Callers |-> "none"]
    /\ result    = [c \in Callers |-> "none"]
    /\ need      = [c \in Callers |-> 0]

-------------------------------------------------------------------------------
(* Putting into the queue: _enqueue *)

WorkerDone == worker \in {"ended", "died"}

\* Defect: only a finished worker refuses an item.
RunningWhileStopping == ~ fatal /\ ~ WorkerDone

\* _check_running; the stop item may be put while the hub is stopping.
Running == ~ fatal /\ ~ WorkerDone /\ ~ stopping

Room == Len(queue) < QueueCap

\* _space_available.set() wakes every task that waits for room; each tries again.
Woken(calls) == [c \in Callers |->
    CASE calls[c] = "handle_asleep" -> "handle"
      [] calls[c] = "flush_asleep"  -> "flush"
      [] OTHER                      -> calls[c]]

WokenStop == IF stopTask = "asleep" THEN "put" ELSE stopTask

Handling(c) == call[c] \in {"handle", "handle_asleep"}

BeginHandle(c) ==
    /\ call[c] = "idle"
    /\ accepted + Cardinality({d \in Callers : Handling(d)}) < MaxEvents
    /\ call' = [call EXCEPT ![c] = "handle"]
    /\ result' = [result EXCEPT ![c] = "none"]
    /\ UNCHANGED <<produced, queue, workerVars, stopVars, fatal, future, need>>

\* A flush first registers its future among the barriers.
BeginFlush(c) ==
    /\ call[c] = "idle"
    /\ ~ fatal
    /\ flushes < MaxFlushes
    /\ flushes' = flushes + 1
    /\ call' = [call EXCEPT ![c] = "flush"]
    /\ future' = [future EXCEPT ![c] = "pending"]
    /\ result' = [result EXCEPT ![c] = "none"]
    /\ need' = [need EXCEPT ![c] = accepted]
    /\ UNCHANGED <<log, accepted, queue, workerVars, stopVars, fatal>>

Returns(c, how) ==
    /\ call' = [call EXCEPT ![c] = "idle"]
    /\ future' = [future EXCEPT ![c] = "none"]
    /\ result' = [result EXCEPT ![c] = how]

Refused(c) ==
    /\ call[c] \in {"handle", "flush"}
    /\ ~ Running
    /\ Returns(c, "error")
    /\ UNCHANGED <<produced, queue, workerVars, stopVars, fatal, need>>

PutEvent(c) ==
    /\ call[c] = "handle"
    /\ Running
    /\ Room
    /\ accepted' = accepted + 1
    /\ queue' = Append(queue, EventItem(accepted + 1))
    /\ Returns(c, "accepted")
    /\ UNCHANGED <<flushes, log, workerVars, stopVars, fatal, need>>

PutBarrier(c) ==
    /\ call[c] = "flush"
    /\ Running
    /\ Room
    /\ queue' = Append(queue, BarrierItem(c))
    /\ call' = [call EXCEPT ![c] = "flush_await"]
    /\ UNCHANGED <<produced, workerVars, stopVars, fatal, future, result, need>>

FallsAsleep(c) ==
    /\ call[c] \in {"handle", "flush"}
    /\ Running
    /\ ~ Room
    /\ call' = [call EXCEPT ![c] = IF @ = "handle" THEN "handle_asleep" ELSE "flush_asleep"]
    /\ UNCHANGED <<produced, queue, workerVars, stopVars, fatal, future, result,
                   need>>

FlushReturns(c) ==
    /\ call[c] = "flush_await"
    /\ future[c] \in {"done", "failed"}
    /\ Returns(c, IF future[c] = "done" THEN "flushed" ELSE "error")
    /\ UNCHANGED <<produced, queue, workerVars, stopVars, fatal, need>>

(***************************************************************************)
(* A caller may be cancelled wherever it waits.  The barrier of a flush    *)
(* stays where it is, but its future is done and nobody's any more.        *)
(***************************************************************************)
Cancelled(c) ==
    /\ call[c] # "idle"
    /\ Returns(c, "cancelled")
    /\ queue' = [i \in DOMAIN queue |->
                   IF queue[i].by = c THEN [queue[i] EXCEPT !.by = Nobody] ELSE queue[i]]
    /\ barrier' = IF barrier = c THEN Nobody ELSE barrier
    /\ UNCHANGED <<produced, worker, batch, lastBatch, stopVars, fatal, need>>

-------------------------------------------------------------------------------
(* The worker: _run *)

TakesOne ==
    /\ queue' = Tail(queue)
    /\ call' = Woken(call)
    /\ stopTask' = WokenStop

\* set_result, unless the future is already done or its caller has gone.
Resolve(c) ==
    future' = IF c # Nobody /\ future[c] = "pending"
              THEN [future EXCEPT ![c] = "done"] ELSE future

\* A barrier or a stop item that comes first needs no commit.
TakeFirst ==
    LET item == Head(queue) IN
    /\ worker = "idle"
    /\ queue # <<>>
    /\ TakesOne
    /\ worker' = CASE item.type = "event"   -> "collecting"
                   [] item.type = "barrier" -> "idle"
                   [] item.type = "stop"    -> "ended"
    /\ batch' = IF item.type = "event" THEN <<item.n>> ELSE <<>>
    /\ Resolve(item.by)
    /\ UNCHANGED <<produced, barrier, lastBatch, stopping, fatal, result, need>>

\* A batch ends with a barrier, with the stop item, when it is full,
TakeNext ==
    LET item == Head(queue) IN
    /\ worker = "collecting"
    /\ Len(batch) < BatchSize
    /\ queue # <<>>
    /\ TakesOne
    /\ worker' = IF item.type = "event" THEN "collecting" ELSE "persisting"
    /\ batch' = IF item.type = "event" THEN Append(batch, item.n) ELSE batch
    /\ barrier' = item.by
    /\ lastBatch' = (item.type = "stop")
    /\ UNCHANGED <<produced, stopping, fatal, future, result, need>>

\* The deadline cancels a get of the worker itself, which takes all or nothing.
LeftByDeadline == queue

\* or when its 20 ms are over.
BatchEnds ==
    /\ worker = "collecting"
    /\ worker' = "persisting"
    /\ queue' = LeftByDeadline
    /\ UNCHANGED <<produced, batch, barrier, lastBatch, stopVars, fatal, call,
                   future, result, need>>

Commit ==
    /\ worker = "persisting"
    /\ log' = log \o batch
    /\ batch' = <<>>
    /\ worker' = "committed"
    /\ UNCHANGED <<flushes, accepted, queue, barrier, lastBatch, stopVars, fatal,
                   call, future, result, need>>

AfterBatch == IF lastBatch THEN "ended" ELSE "idle"

FanOut ==
    /\ worker = "committed"
    /\ Resolve(barrier)
    /\ barrier' = Nobody
    /\ worker' = AfterBatch
    /\ UNCHANGED <<produced, queue, batch, lastBatch, stopVars, fatal, call,
                   result, need>>

\* Defect: only a barrier that is still in the queue is failed.
FailBarriersInQueue == [c \in Callers |->
    IF future[c] = "pending" /\ \E i \in 1..Len(queue) : queue[i].by = c
    THEN "failed" ELSE future[c]]

\* Every flush fails, wherever its barrier is.
FailBarriers == [c \in Callers |-> IF future[c] = "pending" THEN "failed" ELSE future[c]]

(***************************************************************************)
(* The worker dies of an error of the database or of a cancellation, at    *)
(* any await, between the commit and the fan-out as well.                  *)
(***************************************************************************)
WorkerDies ==
    /\ worker \in {"idle", "collecting", "persisting", "committed"}
    /\ worker' = "died"
    /\ fatal' = TRUE
    /\ future' = FailBarriers
    /\ queue' = <<>>
    /\ call' = Woken(call)
    /\ stopTask' = WokenStop
    /\ UNCHANGED <<produced, batch, barrier, lastBatch, stopping, result, need>>

-------------------------------------------------------------------------------
(* stop *)

StopBegins ==
    /\ stopTask = "none"
    /\ stopping' = TRUE
    /\ stopTask' = "put"
    /\ call' = Woken(call)
    /\ UNCHANGED <<produced, queue, workerVars, fatal, future, result, need>>

StopPuts ==
    /\ stopTask = "put"
    /\ ~ WorkerDone
    /\ IF Room
       THEN queue' = Append(queue, StopItem) /\ stopTask' = "join"
       ELSE stopTask' = "asleep" /\ UNCHANGED queue
    /\ UNCHANGED <<produced, workerVars, stopping, fatal, call, future, result,
                   need>>

StopEnds ==
    /\ stopTask \in {"put", "join"}
    /\ WorkerDone
    /\ stopTask' = "done"
    /\ UNCHANGED <<produced, queue, workerVars, stopping, fatal, call, future,
                   result, need>>

-------------------------------------------------------------------------------
(* The specification *)

CallStep(c) ==
    Refused(c) \/ PutEvent(c) \/ PutBarrier(c) \/ FallsAsleep(c) \/ FlushReturns(c)

WorkerStep == TakeFirst \/ TakeNext \/ BatchEnds \/ Commit \/ FanOut

StopStep == StopPuts \/ StopEnds

WriterNext ==
    \/ \E c \in Callers : BeginHandle(c) \/ BeginFlush(c) \/ Cancelled(c) \/ CallStep(c)
    \/ WorkerStep \/ WorkerDies \/ StopBegins \/ StopStep

WriterSpec == WriterInit /\ [][WriterNext]_writerVars

\* The event loop runs every task that is ready; nobody has to call or to stop.
WriterFairness ==
    /\ \A c \in Callers : WF_writerVars(CallStep(c))
    /\ WF_writerVars(WorkerStep)
    /\ WF_writerVars(StopStep)

WriterFairSpec == WriterSpec /\ WriterFairness

-------------------------------------------------------------------------------
(* Properties *)

Items == [type : {"event", "barrier", "stop"}, n : 0..MaxEvents, by : Callers \union {Nobody}]

\* The types of the variables; the queue never exceeds its capacity.
WriterTypeOK ==
    /\ log \in Seq(1..MaxEvents)
    /\ accepted \in 0..MaxEvents /\ flushes \in 0..MaxFlushes
    /\ queue \in Seq(Items) /\ Len(queue) <= QueueCap
    /\ worker \in {"idle", "collecting", "persisting", "committed", "ended", "died"}
    /\ batch \in Seq(1..MaxEvents) /\ Len(batch) <= BatchSize
    /\ barrier \in Callers \union {Nobody}
    /\ lastBatch \in BOOLEAN /\ stopping \in BOOLEAN /\ fatal \in BOOLEAN
    /\ stopTask \in {"none", "put", "asleep", "join", "done"}
    /\ call \in [Callers -> {"idle", "handle", "handle_asleep", "flush", "flush_asleep",
                             "flush_await"}]
    /\ future \in [Callers -> {"none", "pending", "done", "failed"}]
    /\ result \in [Callers -> {"none", "accepted", "flushed", "error", "cancelled"}]
    /\ need \in [Callers -> 0..MaxEvents]

QueuedEvents == {i \in DOMAIN queue : queue[i].type = "event"}

(***************************************************************************)
(* While the worker lives no accepted event is lost, repeated or           *)
(* reordered: the log and the batch hold the first of them, in order, and  *)
(* the queue the others, in order.                                         *)
(***************************************************************************)
NothingLost ==
    LET kept == log \o batch IN
    ~ fatal =>
        /\ Len(kept) <= accepted
        /\ \A i \in DOMAIN kept : kept[i] = i
        /\ {queue[i].n : i \in QueuedEvents} = Len(kept) + 1 .. accepted
        /\ \A i, j \in QueuedEvents : i < j => queue[i].n < queue[j].n

(***************************************************************************)
(* A flush that returned without an error covers every event accepted      *)
(* before it was called.  run.get and session.get rely on it.              *)
(***************************************************************************)
FlushCovers == \A c \in Callers : result[c] = "flushed" => need[c] <= Len(log)

(***************************************************************************)
(* A stop that found a living worker has committed every accepted event,   *)
(* even those that were waiting in the queue.                              *)
(***************************************************************************)
CleanStopDrains == worker = "ended" => Len(log) = accepted

\* What is accepted is stored, and whoever was told so can rely on it.
BarriersHold == WriterTypeOK /\ NothingLost /\ FlushCovers /\ CleanStopDrains

(***************************************************************************)
(* No call stays forever: whoever waits for room or for a flush is woken   *)
(* by the worker, by its death, or by a stop; and a stop completes,        *)
(* whatever the worker does.                                               *)
(***************************************************************************)
CallsReturn ==
    /\ \A c \in Callers : call[c] # "idle" ~> call[c] = "idle"
    /\ stopTask # "none" ~> stopTask = "done"
==============================================================================
