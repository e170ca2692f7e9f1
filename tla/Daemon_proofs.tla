----------------------------- MODULE Daemon_proofs -----------------------------
(***************************************************************************)
(* What holds of the process that serves a home and of what it serves:     *)
(* Daemon, for any launches, stops, homes and any number of processes      *)
(* killed (one core per home, shutdowns that were meant, commands that     *)
(* tell the truth); EventWriter, for any callers, capacities and numbers   *)
(* of events and flushes (nothing accepted is lost, a flush covers what    *)
(* came before it, a clean stop leaves nothing behind); Connections, for   *)
(* any requests, queues and wires (a shutdown is answered before the       *)
(* server goes, a connection that is gone holds nothing).                  *)
(***************************************************************************)
EXTENDS Daemon, Connections, EventWriter, FiniteSetTheorems, TLAPS

-------------------------------------------------------------------------------
(* Connections: the inductive invariant                                       *)

Lines == {Answer(r) : r \in Requests} \cup {Event, Marker, Stop}

\* Beyond the types of ConnectionTypeOK: what is queued and on its way are lines.
QueuesOK ==
  /\ wire \in Seq(Lines) /\ outbox \in Seq(Lines)
  /\ shutdown \in BOOLEAN /\ written \subseteq Shutdowns /\ events \in Nat

\* Only a shutdown has something to do once its answer is written, and then it is.
AnswersAreWritten == \A r \in Requests : task[r] = "written" => r \in written

\* From the moment it closes the sender the handler has no request left.
HandlerHasStopped ==
  handler \in {"closing", "gone"} => writer.closed /\ \A r \in Requests : task[r] \in Ended

\* Its close ends with the write loop, and the handler with its close.
CloseEndsLoop == closing["handler"] = "done" => ~writer.loop

\* Nobody is at work for a connection that is gone.
GoneHasClosed == handler = "gone" => ~writer.loop /\ writer.over

ConnectionInv ==
  /\ ConnectionTypeOK /\ QueuesOK
  /\ AnswersAreWritten /\ ShutdownIsAnswered
  /\ HandlerHasStopped /\ CloseEndsLoop /\ GoneHasClosed

-------------------------------------------------------------------------------
(* Connections: the queue of the sender                                       *)

LEMMA LinesAre ==
  /\ \A r \in Requests : Answer(r) \in Lines
  /\ Event \in Lines /\ Marker \in Lines /\ Stop \in Lines
  BY DEF Lines

LEMMA CapsAre == SenderCap \in Nat /\ WireCap \in Nat /\ SubCap \in Nat
  BY ConnectionsAssumption

\* One more line where there is room.
LEMMA Enqueues ==
  ASSUME outbox \in Seq(Lines), NEW line \in Lines, HasRoom
  PROVE  Append(outbox, line) \in Seq(Lines) /\ Len(Append(outbox, line)) <= SenderCap
  <1>1. Append(outbox, line) \in Seq(Lines) /\ Len(Append(outbox, line)) = Len(outbox) + 1
             /\ Len(outbox) \in Nat
    OBVIOUS
  <1> QED BY <1>1, CapsAre DEF HasRoom

\* Whoever ends the write loop empties the queue.
LEMMA Empties == <<>> \in Seq(Lines) /\ Len(<<>>) <= SenderCap
  <1>1. <<>> \in Seq(Lines) /\ Len(<<>>) = 0
    OBVIOUS
  <1> QED BY <1>1, CapsAre

LEMMA Dequeues ==
  ASSUME outbox \in Seq(Lines), Len(outbox) <= SenderCap, outbox # <<>>
  PROVE  /\ Tail(outbox) \in Seq(Lines) /\ Len(Tail(outbox)) <= SenderCap /\ Head(outbox) \in Lines
  <1>1. /\ Tail(outbox) \in Seq(Lines) /\ Len(Tail(outbox)) = Len(outbox) - 1 /\ Head(outbox) \in Lines
        /\ Len(outbox) \in Nat
    OBVIOUS
  <1> QED BY <1>1, CapsAre

LEMMA Reaches ==
  ASSUME wire \in Seq(Lines), NEW line \in Lines, Len(wire) < WireCap
  PROVE  Append(wire, line) \in Seq(Lines) /\ Len(Append(wire, line)) <= WireCap
  <1>1. Append(wire, line) \in Seq(Lines) /\ Len(Append(wire, line)) = Len(wire) + 1 /\ Len(wire) \in Nat
    OBVIOUS
  <1> QED BY <1>1, CapsAre

LEMMA Arrives ==
  ASSUME wire \in Seq(Lines), Len(wire) <= WireCap, wire # <<>>
  PROVE  Tail(wire) \in Seq(Lines) /\ Len(Tail(wire)) <= WireCap
  <1>1. Tail(wire) \in Seq(Lines) /\ Len(Tail(wire)) = Len(wire) - 1 /\ Len(wire) \in Nat
    OBVIOUS
  <1> QED BY <1>1, CapsAre

-------------------------------------------------------------------------------
(* Connections: the front end                                                 *)

LEMMA FrontKeepsInv ==
  ASSUME ConnectionInv, (\E r \in Requests : Send(r)) \/ Dispatch \/ ClientEnds \/ Stall
  PROVE  ConnectionInv'
  <1> USE DEF ConnectionInv, ConnectionTypeOK, QueuesOK
  <1>1. /\ UNCHANGED <<outbox, writer, closing, written, handler, task, bridge, server, shutdown>>
        /\ client' \in {"open", "stalled", "ended"}
    BY DEF Send, Dispatch, ClientEnds, Stall, sender, bridge
  <1>2. pending' \in [Requests -> {"idle", "waiting", "answered", "failed"}]
    BY DEF Send, Dispatch, ClientEnds, Stall, FailPending
  <1>3. wire' \in Seq(Lines) /\ Len(wire') <= WireCap
    <2>1. CASE Dispatch
      BY <2>1, Arrives DEF Dispatch
    <2>2. CASE ClientEnds
      <3>1. wire' = <<>> /\ <<>> \in Seq(Lines) /\ Len(<<>>) = 0
        BY <2>2 DEF ClientEnds
      <3> QED BY <3>1, CapsAre
    <2>3. CASE UNCHANGED wire
      BY <2>3
    <2> QED BY <2>1, <2>2, <2>3 DEF Send, Stall, sender
  <1>4. AnswersAreWritten' /\ ShutdownIsAnswered'
    BY <1>1 DEF AnswersAreWritten, ShutdownIsAnswered
  <1>5. HandlerHasStopped' /\ CloseEndsLoop' /\ GoneHasClosed'
    BY <1>1 DEF HandlerHasStopped, CloseEndsLoop, GoneHasClosed
  <1> QED BY <1>1, <1>2, <1>3, <1>4, <1>5 DEF bridge

-------------------------------------------------------------------------------
(* Connections: the write loop and its end                                    *)

\* A loop that ends, and a request that is told of its line, begin no request anew.
LEMMA LoopEndsIs ==
  ASSUME ConnectionInv, LoopEnds
  PROVE  /\ outbox' = <<>> /\ writer' \in [loop : BOOLEAN, closed : BOOLEAN, over : BOOLEAN, reset : BOOLEAN]
         /\ ~writer'.loop /\ writer'.closed = writer.closed /\ writer'.over = writer.over
         /\ task' \in [Requests -> {"handling", "blocked", "queued", "written"} \cup Ended]
         /\ \A r \in Requests : task'[r] = task[r] \/ (task[r] \notin Ended /\ task'[r] = "failed")
  <1>1. writer' = [writer EXCEPT !.loop = FALSE] /\ outbox' = <<>>
    BY DEF LoopEnds
  <1>2. \A r \in Requests : task'[r] = task[r] \/ (task[r] = "queued" /\ task'[r] = "failed")
    BY DEF LoopEnds
  <1>3. task' \in [Requests -> {"handling", "blocked", "queued", "written"} \cup Ended]
    <2>1. task' = [r \in Requests |-> task'[r]]
      BY DEF LoopEnds
    <2>2. \A r \in Requests : task'[r] \in {"handling", "blocked", "queued", "written"} \cup Ended
      BY <1>2 DEF ConnectionInv, ConnectionTypeOK, Ended
    <2> QED BY <2>1, <2>2
  <1> QED BY <1>1, <1>2, <1>3 DEF ConnectionInv, ConnectionTypeOK, Ended

LEMMA CancelLoopIs ==
  ASSUME ConnectionInv, CancelLoop
  PROVE  /\ outbox' \in {outbox, <<>>}
         /\ writer' \in [loop : BOOLEAN, closed : BOOLEAN, over : BOOLEAN, reset : BOOLEAN]
         /\ ~writer'.loop /\ writer'.closed = writer.closed /\ writer'.over
         /\ task' \in [Requests -> {"handling", "blocked", "queued", "written"} \cup Ended]
         /\ \A r \in Requests : task'[r] = task[r] \/ (task[r] \notin Ended /\ task'[r] = "failed")
  <1>1. writer' = [writer EXCEPT !.loop = FALSE, !.over = TRUE] /\ outbox' \in {outbox, <<>>}
    BY DEF CancelLoop
  <1>2. \A r \in Requests : task'[r] = task[r] \/ (task[r] = "queued" /\ task'[r] = "failed")
    BY DEF CancelLoop
  <1>3. task' \in [Requests -> {"handling", "blocked", "queued", "written"} \cup Ended]
    <2>1. task' = [r \in Requests |-> task'[r]]
      BY DEF CancelLoop
    <2>2. \A r \in Requests : task'[r] \in {"handling", "blocked", "queued", "written"} \cup Ended
      BY <1>2 DEF ConnectionInv, ConnectionTypeOK, Ended
    <2> QED BY <2>1, <2>2
  <1> QED BY <1>1, <1>2, <1>3 DEF ConnectionInv, ConnectionTypeOK, Ended

LEMMA WriteKeepsInv ==
  ASSUME ConnectionInv, Write
  PROVE  ConnectionInv'
  <1> DEFINE line == Head(outbox)
  <1> USE DEF ConnectionInv, ConnectionTypeOK, QueuesOK
  <1>1. /\ UNCHANGED <<client, pending, closing, handler, pump, pumps, leaving, sub, events, server, shutdown>>
        /\ outbox' = Tail(outbox) /\ Sent(line) /\ Written(line) /\ outbox # <<>>
    BY DEF Write, front, bridge
  <1>2. outbox' \in Seq(Lines) /\ Len(outbox') <= SenderCap /\ line \in Lines
    BY <1>1, Dequeues
  <1>3. wire' \in Seq(Lines) /\ Len(wire') <= WireCap
    <2>1. CASE Len(wire) < WireCap /\ wire' = Append(wire, line)
      BY <1>2, <2>1, Reaches
    <2>2. CASE UNCHANGED wire
      BY <2>2
    <2> QED BY <2>1, <2>2 DEF Write
  <1>4. /\ writer' \in [loop : BOOLEAN, closed : BOOLEAN, over : BOOLEAN, reset : BOOLEAN]
        /\ writer'.loop = writer.loop /\ writer'.closed = writer.closed /\ writer'.over = writer.over
        /\ writer.loop
    BY DEF Write
  <1> HIDE DEF line
  <1>5. \A r \in Requests :
           \/ task'[r] = task[r]
           \/ task[r] = "queued" /\ task'[r] = "done"
           \/ task[r] = "queued" /\ task'[r] = "written" /\ r \in Shutdowns /\ line = Answer(r)
    BY <1>1 DEF Sent
  <1>6. task' \in [Requests -> {"handling", "blocked", "queued", "written"} \cup Ended]
    BY <1>1 DEF Sent, Ended
  <1>7. written \subseteq written' /\ written' \subseteq Shutdowns
        /\ \A r \in Shutdowns : line = Answer(r) => r \in written'
    BY <1>1 DEF Written
  <1>8. AnswersAreWritten' /\ ShutdownIsAnswered'
    BY <1>1, <1>5, <1>7 DEF AnswersAreWritten, ShutdownIsAnswered
  <1>9. HandlerHasStopped' /\ CloseEndsLoop' /\ GoneHasClosed'
    BY <1>1, <1>4, <1>5 DEF HandlerHasStopped, CloseEndsLoop, GoneHasClosed, Ended
  <1> QED BY <1>1, <1>2, <1>3, <1>4, <1>6, <1>7, <1>8, <1>9

\* A request that fails is not written, and is one that has ended.
LEMMA FailuresKeep ==
  ASSUME ConnectionInv, UNCHANGED <<handler, written, shutdown>>, writer.closed => writer'.closed,
         writer.over => writer'.over, writer'.loop => writer.loop,
         \A r \in Requests : task'[r] = task[r] \/ (task[r] \notin Ended /\ task'[r] = "failed"),
         closing'["handler"] = "done" => closing["handler"] = "done" \/ ~writer'.loop
  PROVE  /\ AnswersAreWritten' /\ ShutdownIsAnswered'
         /\ HandlerHasStopped' /\ CloseEndsLoop' /\ GoneHasClosed'
  <1> USE DEF ConnectionInv
  <1>1. AnswersAreWritten' /\ ShutdownIsAnswered'
    BY DEF AnswersAreWritten, ShutdownIsAnswered
  <1>2. HandlerHasStopped'
    BY DEF HandlerHasStopped, Ended
  <1>3. CloseEndsLoop' /\ GoneHasClosed'
    BY DEF CloseEndsLoop, GoneHasClosed
  <1> QED BY <1>1, <1>2, <1>3

LEMMA LoopStopsKeepsInv ==
  ASSUME ConnectionInv, WriteFails \/ WriteStops
  PROVE  ConnectionInv'
  <1>1. /\ UNCHANGED <<client, pending, wire, closing, written, handler, pump, pumps, leaving, sub, events,
                       server, shutdown>>
        /\ LoopEnds
    BY DEF WriteFails, WriteStops, front, bridge
  <1>2. ConnectionTypeOK' /\ QueuesOK'
    BY <1>1, LoopEndsIs, Empties DEF ConnectionInv, ConnectionTypeOK, QueuesOK
  <1>3. /\ AnswersAreWritten' /\ ShutdownIsAnswered'
        /\ HandlerHasStopped' /\ CloseEndsLoop' /\ GoneHasClosed'
    BY <1>1, LoopEndsIs, FailuresKeep
  <1> QED BY <1>2, <1>3 DEF ConnectionInv

LEMMA CloseKeepsInv ==
  ASSUME ConnectionInv, NEW x \in Closers, Close(x)
  PROVE  ConnectionInv'
  <1>1. UNCHANGED <<client, pending, wire, written, handler, pump, pumps, leaving, sub, events, server, shutdown>>
    BY DEF Close, PutStop, JoinLoop, front, bridge
  <1>2. /\ closing' \in [Closers -> {"none", "stop", "join", "await", "done"}]
        /\ closing'["handler"] = closing["handler"] \/ x = "handler"
    BY DEF Close, PutStop, JoinLoop, ConnectionInv, ConnectionTypeOK, Closers
  <1>3. /\ outbox' \in Seq(Lines) /\ Len(outbox') <= SenderCap
        /\ writer' \in [loop : BOOLEAN, closed : BOOLEAN, over : BOOLEAN, reset : BOOLEAN]
        /\ task' \in [Requests -> {"handling", "blocked", "queued", "written"} \cup Ended]
        /\ writer.closed => writer'.closed
        /\ writer.over => writer'.over
        /\ writer'.loop => writer.loop
        /\ \A r \in Requests : task'[r] = task[r] \/ (task[r] \notin Ended /\ task'[r] = "failed")
        /\ closing'[x] = "done" => ~writer'.loop
    <2>1. CASE CancelLoop
      BY <2>1, CancelLoopIs, Empties DEF ConnectionInv, ConnectionTypeOK, QueuesOK
    <2>2. CASE HasRoom /\ closing' = [closing EXCEPT ![x] = "join"] /\ outbox' = Append(outbox, Stop)
               /\ UNCHANGED <<writer, task>>
      <3>1. outbox' \in Seq(Lines) /\ Len(outbox') <= SenderCap
        BY <2>2, Enqueues, LinesAre DEF ConnectionInv, QueuesOK
      <3>2. closing'[x] = "join"
        BY <2>2 DEF ConnectionInv, ConnectionTypeOK
      <3> QED BY <2>2, <3>1, <3>2 DEF ConnectionInv, ConnectionTypeOK
    <2>3. CASE ~writer.loop /\ UNCHANGED <<writer, outbox, task>>
      BY <2>3, Zenon DEF ConnectionInv, ConnectionTypeOK, QueuesOK
    <2> QED BY <2>1, <2>2, <2>3 DEF Close, PutStop, JoinLoop
  <1>4. ConnectionTypeOK' /\ QueuesOK'
    BY <1>1, <1>2, <1>3 DEF ConnectionInv, ConnectionTypeOK, QueuesOK
  <1>5. /\ AnswersAreWritten' /\ ShutdownIsAnswered'
        /\ HandlerHasStopped' /\ CloseEndsLoop' /\ GoneHasClosed'
    BY <1>1, <1>2, <1>3, FailuresKeep
  <1> QED BY <1>4, <1>5 DEF ConnectionInv

-------------------------------------------------------------------------------
(* Connections: requests                                                      *)

\* What is left alone by whoever only moves requests or lines.
Rest == <<client, pending, wire, writer, closing, written, handler, pump, pumps, leaving, sub, events, server>>

LEMMA RequestKeepsInv ==
  ASSUME ConnectionInv, NEW r \in Requests,
         \/ Read(r) \/ FindsRoom(r) \/ AfterResponse(r) \/ CancelRequest(r)
  PROVE  ConnectionInv'
  <1> USE DEF ConnectionInv
  <1>1. UNCHANGED Rest
    BY DEF Read, FindsRoom, AfterResponse, CancelRequest, front, sender, bridge, Rest
  <1>2. outbox' \in Seq(Lines) /\ Len(outbox') <= SenderCap
    <2>1. outbox' = outbox \/ (HasRoom /\ outbox' = Append(outbox, Answer(r)))
      BY DEF Read, FindsRoom, AfterResponse, CancelRequest, sender
    <2> QED BY <2>1, Enqueues, LinesAre DEF ConnectionTypeOK, QueuesOK
  <1>3. PICK st \in {"handling", "queued", "done", "failed"} : task' = [task EXCEPT ![r] = st]
    BY DEF Read, FindsRoom, AfterResponse, CancelRequest
  <1>4. handler \in {"closing", "gone"} => task'[r] \in Ended
    BY <1>3 DEF Read, FindsRoom, AfterResponse, CancelRequest, Cancelling, HandlerHasStopped, AnswerDone,
                Ended, ConnectionTypeOK
  <1>5. /\ task' \in [Requests -> {"handling", "blocked", "queued", "written"} \cup Ended]
        /\ \A q \in Requests \ {r} : task'[q] = task[q]
        /\ task'[r] # "written"
    BY <1>3 DEF ConnectionTypeOK, Ended
  <1>6. AnswersAreWritten' /\ HandlerHasStopped'
    BY <1>1, <1>4, <1>5 DEF AnswersAreWritten, HandlerHasStopped, Rest
  <1>7. ShutdownIsAnswered' /\ shutdown' \in BOOLEAN
    <2>1. CASE AfterResponse(r)
      <3>1. r \in Shutdowns => r \in written
        BY <2>1 DEF AfterResponse, AnswerDone, AnswersAreWritten
      <3>2. shutdown' = (shutdown \/ r \in Shutdowns)
        BY <2>1 DEF AfterResponse
      <3> QED BY <1>1, <3>1, <3>2 DEF ShutdownIsAnswered, QueuesOK, Rest
    <2>2. CASE UNCHANGED shutdown
      BY <1>1, <2>2 DEF ShutdownIsAnswered, QueuesOK, Rest
    <2> QED BY <2>1, <2>2 DEF Read, FindsRoom, CancelRequest
  <1>8. ConnectionTypeOK' /\ QueuesOK'
    BY <1>1, <1>2, <1>5, <1>7 DEF ConnectionTypeOK, QueuesOK, Rest
  <1>9. CloseEndsLoop' /\ GoneHasClosed'
    BY <1>1 DEF CloseEndsLoop, GoneHasClosed, Rest
  <1> QED BY <1>6, <1>7, <1>8, <1>9

\* A step that begins no request anew and leaves the sender and its handler alone.
LEMMA OthersKeep ==
  ASSUME ConnectionInv, UNCHANGED <<writer, handler, written, shutdown>>,
         closing'["handler"] = closing["handler"],
         \A r \in Requests :
            \/ task'[r] = task[r]
            \/ task[r] \notin Ended /\ task'[r] # "written" /\ handler \notin {"closing", "gone"}
  PROVE  /\ AnswersAreWritten' /\ ShutdownIsAnswered'
         /\ HandlerHasStopped' /\ CloseEndsLoop' /\ GoneHasClosed'
  <1> USE DEF ConnectionInv
  <1>1. AnswersAreWritten' /\ ShutdownIsAnswered'
    BY DEF AnswersAreWritten, ShutdownIsAnswered
  <1>2. HandlerHasStopped'
    BY DEF HandlerHasStopped
  <1>3. CloseEndsLoop' /\ GoneHasClosed'
    BY DEF CloseEndsLoop, GoneHasClosed
  <1> QED BY <1>1, <1>2, <1>3

LEMMA HandleKeepsInv ==
  ASSUME ConnectionInv, NEW r \in Requests, Handle(r)
  PROVE  ConnectionInv'
  <1>1. /\ UNCHANGED <<client, pending, wire, writer, closing, written, handler, leaving, events, server, shutdown>>
        /\ task[r] = "handling"
    BY DEF Handle, front
  <1>2. PICK st \in {"failed", "blocked", "queued"} : task' = [task EXCEPT ![r] = st]
    BY DEF Handle
  <1>3. outbox' \in Seq(Lines) /\ Len(outbox') <= SenderCap
    <2>1. outbox' = outbox \/ (HasRoom /\ outbox' = Append(outbox, Answer(r)))
      BY DEF Handle
    <2> QED BY <2>1, Enqueues, LinesAre DEF ConnectionInv, ConnectionTypeOK, QueuesOK
  <1>4. /\ pump' \in [Subscribes -> {"none", "get", "blocked", "overflow", "marked", "closing", "ended"}]
        /\ pumps' \subseteq Subscribes
        /\ sub' \in [Subscribes -> [on : BOOLEAN, items : 0..SubCap, over : BOOLEAN]]
    <2>1. CASE r \in Subscribes /\ pump' = [pump EXCEPT ![r] = "get"] /\ pumps' = pumps \cup {r}
               /\ sub' = [sub EXCEPT ![r].on = TRUE]
      BY <2>1 DEF ConnectionInv, ConnectionTypeOK
    <2>2. CASE UNCHANGED <<pump, pumps, sub>>
      BY <2>2 DEF ConnectionInv, ConnectionTypeOK
    <2> QED BY <2>1, <2>2 DEF Handle
  <1>5. task' \in [Requests -> {"handling", "blocked", "queued", "written"} \cup Ended]
    BY <1>2 DEF ConnectionInv, ConnectionTypeOK, Ended
  <1>6. ConnectionTypeOK' /\ QueuesOK'
    BY <1>1, <1>3, <1>4, <1>5 DEF ConnectionInv, ConnectionTypeOK, QueuesOK
  <1>7. \A q \in Requests :
           \/ task'[q] = task[q]
           \/ task[q] \notin Ended /\ task'[q] # "written" /\ handler \notin {"closing", "gone"}
    <2>1. task[r] \notin Ended /\ task'[r] # "written" /\ \A q \in Requests \ {r} : task'[q] = task[q]
      BY <1>1, <1>2 DEF ConnectionInv, ConnectionTypeOK, Ended
    <2>2. handler \notin {"closing", "gone"}
      BY <2>1 DEF ConnectionInv, HandlerHasStopped
    <2> QED BY <2>1, <2>2
  <1>8. /\ AnswersAreWritten' /\ ShutdownIsAnswered'
        /\ HandlerHasStopped' /\ CloseEndsLoop' /\ GoneHasClosed'
    BY <1>1, <1>7, OthersKeep
  <1> QED BY <1>6, <1>8 DEF ConnectionInv

-------------------------------------------------------------------------------
(* Connections: pumps and subscriptions                                       *)

SubsOK == [Subscribes -> [on : BOOLEAN, items : 0..SubCap, over : BOOLEAN]]

LEMMA PumpEndsIs ==
  ASSUME ConnectionInv, NEW p \in Subscribes, PumpEnds(p)
  PROVE  /\ pump' \in [Subscribes -> {"none", "get", "blocked", "overflow", "marked", "closing", "ended"}]
         /\ pumps' \subseteq Subscribes
         /\ sub' \in SubsOK
  <1>1. [on |-> FALSE, items |-> 0, over |-> FALSE] \in [on : BOOLEAN, items : 0..SubCap, over : BOOLEAN]
    BY CapsAre
  <1> QED BY <1>1 DEF PumpEnds, Goes, ConnectionInv, ConnectionTypeOK, SubsOK

LEMMA PublishKeepsInv ==
  ASSUME ConnectionInv, Publish
  PROVE  ConnectionInv'
  <1>1. /\ UNCHANGED <<client, pending, wire, outbox, writer, closing, written, handler, task, pump, pumps,
                       leaving, server, shutdown>>
        /\ events' = events + 1
    BY DEF Publish, front, sender
  <1>2. sub' \in SubsOK
    <2>1. sub' = [p \in Subscribes |-> sub'[p]]
      BY DEF Publish
    <2>2. ASSUME NEW p \in Subscribes PROVE sub'[p] \in [on : BOOLEAN, items : 0..SubCap, over : BOOLEAN]
      <3>1. sub[p] \in [on : BOOLEAN, items : 0..SubCap, over : BOOLEAN] /\ sub[p].items \in 0..SubCap
        BY DEF ConnectionInv, ConnectionTypeOK
      <3>2. \/ sub'[p] = sub[p]
            \/ sub[p].items < SubCap /\ sub'[p] = [sub[p] EXCEPT !.items = @ + 1]
            \/ sub'[p] = [sub[p] EXCEPT !.over = TRUE]
        BY DEF Publish
      <3>3. sub[p].items < SubCap => sub[p].items + 1 \in 0..SubCap
        BY <3>1, CapsAre
      <3> QED BY <3>1, <3>2, <3>3
    <2> QED BY <2>1, <2>2 DEF SubsOK
  <1>3. ConnectionTypeOK' /\ QueuesOK'
    BY <1>1, <1>2 DEF ConnectionInv, ConnectionTypeOK, QueuesOK, SubsOK
  <1> QED BY <1>1, <1>3, OthersKeep DEF ConnectionInv

LEMMA PumpKeepsInv ==
  ASSUME ConnectionInv, NEW p \in Subscribes, Get(p) \/ Push(p) \/ Overflow(p) \/ PumpClosed(p)
  PROVE  ConnectionInv'
  <1>1. UNCHANGED <<client, pending, wire, writer, closing, written, handler, task, leaving, events, server, shutdown>>
    BY DEF Get, Push, Overflow, PumpClosed, front, sender
  <1>2. outbox' \in Seq(Lines) /\ Len(outbox') <= SenderCap
    <2>1. outbox' = outbox \/ (HasRoom /\ \E line \in Lines : outbox' = Append(outbox, line))
      BY LinesAre DEF Get, Push, Overflow, PumpClosed, sender
    <2> QED BY <2>1, Enqueues DEF ConnectionInv, ConnectionTypeOK, QueuesOK
  <1>3. /\ pump' \in [Subscribes -> {"none", "get", "blocked", "overflow", "marked", "closing", "ended"}]
        /\ pumps' \subseteq Subscribes
        /\ sub' \in SubsOK
    <2>1. CASE PumpEnds(p)
      BY <2>1, PumpEndsIs
    <2>2. CASE (\E at \in {"get", "blocked", "overflow", "marked"} : Goes(p, at)) /\ UNCHANGED pumps
                /\ (sub' = sub \/ (sub[p].items > 0 /\ sub' = [sub EXCEPT ![p].items = @ - 1]))
      <3>1. pump' \in [Subscribes -> {"none", "get", "blocked", "overflow", "marked", "closing", "ended"}]
            /\ pumps' \subseteq Subscribes
        BY <2>2 DEF Goes, ConnectionInv, ConnectionTypeOK
      <3>2. sub[p].items \in 0..SubCap
        BY DEF ConnectionInv, ConnectionTypeOK
      <3>3. PICK n \in Int : n = sub[p].items - 1
        BY <3>2, CapsAre
      <3>4. sub[p].items > 0 => n \in 0..SubCap
        BY <3>2, <3>3, CapsAre
      <3>5. CASE sub' = [sub EXCEPT ![p].items = n] /\ n \in 0..SubCap
        BY <3>1, <3>5 DEF ConnectionInv, ConnectionTypeOK, SubsOK
      <3>6. CASE sub' = sub
        BY <3>1, <3>6 DEF ConnectionInv, ConnectionTypeOK, SubsOK
      <3> QED BY <2>2, <3>1, <3>3, <3>4, <3>5, <3>6
    <2> QED BY <2>1, <2>2 DEF Get, Push, Overflow, PumpClosed
  <1>4. ConnectionTypeOK' /\ QueuesOK'
    BY <1>1, <1>2, <1>3 DEF ConnectionInv, ConnectionTypeOK, QueuesOK, SubsOK
  <1> QED BY <1>1, <1>4, OthersKeep DEF ConnectionInv

\* Whoever begins to close the sender marks it closed; the loop goes on until its mark.
LEMMA BeginCloseIs ==
  ASSUME ConnectionInv, NEW x \in Closers, BeginClose(x)
  PROVE  /\ outbox' \in Seq(Lines) /\ Len(outbox') <= SenderCap
         /\ writer' \in [loop : BOOLEAN, closed : BOOLEAN, over : BOOLEAN, reset : BOOLEAN]
         /\ writer'.closed /\ writer'.loop = writer.loop /\ writer'.over = writer.over
         /\ closing' \in [Closers -> {"none", "stop", "join", "await", "done"}]
         /\ closing'[x] # "done" /\ \A y \in Closers \ {x} : closing'[y] = closing[y]
  <1>1. outbox' \in Seq(Lines) /\ Len(outbox') <= SenderCap
    BY Enqueues, LinesAre DEF BeginClose, ConnectionInv, ConnectionTypeOK, QueuesOK
  <1> QED BY <1>1 DEF BeginClose, ConnectionInv, ConnectionTypeOK

LEMMA CloserNames == "handler" \in Closers /\ "server" \in Closers /\ Subscribes \subseteq Closers
                      /\ "handler" \notin Subscribes
  BY ConnectionsAssumption DEF Closers

LEMMA PumpClosesKeepsInv ==
  ASSUME ConnectionInv, NEW p \in Subscribes, PumpCloses(p)
  PROVE  ConnectionInv'
  <1>1. /\ UNCHANGED <<client, pending, wire, written, handler, task, pumps, leaving, sub, events, server, shutdown>>
        /\ BeginClose(p)
    BY DEF PumpCloses, front
  <1>2. pump' \in [Subscribes -> {"none", "get", "blocked", "overflow", "marked", "closing", "ended"}]
    BY DEF PumpCloses, Goes, ConnectionInv, ConnectionTypeOK
  <1>3. ConnectionTypeOK' /\ QueuesOK'
    BY <1>1, <1>2, BeginCloseIs, CloserNames DEF ConnectionInv, ConnectionTypeOK, QueuesOK
  <1>4. closing'["handler"] = closing["handler"]
    BY <1>1, BeginCloseIs, CloserNames
  <1>5. /\ AnswersAreWritten' /\ ShutdownIsAnswered'
        /\ HandlerHasStopped' /\ CloseEndsLoop' /\ GoneHasClosed'
    BY <1>1, <1>4, BeginCloseIs, CloserNames, FailuresKeep
  <1> QED BY <1>3, <1>5 DEF ConnectionInv

LEMMA CancelPumpKeepsInv ==
  ASSUME ConnectionInv, NEW p \in Subscribes, CancelPump(p)
  PROVE  ConnectionInv'
  <1>1. UNCHANGED <<client, pending, wire, written, handler, events, server, shutdown>>
            /\ leaving' \subseteq Subscribes
    BY DEF CancelPump, front, ConnectionInv, ConnectionTypeOK
  <1>2. /\ pump' \in [Subscribes -> {"none", "get", "blocked", "overflow", "marked", "closing", "ended"}]
        /\ pumps' \subseteq Subscribes
        /\ sub' \in SubsOK
    BY PumpEndsIs DEF CancelPump, ConnectionInv, ConnectionTypeOK, SubsOK
  <1>3. closing' \in [Closers -> {"none", "stop", "join", "await", "done"}]
            /\ closing'["handler"] = closing["handler"]
    BY CloserNames DEF CancelPump, ConnectionInv, ConnectionTypeOK
  <1>4. /\ outbox' \in Seq(Lines) /\ Len(outbox') <= SenderCap
        /\ writer' \in [loop : BOOLEAN, closed : BOOLEAN, over : BOOLEAN, reset : BOOLEAN]
        /\ task' \in [Requests -> {"handling", "blocked", "queued", "written"} \cup Ended]
        /\ writer.closed => writer'.closed
        /\ writer.over => writer'.over
        /\ writer'.loop => writer.loop
        /\ \A r \in Requests : task'[r] = task[r] \/ (task[r] \notin Ended /\ task'[r] = "failed")
    <2>1. CASE LoopEnds
      BY <2>1, LoopEndsIs, Empties
    <2>2. CASE UNCHANGED <<outbox, writer, task>>
      BY <2>2 DEF ConnectionInv, ConnectionTypeOK, QueuesOK
    <2> QED BY <2>1, <2>2 DEF CancelPump
  <1>5. ConnectionTypeOK' /\ QueuesOK'
    BY <1>1, <1>2, <1>3, <1>4 DEF ConnectionInv, ConnectionTypeOK, QueuesOK, SubsOK
  <1>6. /\ AnswersAreWritten' /\ ShutdownIsAnswered'
        /\ HandlerHasStopped' /\ CloseEndsLoop' /\ GoneHasClosed'
    BY <1>1, <1>3, <1>4, FailuresKeep
  <1> QED BY <1>5, <1>6 DEF ConnectionInv

-------------------------------------------------------------------------------
(* Connections: the end of a connection, and of the daemon                    *)

LEMMA HandlerKeepsInv ==
  ASSUME ConnectionInv, Eof \/ Unsubscribed
  PROVE  ConnectionInv'
  <1>1. /\ UNCHANGED <<client, pending, wire, outbox, writer, closing, written, task, pump, sub, events, server, shutdown>>
        /\ pumps' \subseteq Subscribes /\ leaving' \subseteq Subscribes
        /\ handler' \in {"unsubscribing", "cancelling"}
    BY DEF Eof, Unsubscribed, front, sender, bridge, ConnectionInv, ConnectionTypeOK
  <1>2. ConnectionTypeOK' /\ QueuesOK'
    BY <1>1 DEF ConnectionInv, ConnectionTypeOK, QueuesOK
  <1>3. /\ AnswersAreWritten' /\ ShutdownIsAnswered'
        /\ HandlerHasStopped' /\ CloseEndsLoop' /\ GoneHasClosed'
    BY <1>1 DEF ConnectionInv, AnswersAreWritten, ShutdownIsAnswered, HandlerHasStopped, CloseEndsLoop,
       GoneHasClosed
  <1> QED BY <1>2, <1>3 DEF ConnectionInv

LEMMA RequestsDoneKeepsInv ==
  ASSUME ConnectionInv, RequestsDone
  PROVE  ConnectionInv'
  <1>1. /\ UNCHANGED <<client, pending, wire, written, task, pump, pumps, leaving, sub, events, server, shutdown>>
        /\ handler' = "closing" /\ BeginClose("handler") /\ \A r \in Requests : task[r] \in Ended
    BY DEF RequestsDone, RequestsEnded, front, bridge
  <1>2. ConnectionTypeOK' /\ QueuesOK'
    BY <1>1, BeginCloseIs, CloserNames DEF ConnectionInv, ConnectionTypeOK, QueuesOK
  <1>3. AnswersAreWritten' /\ ShutdownIsAnswered'
    BY <1>1 DEF ConnectionInv, AnswersAreWritten, ShutdownIsAnswered
  <1>4. HandlerHasStopped' /\ CloseEndsLoop' /\ GoneHasClosed'
    BY <1>1, BeginCloseIs, CloserNames DEF HandlerHasStopped, CloseEndsLoop, GoneHasClosed
  <1> QED BY <1>2, <1>3, <1>4 DEF ConnectionInv

LEMMA GoneKeepsInv ==
  ASSUME ConnectionInv, Gone
  PROVE  ConnectionInv'
  <1>1. /\ UNCHANGED <<client, pending, wire, outbox, closing, written, task, pump, pumps, leaving, sub, events,
                       server, shutdown>>
        /\ handler = "closing" /\ closing["handler"] = "done" /\ handler' = "gone"
        /\ writer' = [writer EXCEPT !.over = TRUE]
    BY DEF Gone, front, bridge
  <1>2. /\ writer' \in [loop : BOOLEAN, closed : BOOLEAN, over : BOOLEAN, reset : BOOLEAN]
        /\ writer'.loop = writer.loop /\ writer'.closed = writer.closed /\ writer'.over
    BY <1>1 DEF ConnectionInv, ConnectionTypeOK
  <1>3. ConnectionTypeOK' /\ QueuesOK'
    BY <1>1, <1>2 DEF ConnectionInv, ConnectionTypeOK, QueuesOK
  <1>4. AnswersAreWritten' /\ ShutdownIsAnswered'
    BY <1>1 DEF ConnectionInv, AnswersAreWritten, ShutdownIsAnswered
  <1>5. HandlerHasStopped' /\ CloseEndsLoop' /\ GoneHasClosed'
    BY <1>1, <1>2 DEF ConnectionInv, HandlerHasStopped, CloseEndsLoop, GoneHasClosed
  <1> QED BY <1>3, <1>4, <1>5 DEF ConnectionInv

LEMMA StopServerKeepsInv ==
  ASSUME ConnectionInv, StopServer
  PROVE  ConnectionInv'
  <1>1. /\ UNCHANGED <<client, pending, wire, written, handler, task, pump, pumps, leaving, sub, events, shutdown>>
        /\ server' = "closing"
    BY DEF StopServer, front, bridge
  <1>2. CASE BeginClose("server")
    <2>1. ConnectionTypeOK' /\ QueuesOK'
      BY <1>1, <1>2, BeginCloseIs, CloserNames DEF ConnectionInv, ConnectionTypeOK, QueuesOK
    <2>2. closing'["handler"] = closing["handler"]
      BY <1>2, BeginCloseIs, CloserNames
    <2>3. /\ AnswersAreWritten' /\ ShutdownIsAnswered'
          /\ HandlerHasStopped' /\ CloseEndsLoop' /\ GoneHasClosed'
      BY <1>1, <1>2, <2>2, BeginCloseIs, CloserNames, FailuresKeep
    <2> QED BY <2>1, <2>3 DEF ConnectionInv
  <1>3. CASE closing' = [closing EXCEPT !["server"] = "done"] /\ UNCHANGED <<outbox, writer>>
    <2>1. ConnectionTypeOK' /\ QueuesOK'
      BY <1>1, <1>3 DEF ConnectionInv, ConnectionTypeOK, QueuesOK
    <2>2. closing'["handler"] = closing["handler"]
      BY <1>3 DEF ConnectionInv, ConnectionTypeOK
    <2> QED BY <1>1, <1>3, <2>1, <2>2, OthersKeep DEF ConnectionInv
  <1> QED BY <1>2, <1>3 DEF StopServer

LEMMA StopRestKeepsInv ==
  ASSUME ConnectionInv, StopPumps \/ StopHub
  PROVE  ConnectionInv'
  <1>1. /\ UNCHANGED <<client, pending, wire, outbox, writer, closing, written, handler, task, pump, events, shutdown>>
        /\ server' \in {"pumps", "hub"} /\ pumps' \subseteq Subscribes /\ leaving' \subseteq Subscribes
    BY DEF StopPumps, StopHub, front, sender, bridge, ConnectionInv, ConnectionTypeOK
  <1>2. sub' \in SubsOK
    <2>1. sub \in SubsOK
      BY DEF ConnectionInv, ConnectionTypeOK, SubsOK
    <2>2. CASE sub' = [p \in Subscribes |-> [sub[p] EXCEPT !.on = FALSE]]
      BY <2>1, <2>2 DEF SubsOK
    <2> QED BY <2>1, <2>2 DEF StopPumps, StopHub
  <1>3. ConnectionTypeOK' /\ QueuesOK'
    BY <1>1, <1>2 DEF ConnectionInv, ConnectionTypeOK, QueuesOK, SubsOK
  <1> QED BY <1>1, <1>3, OthersKeep DEF ConnectionInv

LEMMA ExitKeepsInv ==
  ASSUME ConnectionInv, Exit
  PROVE  ConnectionInv'
  <1>1. /\ UNCHANGED <<client, pending, wire, written, leaving, events, shutdown>> /\ server' = "stopped"
        /\ handler' = "gone" /\ outbox' = <<>> /\ pumps' = {}
    BY DEF Exit, front
  <1>2. /\ writer' \in [loop : BOOLEAN, closed : BOOLEAN, over : BOOLEAN, reset : BOOLEAN]
        /\ ~writer'.loop /\ writer'.closed /\ writer'.over
    BY DEF Exit, ConnectionInv, ConnectionTypeOK
  <1>3. task' \in [Requests -> Ended]
    BY DEF Exit, Ended
  <1>4. closing' \in [Closers -> {"none", "stop", "join", "await", "done"}]
    BY DEF Exit
  <1>5. pump' \in [Subscribes -> {"none", "get", "blocked", "overflow", "marked", "closing", "ended"}]
    BY DEF Exit, ConnectionInv, ConnectionTypeOK
  <1>6. sub' \in SubsOK
    BY CapsAre DEF Exit, SubsOK
  <1>7. ConnectionTypeOK' /\ QueuesOK'
    BY <1>1, <1>2, <1>3, <1>4, <1>5, <1>6, Empties DEF ConnectionInv, ConnectionTypeOK, QueuesOK, SubsOK
  <1>8. AnswersAreWritten' /\ ShutdownIsAnswered'
    BY <1>1, <1>3 DEF ConnectionInv, AnswersAreWritten, ShutdownIsAnswered, Ended
  <1>9. HandlerHasStopped' /\ CloseEndsLoop' /\ GoneHasClosed'
    BY <1>1, <1>2, <1>3 DEF HandlerHasStopped, CloseEndsLoop, GoneHasClosed
  <1> QED BY <1>7, <1>8, <1>9 DEF ConnectionInv

-------------------------------------------------------------------------------
(* Connections: the theorems                                                  *)

LEMMA ConnectionInitInv ==
  ASSUME ConnectionInit
  PROVE  ConnectionInv
  <1>1. QueuesOK
    BY Empties DEF ConnectionInit, QueuesOK
  <1>2. Len(wire) <= WireCap
    <2>1. Len(<<>>) = 0
      OBVIOUS
    <2> QED BY <2>1, CapsAre DEF ConnectionInit
  <1>3. ConnectionTypeOK
    BY <1>2, CapsAre, Empties DEF ConnectionInit, ConnectionTypeOK, Ended
  <1>4. /\ AnswersAreWritten /\ ShutdownIsAnswered
        /\ HandlerHasStopped /\ CloseEndsLoop /\ GoneHasClosed
    BY CloserNames DEF ConnectionInit, AnswersAreWritten, ShutdownIsAnswered, HandlerHasStopped, CloseEndsLoop,
                       GoneHasClosed
  <1> QED BY <1>1, <1>3, <1>4 DEF ConnectionInv

LEMMA ConnectionNextInv ==
  ASSUME ConnectionInv, [ConnectionNext]_connectionVars
  PROVE  ConnectionInv'
  <1>1. CASE UNCHANGED connectionVars
    <2>1. UNCHANGED <<client, pending, wire, outbox, writer, closing, written, handler, task, pump, pumps, leaving,
                      sub, events, server, shutdown>>
      BY <1>1 DEF connectionVars, front, sender, bridge
    <2> QED BY <2>1 DEF ConnectionInv, ConnectionTypeOK, QueuesOK, AnswersAreWritten, ShutdownIsAnswered,
                        HandlerHasStopped, CloseEndsLoop, GoneHasClosed
  <1>2. ASSUME NEW r \in Requests, Send(r) \/ Read(r) \/ Serve(r) PROVE ConnectionInv'
    BY <1>2, FrontKeepsInv, RequestKeepsInv, HandleKeepsInv DEF Serve
  <1>3. ASSUME NEW p \in Subscribes, Pump(p) PROVE ConnectionInv'
    BY <1>3, PumpKeepsInv, PumpClosesKeepsInv, CancelPumpKeepsInv DEF Pump
  <1>4. ASSUME NEW x \in Closers, Close(x) PROVE ConnectionInv'
    BY <1>4, CloseKeepsInv
  <1>5. CASE Client \/ ClientEnds \/ Stall
    BY <1>5, FrontKeepsInv DEF Client, ClientSeesEnd
  <1>6. CASE WriteLoop
    BY <1>6, WriteKeepsInv, LoopStopsKeepsInv DEF WriteLoop
  <1>7. CASE Publish
    BY <1>7, PublishKeepsInv
  <1>8. CASE Connection
    BY <1>8, HandlerKeepsInv, RequestsDoneKeepsInv, GoneKeepsInv DEF Connection
  <1>9. CASE StopServer \/ DaemonEnds
    BY <1>9, StopServerKeepsInv, StopRestKeepsInv, ExitKeepsInv DEF DaemonEnds
  <1> QED BY <1>1, <1>2, <1>3, <1>4, <1>5, <1>6, <1>7, <1>8, <1>9 DEF ConnectionNext

\* The invariant of a connection holds whoever closes it first and whatever is under way then.
THEOREM ConnectionInvHolds == ConnectionSpec => []ConnectionInv
  BY ConnectionInitInv, ConnectionNextInv, PTL DEF ConnectionSpec

\* The daemon stops on request only after the one who asked was answered (core.shutdown in
\* core/transport/socket_server.py: the answer is flushed before the shutdown event is set).
THEOREM ShutdownsAlwaysAnswered == ConnectionSpec => []ShutdownIsAnswered
  <1>1. ConnectionInv => ShutdownIsAnswered
    BY DEF ConnectionInv
  <1> QED BY <1>1, ConnectionInvHolds, PTL

\* A handler that has returned left no write loop and no request behind
\* (_handle_connection in core/transport/socket_server.py).
THEOREM GoneAlwaysReleased == ConnectionSpec => []GoneIsReleased
  <1>1. ConnectionInv => GoneIsReleased
    BY DEF ConnectionInv, GoneIsReleased, HandlerHasStopped, GoneHasClosed
  <1> QED BY <1>1, ConnectionInvHolds, PTL

-------------------------------------------------------------------------------
(* The inductive invariant *)

Handlers == {c \in Callers : Handling(c)}

\* The bound of the model: what is being handled is counted before it is accepted.
RoomForHandlers == accepted + Cardinality(Handlers) <= MaxEvents

\* What the worker holds at each place of its loop.
WorkerHolds ==
    /\ fatal <=> worker = "died"
    /\ worker \in {"idle", "committed", "ended"} => batch = <<>>
    /\ worker \in {"idle", "collecting", "ended"} => barrier = Nobody
    /\ worker \in {"idle", "collecting"} => ~ lastBatch
    /\ WorkerDone => queue = <<>>

\* The stop item is put once, by the stop, and nothing comes after it.
StopIsLast ==
    /\ stopTask # "none" <=> stopping
    /\ \A i \in DOMAIN queue : queue[i].type = "stop" =>
          i = Len(queue) /\ stopTask \in {"join", "done"}
    /\ lastBatch \/ worker = "ended" => queue = <<>> /\ stopTask \in {"join", "done"}

\* A barrier belongs to a flush that waits for it, and each flush has one.
BarriersAreAwaited ==
    /\ \A i \in DOMAIN queue : queue[i].by # Nobody =>
          /\ queue[i].type = "barrier" /\ queue[i].by # barrier
          /\ call[queue[i].by] = "flush_await" /\ future[queue[i].by] = "pending"
    /\ \A i, j \in DOMAIN queue : queue[i].by = queue[j].by => i = j \/ queue[i].by = Nobody
    /\ ~ fatal /\ barrier # Nobody => call[barrier] = "flush_await" /\ future[barrier] = "pending"
    /\ ~ fatal => \A c \in Callers : call[c] \in {"flush", "flush_asleep"} => future[c] = "pending"

\* A barrier stands behind every event its flush is to cover.
BarriersComeAfter ==
    /\ \A c \in Callers : need[c] <= accepted
    /\ \A i, j \in DOMAIN queue :
          queue[i].by # Nobody /\ queue[j].type = "event" /\ queue[j].n <= need[queue[i].by] => j < i
    /\ ~ fatal /\ barrier # Nobody => need[barrier] <= Len(log) + Len(batch)
    /\ \A c \in Callers : future[c] = "done" => need[c] <= Len(log)

WriterInv ==
    /\ WriterTypeOK /\ RoomForHandlers /\ WorkerHolds /\ StopIsLast
    /\ NothingLost /\ BarriersAreAwaited /\ BarriersComeAfter /\ FlushCovers

-------------------------------------------------------------------------------
(* Sequences and items *)

\* The rest of a queue whose head is taken.
LEMMA Tails ==
  ASSUME WriterTypeOK, queue # <<>>
  PROVE  /\ Tail(queue) \in Seq(Items) /\ Len(Tail(queue)) = Len(queue) - 1
         /\ \A i \in 1..(Len(queue) - 1) : Tail(queue)[i] = queue[i + 1]
         /\ Len(queue) \in Nat \ {0} /\ DOMAIN queue = 1..Len(queue) /\ Head(queue) = queue[1]
         /\ Head(queue) \in Items
  BY DEF WriterTypeOK

\* A queue with one more item.
LEMMA Appends ==
  ASSUME WriterTypeOK, NEW item \in Items
  PROVE  /\ Append(queue, item) \in Seq(Items) /\ Len(Append(queue, item)) = Len(queue) + 1
         /\ \A i \in 1..Len(queue) : Append(queue, item)[i] = queue[i]
         /\ Append(queue, item)[Len(queue) + 1] = item
         /\ Len(queue) \in Nat /\ DOMAIN queue = 1..Len(queue)
         /\ DOMAIN Append(queue, item) = 1..(Len(queue) + 1)
  BY DEF WriterTypeOK

\* What is put into the queue is an item.
LEMMA ItemTypes ==
  /\ \A n \in 0..MaxEvents : EventItem(n) \in Items
  /\ \A c \in Callers : BarrierItem(c) \in Items
  /\ StopItem \in Items
  BY WriterAssumption DEF EventItem, BarrierItem, StopItem, Items

\* What the log and the batch hold is known from their lengths.
LEMMA Kept ==
  ASSUME WriterTypeOK
  PROVE  /\ Len(log \o batch) = Len(log) + Len(batch)
         /\ Len(log) \in Nat /\ Len(batch) \in Nat
         /\ \A i \in 1..Len(log) : (log \o batch)[i] = log[i]
         /\ \A i \in 1..Len(batch) : (log \o batch)[Len(log) + i] = batch[i]
         /\ DOMAIN (log \o batch) = 1..(Len(log) + Len(batch))
  BY DEF WriterTypeOK

-------------------------------------------------------------------------------
(* Waiting and waking *)

\* Waking changes only who sleeps.
LEMMA Waking ==
  ASSUME WriterTypeOK
  PROVE  /\ Woken(call)
             \in [Callers -> {"idle", "handle", "handle_asleep", "flush", "flush_asleep", "flush_await"}]
         /\ WokenStop \in {"none", "put", "asleep", "join", "done"}
         /\ \A c \in Callers :
               /\ Woken(call)[c] \in {"handle", "handle_asleep"} <=> Handling(c)
               /\ Woken(call)[c] \in {"flush", "flush_asleep"} <=> call[c] \in {"flush", "flush_asleep"}
               /\ Woken(call)[c] = "flush_await" <=> call[c] = "flush_await"
               /\ Woken(call)[c] = "idle" <=> call[c] = "idle"
         /\ WokenStop \in {"join", "done"} <=> stopTask \in {"join", "done"}
         /\ WokenStop = "none" <=> stopTask = "none"
  BY DEF WriterTypeOK, Woken, WokenStop, Handling

\* The waiting handlers are finitely many.
LEMMA HandlersCounted == IsFiniteSet(Handlers) /\ Cardinality(Handlers) \in Nat
  BY WriterAssumption, FS_Subset, FS_CardinalityType DEF Handlers

\* The bound holds as long as who handles stays the same, or one of them leaves.
LEMMA RoomKept ==
  ASSUME RoomForHandlers, WriterTypeOK, WriterTypeOK', Handlers' \subseteq Handlers, accepted' = accepted
  PROVE  RoomForHandlers'
  <1>1. Cardinality(Handlers') <= Cardinality(Handlers) /\ Cardinality(Handlers') \in Nat
    BY HandlersCounted, FS_Subset, FS_CardinalityType
  <1> QED BY <1>1, HandlersCounted, WriterAssumption DEF RoomForHandlers, WriterTypeOK

-------------------------------------------------------------------------------
(* The callers *)

\* Steps that leave queue, worker and stores alone.
LEMMA CallsKeepInv ==
  ASSUME WriterInv, NEW c \in Callers,
         BeginHandle(c) \/ BeginFlush(c) \/ Refused(c) \/ FallsAsleep(c) \/ FlushReturns(c)
  PROVE  WriterInv'
  <1> USE DEF WriterInv
  <1>1. UNCHANGED <<log, accepted, queue, workerVars, stopVars, fatal>>
    BY DEF BeginHandle, BeginFlush, Refused, FallsAsleep, FlushReturns, produced
  <1>2. NothingLost' /\ WorkerHolds' /\ StopIsLast'
    BY <1>1 DEF NothingLost, QueuedEvents, WorkerHolds, WorkerDone, StopIsLast, workerVars, stopVars
  <1>3. CASE BeginHandle(c)
    <2>1. WriterTypeOK'
      BY <1>1, <1>3 DEF WriterTypeOK, BeginHandle, workerVars, stopVars, produced
    <2>2. RoomForHandlers'
      <3>1. Handlers' = Handlers \cup {c} /\ c \notin Handlers
        BY <1>3 DEF WriterTypeOK, BeginHandle, Handlers, Handling
      <3>2. Cardinality(Handlers') = Cardinality(Handlers) + 1
        BY <3>1, HandlersCounted, FS_AddElement
      <3>3. accepted + Cardinality(Handlers) < MaxEvents
        BY <1>3 DEF BeginHandle, Handlers
      <3> QED BY <1>1, <3>2, <3>3, HandlersCounted, WriterAssumption DEF RoomForHandlers, WriterTypeOK
    <2>3. BarriersAreAwaited' /\ BarriersComeAfter' /\ FlushCovers'
      BY <1>1, <1>3 DEF BeginHandle, WriterTypeOK, Items, BarriersAreAwaited, BarriersComeAfter, FlushCovers,
         workerVars, produced
    <2> QED BY <2>1, <2>2, <2>3, <1>2
  <1>4. CASE BeginFlush(c)
    <2>1. WriterTypeOK'
      BY <1>1, <1>4, WriterAssumption DEF WriterTypeOK, BeginFlush, workerVars, stopVars
    <2>2. RoomForHandlers'
      BY <2>1, <1>1, <1>4, RoomKept DEF WriterTypeOK, BeginFlush, Handlers, Handling
    <2>3. BarriersAreAwaited'
      BY <1>1, <1>4 DEF BeginFlush, WriterTypeOK, Items, BarriersAreAwaited, workerVars
    <2>4. BarriersComeAfter' /\ FlushCovers'
      BY <1>1, <1>4 DEF BeginFlush, WriterTypeOK, Items, BarriersAreAwaited, BarriersComeAfter, FlushCovers,
         workerVars
    <2> QED BY <2>1, <2>2, <2>3, <2>4, <1>2
  <1>5. CASE Refused(c)
    <2>1. WriterTypeOK'
      BY <1>1, <1>5 DEF WriterTypeOK, Refused, Returns, workerVars, stopVars, produced
    <2>2. RoomForHandlers'
      BY <2>1, <1>1, <1>5, RoomKept DEF WriterTypeOK, Refused, Returns, Handlers, Handling
    <2>3. BarriersAreAwaited'
      BY <1>1, <1>5 DEF Refused, Returns, WriterTypeOK, Items, BarriersAreAwaited, workerVars
    <2>4. BarriersComeAfter' /\ FlushCovers'
      BY <1>1, <1>5 DEF Refused, Returns, WriterTypeOK, Items, BarriersComeAfter, FlushCovers, workerVars
    <2> QED BY <2>1, <2>2, <2>3, <2>4, <1>2
  <1>6. CASE FallsAsleep(c)
    <2>1. WriterTypeOK'
      BY <1>1, <1>6 DEF WriterTypeOK, FallsAsleep, workerVars, stopVars, produced
    <2>2. RoomForHandlers'
      BY <2>1, <1>1, <1>6, RoomKept DEF WriterTypeOK, FallsAsleep, Handlers, Handling
    <2>3. BarriersAreAwaited'
      BY <1>1, <1>6 DEF FallsAsleep, WriterTypeOK, Items, BarriersAreAwaited, workerVars
    <2>4. BarriersComeAfter' /\ FlushCovers'
      BY <1>1, <1>6 DEF FallsAsleep, WriterTypeOK, Items, BarriersComeAfter, FlushCovers, workerVars
    <2> QED BY <2>1, <2>2, <2>3, <2>4, <1>2
  <1>7. CASE FlushReturns(c)
    <2>1. WriterTypeOK'
      BY <1>1, <1>7 DEF WriterTypeOK, FlushReturns, Returns, workerVars, stopVars, produced
    <2>2. RoomForHandlers'
      BY <2>1, <1>1, <1>7, RoomKept DEF WriterTypeOK, FlushReturns, Returns, Handlers, Handling
    <2>3. BarriersAreAwaited'
      BY <1>1, <1>7 DEF FlushReturns, Returns, WriterTypeOK, Items, BarriersAreAwaited, workerVars
    <2>4. BarriersComeAfter' /\ FlushCovers'
      BY <1>1, <1>7 DEF FlushReturns, Returns, WriterTypeOK, Items, BarriersComeAfter, FlushCovers, workerVars
    <2> QED BY <2>1, <2>2, <2>3, <2>4, <1>2
  <1> QED BY <1>3, <1>4, <1>5, <1>6, <1>7

\* A new item is in place, with everything that was before it.
LEMMA PutsKeepInv ==
  ASSUME WriterInv, NEW c \in Callers, PutEvent(c) \/ PutBarrier(c)
  PROVE  WriterInv'
  <1> USE DEF WriterInv
  <1>0. accepted + 1 <= MaxEvents \/ call[c] # "handle"
    <2>1. SUFFICES ASSUME call[c] = "handle"
                   PROVE  accepted + 1 <= MaxEvents
      OBVIOUS
    <2>2. c \in Handlers
      BY <2>1 DEF Handlers, Handling
    <2>3. Cardinality(Handlers) >= 1
      BY <2>2, HandlersCounted, FS_EmptySet, FS_CardinalityType
    <2> QED BY <2>3, HandlersCounted, WriterAssumption DEF RoomForHandlers, WriterTypeOK
  <1>1. CASE PutEvent(c)
    <2> DEFINE new == EventItem(accepted + 1)
    <2>1. accepted + 1 \in 0..MaxEvents /\ new \in Items
      BY <1>0, <1>1, ItemTypes, WriterAssumption DEF PutEvent, WriterTypeOK
    <2>2. /\ new.type = "event" /\ new.n = accepted + 1 /\ new.by = Nobody
      BY DEF EventItem
    <2> HIDE DEF new
    <2>3. /\ queue' = Append(queue, new) /\ accepted' = accepted + 1
          /\ UNCHANGED <<log, flushes, worker, batch, barrier, lastBatch, stopping, stopTask, fatal, need>>
          /\ ~ fatal /\ ~ WorkerDone /\ ~ stopping /\ Len(queue) < QueueCap /\ call[c] = "handle"
          /\ Returns(c, "accepted")
      BY <1>1 DEF PutEvent, Running, Room, workerVars, stopVars, new
    <2>4. /\ queue' \in Seq(Items) /\ Len(queue') = Len(queue) + 1
          /\ \A i \in 1..Len(queue) : queue'[i] = queue[i]
          /\ queue'[Len(queue) + 1] = new
          /\ Len(queue) \in Nat /\ DOMAIN queue = 1..Len(queue) /\ DOMAIN queue' = 1..(Len(queue) + 1)
      BY <2>1, <2>3, Appends
    <2>5. WriterTypeOK'
      BY <2>1, <2>3, <2>4, WriterAssumption DEF WriterTypeOK, Returns
    <2>6. RoomForHandlers'
      <3>1. Handlers' = Handlers \ {c} /\ c \in Handlers
        BY <2>3 DEF WriterTypeOK, Returns, Handlers, Handling
      <3>2. Cardinality(Handlers') = Cardinality(Handlers) - 1
        BY <3>1, HandlersCounted, FS_RemoveElement
      <3> QED BY <2>3, <3>2, HandlersCounted, WriterAssumption DEF RoomForHandlers, WriterTypeOK
    <2>7. WorkerHolds' /\ StopIsLast'
      BY <2>2, <2>3, <2>4 DEF WorkerHolds, StopIsLast, WorkerDone, WriterTypeOK
    <2>8. NothingLost'
      <3>1. QueuedEvents' = QueuedEvents \cup {Len(queue) + 1}
        BY <2>2, <2>4 DEF QueuedEvents
      <3>2. {queue'[i].n : i \in QueuedEvents'} = {queue[i].n : i \in QueuedEvents} \cup {accepted + 1}
        BY <3>1, <2>2, <2>4 DEF QueuedEvents
      <3>3. {queue'[i].n : i \in QueuedEvents'} = Len(log \o batch) + 1 .. accepted + 1
        <4> DEFINE M == Len(log \o batch)
        <4>1. M \in Nat /\ accepted \in Nat /\ M <= accepted
          BY <2>3, Kept, WriterAssumption DEF NothingLost, WriterTypeOK
        <4>2. {queue[i].n : i \in QueuedEvents} = M + 1 .. accepted
          BY <2>3 DEF NothingLost
        <4> HIDE DEF M
        <4>3. (M + 1 .. accepted) \cup {accepted + 1} = M + 1 .. accepted + 1
          BY <4>1
        <4>4. {queue'[i].n : i \in QueuedEvents'} = M + 1 .. accepted + 1
          BY <3>2, <4>2, <4>3
        <4> QED BY <4>4 DEF M
      <3>4. \A i \in QueuedEvents : queue[i].n <= accepted /\ i \in 1..Len(queue) /\ queue[i].n \in Nat
        <4> TAKE i \in QueuedEvents
        <4>1. queue[i].n \in Len(log \o batch) + 1 .. accepted
          BY <2>3 DEF NothingLost
        <4> QED BY <4>1, <2>4, Kept DEF QueuedEvents, WriterTypeOK
      <3>5. \A i, j \in QueuedEvents' : i < j => queue'[i].n < queue'[j].n
        BY <3>1, <3>4, <2>2, <2>3, <2>4 DEF NothingLost, WriterTypeOK
      <3>6. /\ Len(log \o batch) <= accepted /\ Len(log \o batch) \in Nat /\ accepted \in Nat
            /\ \A i \in DOMAIN (log \o batch) : (log \o batch)[i] = i
        BY <2>3, Kept, WriterAssumption DEF NothingLost, WriterTypeOK
      <3>7. (log \o batch)' = log \o batch /\ accepted' = accepted + 1
        BY <2>3
      <3> QED BY <3>3, <3>5, <3>6, <3>7 DEF NothingLost
    <2>9. BarriersAreAwaited'
      BY <2>2, <2>3, <2>4 DEF BarriersAreAwaited, Returns, WriterTypeOK, Items
    <2>10. BarriersComeAfter' /\ FlushCovers'
      <3>1. \A i \in DOMAIN queue : queue[i].by # Nobody => queue[i].by \in Callers
        <4>1. \A i \in DOMAIN queue : queue[i] \in Items
          BY DEF WriterTypeOK
        <4> QED BY <4>1 DEF Items
      <3>2. \A d \in Callers : need[d] < accepted + 1
        BY DEF BarriersComeAfter, WriterTypeOK
      <3> QED BY <3>1, <3>2, <2>2, <2>3, <2>4 DEF BarriersComeAfter, Returns, WriterTypeOK, FlushCovers
    <2> QED BY <2>5, <2>6, <2>7, <2>8, <2>9, <2>10
  <1>2. CASE PutBarrier(c)
    <2> DEFINE new == BarrierItem(c)
    <2>1. new \in Items
      BY ItemTypes
    <2>2. new.type = "barrier" /\ new.n = 0 /\ new.by = c
      BY DEF BarrierItem
    <2> HIDE DEF new
    <2>3. /\ queue' = Append(queue, new) /\ call' = [call EXCEPT ![c] = "flush_await"]
          /\ UNCHANGED <<log, accepted, flushes, worker, batch, barrier, lastBatch, stopping, stopTask, fatal,
                         future, result, need>>
          /\ ~ fatal /\ ~ WorkerDone /\ ~ stopping /\ Len(queue) < QueueCap /\ call[c] = "flush"
      BY <1>2 DEF PutBarrier, Running, Room, workerVars, stopVars, produced, new
    <2>4. /\ queue' \in Seq(Items) /\ Len(queue') = Len(queue) + 1
          /\ \A i \in 1..Len(queue) : queue'[i] = queue[i]
          /\ queue'[Len(queue) + 1] = new
          /\ Len(queue) \in Nat /\ DOMAIN queue = 1..Len(queue) /\ DOMAIN queue' = 1..(Len(queue) + 1)
      BY <2>1, <2>3, Appends
    <2>5. WriterTypeOK'
      BY <2>3, <2>4, WriterAssumption DEF WriterTypeOK
    <2>6. RoomForHandlers'
      BY <2>3, <2>5, RoomKept DEF WriterTypeOK, Handlers, Handling
    <2>7. WorkerHolds' /\ StopIsLast'
      BY <2>2, <2>3, <2>4 DEF WorkerHolds, StopIsLast, WorkerDone, WriterTypeOK
    <2>8. NothingLost'
      <3>1. QueuedEvents' = QueuedEvents /\ QueuedEvents \subseteq 1..Len(queue)
        BY <2>2, <2>4 DEF QueuedEvents
      <3>2. {queue'[i].n : i \in QueuedEvents'} = {queue[i].n : i \in QueuedEvents}
        BY <3>1, <2>4
      <3> QED BY <2>3, <2>4, <3>1, <3>2 DEF NothingLost
    <2>9. BarriersAreAwaited'
      <3>1. c # Nobody /\ c # barrier
        BY <2>3, WriterAssumption DEF BarriersAreAwaited
      <3>3. \A i \in 1..Len(queue) : queue[i].by # c
        BY <2>3, <2>4, <3>1 DEF BarriersAreAwaited
      <3>2. future[c] = "pending"
        BY <2>3 DEF BarriersAreAwaited
      <3> QED BY <3>1, <3>2, <3>3, <2>2, <2>3, <2>4 DEF BarriersAreAwaited, WriterTypeOK, Items
    <2>10. BarriersComeAfter' /\ FlushCovers'
      BY <2>2, <2>3, <2>4 DEF BarriersComeAfter, WriterTypeOK, Items, FlushCovers
    <2> QED BY <2>5, <2>6, <2>7, <2>8, <2>9, <2>10
  <1> QED BY <1>1, <1>2

\* A cancelled caller leaves a barrier behind that is nobody's.
LEMMA CancellationKeepsInv ==
  ASSUME WriterInv, NEW c \in Callers, Cancelled(c)
  PROVE  WriterInv'
  <1> USE DEF WriterInv
  <1>1. /\ UNCHANGED <<log, accepted, flushes, worker, batch, lastBatch, stopping, stopTask, fatal, need>>
        /\ Returns(c, "cancelled")
        /\ barrier' = IF barrier = c THEN Nobody ELSE barrier
    BY DEF Cancelled, produced, stopVars
  <1>2. \A i \in DOMAIN queue : queue[i] \in Items
    BY DEF WriterTypeOK
  <1>3. /\ DOMAIN queue' = DOMAIN queue /\ Len(queue') = Len(queue) /\ queue' \in Seq(Items)
        /\ DOMAIN queue = 1..Len(queue) /\ Len(queue) \in Nat
        /\ \A i \in DOMAIN queue :
              /\ queue'[i].type = queue[i].type /\ queue'[i].n = queue[i].n
              /\ queue'[i].by = IF queue[i].by = c THEN Nobody ELSE queue[i].by
    <2> DEFINE item(i) == IF queue[i].by = c THEN [queue[i] EXCEPT !.by = Nobody] ELSE queue[i]
    <2>1. \A i \in DOMAIN queue :
              /\ item(i) \in Items /\ item(i).type = queue[i].type /\ item(i).n = queue[i].n
              /\ item(i).by = IF queue[i].by = c THEN Nobody ELSE queue[i].by
      BY <1>2 DEF Items
    <2>2. queue' = [i \in DOMAIN queue |-> item(i)]
      BY DEF Cancelled
    <2>3. DOMAIN queue = 1..Len(queue) /\ Len(queue) \in Nat
      BY DEF WriterTypeOK
    <2> HIDE DEF item
    <2>4. queue' \in Seq(Items) /\ Len(queue') = Len(queue) /\ DOMAIN queue' = DOMAIN queue
      BY <2>1, <2>2, <2>3
    <2> QED BY <2>1, <2>2, <2>3, <2>4
  <1>4. WriterTypeOK'
    BY <1>1, <1>3 DEF WriterTypeOK, Returns
  <1>5. RoomForHandlers'
    BY <1>1, <1>4, RoomKept DEF WriterTypeOK, Returns, Handlers, Handling
  <1>6. WorkerHolds'
    BY <1>1, <1>3 DEF WorkerHolds, WorkerDone, WriterTypeOK
  <1>7. StopIsLast'
    <2>1. queue = <<>> => queue' = <<>>
      BY <1>3
    <2> QED BY <1>1, <1>3, <2>1 DEF StopIsLast
  <1>8. NothingLost'
    <2>1. QueuedEvents' = QueuedEvents /\ QueuedEvents \subseteq DOMAIN queue
      BY <1>3 DEF QueuedEvents
    <2>2. {queue'[i].n : i \in QueuedEvents'} = {queue[i].n : i \in QueuedEvents}
      BY <2>1, <1>3
    <2> QED BY <1>1, <1>3, <2>1, <2>2 DEF NothingLost
  <1>9. BarriersAreAwaited'
    BY <1>1, <1>2, <1>3, WriterAssumption DEF BarriersAreAwaited, Returns, WriterTypeOK, Items
  <1>10. BarriersComeAfter'
    BY <1>1, <1>2, <1>3, WriterAssumption DEF BarriersComeAfter, Returns, WriterTypeOK, Items
  <1>11. FlushCovers'
    BY <1>1 DEF FlushCovers, Returns, WriterTypeOK
  <1> QED BY <1>4, <1>5, <1>6, <1>7, <1>8, <1>9, <1>10, <1>11

-------------------------------------------------------------------------------
(* The worker *)

\* What the first item of the queue is, and what is left behind it.
LEMMA HeadLeaves ==
  ASSUME WriterInv, ~ fatal, queue # <<>>, queue' = Tail(queue), NEW kept, kept = Len(log) + Len(batch)
  PROVE  /\ kept \in Nat /\ kept <= accepted /\ accepted \in Nat
         /\ queue[1].type = "event" =>
              /\ queue[1].n = kept + 1 /\ queue[1].n \in 1..MaxEvents /\ queue[1].by = Nobody
              /\ {queue'[i].n : i \in QueuedEvents'} = kept + 2 .. accepted
         /\ queue[1].type # "event" => {queue'[i].n : i \in QueuedEvents'} = kept + 1 .. accepted
         /\ \A i, j \in QueuedEvents' : i < j => queue'[i].n < queue'[j].n
         /\ queue[1].by # Nobody =>
              queue[1].by \in Callers /\ need[queue[1].by] <= kept /\ future[queue[1].by] = "pending"
  <1> USE DEF WriterInv
  <1>1. /\ Len(queue') = Len(queue) - 1 /\ DOMAIN queue' = 1..(Len(queue) - 1)
        /\ \A i \in 1..(Len(queue) - 1) : queue'[i] = queue[i + 1]
        /\ Len(queue) \in Nat \ {0} /\ DOMAIN queue = 1..Len(queue)
    BY Tails
  <1>2. kept \in Nat /\ kept <= accepted /\ accepted \in Nat /\ Len(log \o batch) = kept
    BY Kept, WriterAssumption DEF NothingLost, WriterTypeOK
  <1>3. {queue[i].n : i \in QueuedEvents} = kept + 1 .. accepted
    BY <1>2 DEF NothingLost
  <1>4. \A i \in DOMAIN queue : queue[i] \in Items
    BY DEF WriterTypeOK
  <1>5. QueuedEvents \subseteq 1..Len(queue) /\ QueuedEvents' = {i - 1 : i \in QueuedEvents \ {1}}
    BY <1>1 DEF QueuedEvents
  <1>6. {queue'[i].n : i \in QueuedEvents'} = {queue[i].n : i \in QueuedEvents \ {1}}
    <2>1. \A i \in QueuedEvents \ {1} : i - 1 \in 1..(Len(queue) - 1) /\ queue'[i - 1] = queue[i]
      BY <1>1, <1>5
    <2>2. \A i \in QueuedEvents' : i + 1 \in QueuedEvents \ {1} /\ queue'[i] = queue[i + 1]
      BY <1>1 DEF QueuedEvents
    <2>3. \A i \in QueuedEvents \ {1} : i - 1 \in QueuedEvents'
      BY <1>5
    <2> DEFINE m == queue'
               P == QueuedEvents'
               Q == QueuedEvents \ {1}
    <2>4. /\ \A i \in P : i + 1 \in Q /\ m[i] = queue[i + 1]
          /\ \A i \in Q : i - 1 \in P /\ m[i - 1] = queue[i]
      BY <2>1, <2>2, <2>3
    <2> HIDE DEF m, P, Q
    <2>5. {m[i].n : i \in P} = {queue[i].n : i \in Q}
      BY <2>4
    <2> QED BY <2>5 DEF m, P, Q
  <1>7. \A i, j \in QueuedEvents' : i < j => queue'[i].n < queue'[j].n
    <2> SUFFICES ASSUME NEW i \in QueuedEvents', NEW j \in QueuedEvents', i < j
                 PROVE  queue'[i].n < queue'[j].n
      OBVIOUS
    <2>1. i + 1 \in QueuedEvents /\ j + 1 \in QueuedEvents /\ i + 1 < j + 1
      BY <1>1 DEF QueuedEvents
    <2>2. queue'[i] = queue[i + 1] /\ queue'[j] = queue[j + 1]
      BY <1>1, <2>1 DEF QueuedEvents
    <2> QED BY <2>1, <2>2 DEF NothingLost
  <1>8. CASE queue[1].type = "event"
    <2>1. 1 \in QueuedEvents
      BY <1>1, <1>8 DEF QueuedEvents
    <2>2. queue[1].n \in kept + 1 .. accepted /\ queue[1].n \in Nat
      <3>1. queue[1].n \in kept + 1 .. accepted
        BY <1>3, <2>1
      <3> QED BY <1>2, <3>1
    <2>3. \A i \in QueuedEvents \ {1} : queue[1].n < queue[i].n /\ queue[i].n \in Nat
      <3> TAKE i \in QueuedEvents \ {1}
      <3>1. 1 < i
        BY <1>5
      <3>2. queue[i].n \in kept + 1 .. accepted
        BY <1>3
      <3> QED BY <1>2, <2>1, <3>1, <3>2 DEF NothingLost
    <2>4. queue[1].n = kept + 1
      <3>1. kept + 1 \in kept + 1 .. accepted
        BY <1>2, <2>2
      <3>2. PICK i \in QueuedEvents : queue[i].n = kept + 1
        BY <1>3, <3>1
      <3> QED BY <3>2, <2>2, <2>3, <1>2
    <2>5. {queue[i].n : i \in QueuedEvents \ {1}} = kept + 2 .. accepted
      <3>1. \A n \in kept + 2 .. accepted : \E i \in QueuedEvents \ {1} : queue[i].n = n
        <4> TAKE n \in kept + 2 .. accepted
        <4>1. n \in kept + 1 .. accepted /\ n # kept + 1
          BY <1>2
        <4>2. PICK i \in QueuedEvents : queue[i].n = n
          BY <1>3, <4>1
        <4> QED BY <4>1, <4>2, <2>4
      <3>2. \A i \in QueuedEvents \ {1} : queue[i].n \in kept + 2 .. accepted
        <4> TAKE i \in QueuedEvents \ {1}
        <4>1. queue[i].n \in kept + 1 .. accepted
          BY <1>3
        <4> QED BY <4>1, <2>3, <2>4, <1>2
      <3> QED BY <3>1, <3>2
    <2>6. queue[1].by = Nobody
      BY <1>1, <1>8 DEF BarriersAreAwaited
    <2>7. queue[1].n \in 1..MaxEvents
      BY <2>2, <1>2, WriterAssumption DEF WriterTypeOK
    <2> QED BY <1>2, <1>6, <1>7, <1>8, <2>4, <2>5, <2>6, <2>7
  <1>9. CASE queue[1].type # "event"
    <2>1. QueuedEvents \ {1} = QueuedEvents
      BY <1>9 DEF QueuedEvents
    <2>2. ASSUME queue[1].by # Nobody
          PROVE  queue[1].by \in Callers /\ need[queue[1].by] <= kept /\ future[queue[1].by] = "pending"
      <3> DEFINE c == queue[1].by
      <3>1. c \in Callers /\ future[c] = "pending"
        BY <1>1, <1>4, <2>2 DEF BarriersAreAwaited, Items
      <3>2. need[c] \in Nat /\ need[c] <= accepted
        BY <3>1, WriterAssumption DEF BarriersComeAfter, WriterTypeOK
      <3>3. ASSUME need[c] > kept PROVE FALSE
        <4>1. need[c] \in kept + 1 .. accepted
          BY <3>2, <3>3, <1>2
        <4>2. PICK j \in QueuedEvents : queue[j].n = need[c]
          BY <4>1, <1>3
        <4>3. j \in 1..Len(queue) /\ queue[j].type = "event" /\ queue[j].n <= need[c]
          BY <4>2, <3>2, <1>1 DEF QueuedEvents
        <4>4. j < 1
          BY <4>3, <2>2, <1>1 DEF BarriersComeAfter
        <4> QED BY <4>3, <4>4
      <3> QED BY <3>1, <3>2, <3>3, <1>2
    <2> QED BY <1>2, <1>3, <1>6, <1>7, <1>9, <2>1, <2>2
  <1> QED BY <1>8, <1>9

\* Taking the first of a batch, or an item that needs no batch.
LEMMA TakeFirstKeepsInv ==
  ASSUME WriterInv, TakeFirst
  PROVE  WriterInv'
  <1> USE DEF WriterInv
  <1> DEFINE item == queue[1]
  <1>1. /\ worker = "idle" /\ queue # <<>> /\ queue' = Tail(queue) /\ call' = Woken(call)
             /\ stopTask' = WokenStop
        /\ worker' = CASE item.type = "event"   -> "collecting"
                       [] item.type = "barrier" -> "idle"
                       [] item.type = "stop"    -> "ended"
        /\ batch' = IF item.type = "event" THEN <<item.n>> ELSE <<>>
        /\ future' = IF item.by # Nobody /\ future[item.by] = "pending"
                     THEN [future EXCEPT ![item.by] = "done"] ELSE future
        /\ UNCHANGED <<log, accepted, flushes, barrier, lastBatch, stopping, fatal, result, need>>
    BY Tails DEF TakeFirst, TakesOne, Resolve, produced
  <1>2. ~ fatal /\ batch = <<>> /\ Len(batch) = 0 /\ barrier = Nobody /\ ~ lastBatch
    BY <1>1 DEF WorkerHolds
  <1>3. /\ queue' \in Seq(Items) /\ Len(queue') = Len(queue) - 1 /\ DOMAIN queue' = 1..(Len(queue) - 1)
        /\ \A i \in 1..(Len(queue) - 1) : queue'[i] = queue[i + 1]
        /\ Len(queue) \in Nat \ {0} /\ DOMAIN queue = 1..Len(queue)
    BY <1>1, Tails
  <1>4. \A i \in DOMAIN queue : queue[i] \in Items
    BY DEF WriterTypeOK
  <1> DEFINE kept == Len(log)
  <1>5. /\ kept \in Nat /\ kept <= accepted /\ accepted \in Nat
        /\ item.type = "event" =>
              /\ item.n = kept + 1 /\ item.n \in 1..MaxEvents /\ item.by = Nobody
              /\ {queue'[i].n : i \in QueuedEvents'} = kept + 2 .. accepted
        /\ item.type # "event" => {queue'[i].n : i \in QueuedEvents'} = kept + 1 .. accepted
        /\ \A i, j \in QueuedEvents' : i < j => queue'[i].n < queue'[j].n
        /\ item.by # Nobody => item.by \in Callers /\ need[item.by] <= kept /\ future[item.by] = "pending"
    <2>1. kept = Len(log) + Len(batch)
      BY <1>2, Kept
    <2> QED BY <1>1, <1>2, <2>1, HeadLeaves
  <1>6. item.type \in {"event", "barrier", "stop"} /\ (item.type = "stop" => queue' = <<>>)
    <2>1. item.type \in {"event", "barrier", "stop"}
      BY <1>3, <1>4 DEF Items
    <2>2. item.type = "stop" => Len(queue) = 1
      BY <1>3 DEF StopIsLast
    <2> QED BY <2>1, <2>2, <1>3
  <1> HIDE DEF kept
  <1>7. WriterTypeOK'
    <2>1. batch' \in Seq(1..MaxEvents) /\ Len(batch') <= BatchSize
      <3>1. batch' = IF item.type = "event" THEN <<item.n>> ELSE <<>>
        BY <1>1
      <3>2. item.type = "event" => item.n \in 1..MaxEvents
        BY <1>5
      <3>3. BatchSize \in Nat /\ BatchSize >= 1
        BY WriterAssumption
      <3>4. CASE item.type = "event"
        <4> DEFINE n == item.n
        <4>1. n \in 1..MaxEvents /\ batch' = <<n>>
          BY <3>1, <3>2, <3>4
        <4> HIDE DEF n
        <4> QED BY <4>1, <3>3
      <3>5. CASE item.type # "event"
        BY <3>1, <3>3, <3>5
      <3> QED BY <3>4, <3>5
    <2>2. future' \in [Callers -> {"none", "pending", "done", "failed"}]
      BY <1>1, <1>5 DEF WriterTypeOK
    <2> QED BY <1>1, <1>3, <1>6, <2>1, <2>2, Waking, WriterAssumption DEF WriterTypeOK
  <1>8. RoomForHandlers'
    BY <1>1, <1>7, Waking, RoomKept DEF WriterTypeOK, Handlers, Handling
  <1>9. WorkerHolds'
    BY <1>1, <1>2, <1>6 DEF WorkerHolds, WorkerDone
  <1>10. StopIsLast'
    <2>1. \A i \in DOMAIN queue : queue[i].type = "stop" => i = Len(queue) /\ WokenStop \in {"join", "done"}
      BY Waking DEF StopIsLast
    <2>2. stopTask' # "none" <=> stopping'
      BY <1>1, Waking DEF StopIsLast
    <2>3. \A i \in DOMAIN queue' : queue'[i].type = "stop" => i = Len(queue')
            /\ stopTask' \in {"join", "done"}
      BY <1>1, <1>3, <2>1
    <2>4. worker' = "ended" => queue' = <<>> /\ stopTask' \in {"join", "done"}
      BY <1>1, <1>3, <1>6, <2>1
    <2> QED BY <1>1, <1>2, <2>2, <2>3, <2>4 DEF StopIsLast
  <1>11. NothingLost'
    <2>1. CASE item.type = "event"
      <3>1. /\ Len(log' \o batch') = kept + 1 /\ DOMAIN (log' \o batch') = 1..(kept + 1)
            /\ (log' \o batch')[kept + 1] = kept + 1
            /\ \A i \in 1..kept : (log' \o batch')[i] = log[i]
        BY <1>1, <1>5, <2>1 DEF WriterTypeOK, kept
      <3>2. \A i \in 1..kept : log[i] = i
        BY <1>2, Kept DEF NothingLost, kept
      <3>3. {queue'[i].n : i \in QueuedEvents'} = (kept + 1) + 1 .. accepted /\ kept + 1 <= accepted
        <4>1. item.n \in Len(log \o batch) + 1 .. accepted
          BY <1>2, <1>3, <2>1 DEF NothingLost, QueuedEvents
        <4> QED BY <1>5, <2>1, <4>1
      <3>4. \A i \in 1..(kept + 1) : (log' \o batch')[i] = i
        BY <1>5, <3>1, <3>2
      <3> QED BY <1>1, <1>5, <3>1, <3>3, <3>4 DEF NothingLost
    <2>2. CASE item.type # "event"
      <3>1. log' \o batch' = log \o batch /\ Len(log \o batch) = kept
        BY <1>1, <1>2, <2>2, Kept DEF kept
      <3> QED BY <1>1, <1>2, <1>5, <2>2, <3>1 DEF NothingLost
    <2> QED BY <2>1, <2>2
  <1>12. BarriersAreAwaited'
    <2>1. \A i \in DOMAIN queue' : i + 1 \in DOMAIN queue /\ queue'[i] = queue[i + 1] /\ i + 1 # 1
      BY <1>3
    <2>2. \A i \in DOMAIN queue' : queue'[i].by # Nobody =>
             /\ queue'[i].by # item.by /\ queue'[i].type = "barrier" /\ queue'[i].by \in Callers
             /\ call[queue'[i].by] = "flush_await" /\ future[queue'[i].by] = "pending"
      BY <2>1, <1>3, <1>4 DEF BarriersAreAwaited, Items
    <2>3. \A i \in DOMAIN queue' : queue'[i].by # Nobody =>
             /\ call'[queue'[i].by] = "flush_await" /\ future'[queue'[i].by] = "pending"
      BY <2>2, <1>1, <1>5, Waking DEF WriterTypeOK
    <2>4. \A i, j \in DOMAIN queue' : queue'[i].by = queue'[j].by => i = j \/ queue'[i].by = Nobody
      <3> TAKE i, j \in DOMAIN queue'
      <3>1. i \in Int /\ j \in Int /\ (i + 1 = j + 1 => i = j)
        BY <1>3
      <3> QED BY <2>1, <3>1 DEF BarriersAreAwaited
    <2>5. item.by # Nobody => call[item.by] = "flush_await"
      BY <1>3 DEF BarriersAreAwaited
    <2>6. \A c \in Callers : call'[c] \in {"flush", "flush_asleep"} => future'[c] = "pending"
      BY <1>1, <1>2, <1>5, <2>5, Waking DEF BarriersAreAwaited, WriterTypeOK
    <2> QED BY <1>1, <1>2, <2>2, <2>3, <2>4, <2>6 DEF BarriersAreAwaited
  <1>13. BarriersComeAfter'
    <2>1. \A i, j \in DOMAIN queue' :
             queue'[i].by # Nobody /\ queue'[j].type = "event" /\ queue'[j].n <= need[queue'[i].by] => j < i
      <3> TAKE i, j \in DOMAIN queue'
      <3>1. i \in Int /\ j \in Int /\ i + 1 \in DOMAIN queue /\ j + 1 \in DOMAIN queue
            /\ queue'[i] = queue[i + 1] /\ queue'[j] = queue[j + 1] /\ (j + 1 < i + 1 => j < i)
        BY <1>3
      <3> QED BY <3>1 DEF BarriersComeAfter
    <2>2. \A c \in Callers : future'[c] = "done" => need[c] <= Len(log)
      BY <1>1, <1>5 DEF BarriersComeAfter, WriterTypeOK, kept
    <2> QED BY <1>1, <1>2, <2>1, <2>2 DEF BarriersComeAfter
  <1>14. FlushCovers'
    BY <1>1 DEF FlushCovers
  <1> QED BY <1>7, <1>8, <1>9, <1>10, <1>11, <1>12, <1>13, <1>14

\* Taking the next of a batch; what ends the batch is remembered until the fan-out.
LEMMA TakeNextKeepsInv ==
  ASSUME WriterInv, TakeNext
  PROVE  WriterInv'
  <1> USE DEF WriterInv
  <1> DEFINE item == queue[1]
  <1>1. /\ worker = "collecting" /\ queue # <<>> /\ Len(batch) < BatchSize
        /\ queue' = Tail(queue) /\ call' = Woken(call) /\ stopTask' = WokenStop
        /\ worker' = IF item.type = "event" THEN "collecting" ELSE "persisting"
        /\ batch' = IF item.type = "event" THEN Append(batch, item.n) ELSE batch
        /\ barrier' = item.by
        /\ lastBatch' = (item.type = "stop")
        /\ UNCHANGED <<log, accepted, flushes, stopping, fatal, future, result, need>>
    BY Tails DEF TakeNext, TakesOne, produced
  <1>2. ~ fatal /\ barrier = Nobody /\ ~ lastBatch
    BY <1>1 DEF WorkerHolds
  <1>3. /\ queue' \in Seq(Items) /\ Len(queue') = Len(queue) - 1 /\ DOMAIN queue' = 1..(Len(queue) - 1)
        /\ \A i \in 1..(Len(queue) - 1) : queue'[i] = queue[i + 1]
        /\ Len(queue) \in Nat \ {0} /\ DOMAIN queue = 1..Len(queue)
    BY <1>1, Tails
  <1>4. \A i \in DOMAIN queue : queue[i] \in Items
    BY DEF WriterTypeOK
  <1> DEFINE kept == Len(log) + Len(batch)
  <1>5. /\ kept \in Nat /\ kept <= accepted /\ accepted \in Nat
        /\ item.type = "event" =>
              /\ item.n = kept + 1 /\ item.n \in 1..MaxEvents /\ item.by = Nobody
              /\ {queue'[i].n : i \in QueuedEvents'} = kept + 2 .. accepted
        /\ item.type # "event" => {queue'[i].n : i \in QueuedEvents'} = kept + 1 .. accepted
        /\ \A i, j \in QueuedEvents' : i < j => queue'[i].n < queue'[j].n
        /\ item.by # Nobody => item.by \in Callers /\ need[item.by] <= kept /\ future[item.by] = "pending"
    BY <1>1, <1>2, HeadLeaves
  <1>6. /\ Len(log \o batch) = kept /\ DOMAIN (log \o batch) = 1..kept /\ Len(log) \in Nat
             /\ Len(batch) \in Nat
        /\ batch \in Seq(1..MaxEvents) /\ log \in Seq(1..MaxEvents)
    BY Kept DEF WriterTypeOK
  <1>7. item.type = "stop" => queue' = <<>>
    <2>1. item.type = "stop" => Len(queue) = 1
      BY <1>3 DEF StopIsLast
    <2> QED BY <2>1, <1>3
  <1>8. /\ item.type = "event" => Len(batch') = Len(batch) + 1
        /\ item.type # "event" => batch' = batch
        /\ batch' \in Seq(1..MaxEvents)
    <2>1. CASE item.type = "event"
      <3> DEFINE n == item.n
      <3>1. n \in 1..MaxEvents /\ batch' = Append(batch, n)
        BY <1>1, <1>5, <2>1
      <3> HIDE DEF n
      <3> QED BY <3>1, <1>6, <2>1
    <2> QED BY <2>1, <1>1, <1>6
  <1>9. WriterTypeOK'
    <2>1. barrier' \in Callers \union {Nobody}
      BY <1>1, <1>5
    <2> QED BY <1>1, <1>3, <1>6, <1>8, <2>1, Waking, WriterAssumption DEF WriterTypeOK
  <1>10. RoomForHandlers'
    BY <1>1, <1>9, Waking, RoomKept DEF WriterTypeOK, Handlers, Handling
  <1>11. WorkerHolds'
    BY <1>1, <1>2, <1>5 DEF WorkerHolds, WorkerDone
  <1>12. StopIsLast'
    <2>1. \A i \in DOMAIN queue : queue[i].type = "stop" => i = Len(queue) /\ WokenStop \in {"join", "done"}
      BY Waking DEF StopIsLast
    <2>2. stopTask' # "none" <=> stopping'
      BY <1>1, Waking DEF StopIsLast
    <2>3. \A i \in DOMAIN queue' : queue'[i].type = "stop" => i = Len(queue')
            /\ stopTask' \in {"join", "done"}
      BY <1>1, <1>3, <2>1
    <2>4. ASSUME lastBatch' PROVE queue' = <<>> /\ stopTask' \in {"join", "done"}
      <3>1. item.type = "stop"
        BY <1>1, <2>4
      <3>2. 1 \in DOMAIN queue
        BY <1>3
      <3> QED BY <1>1, <1>7, <2>1, <3>1, <3>2
    <2> QED BY <1>1, <2>2, <2>3, <2>4 DEF StopIsLast
  <1>13. NothingLost'
    <2>1. CASE item.type = "event"
      <3> DEFINE n == item.n
      <3>1. n = kept + 1 /\ n \in 1..MaxEvents /\ batch' = Append(batch, n) /\ log' = log
        BY <1>1, <1>5, <2>1
      <3> HIDE DEF n
      <3>2. /\ Len(log' \o batch') = kept + 1 /\ DOMAIN (log' \o batch') = 1..(kept + 1)
            /\ (log' \o batch')[kept + 1] = kept + 1
            /\ \A i \in 1..kept : (log' \o batch')[i] = (log \o batch)[i]
        BY <3>1, <1>6
      <3>3. \A i \in 1..kept : (log \o batch)[i] = i
        BY <1>2, <1>6 DEF NothingLost
      <3>4. {queue'[i].n : i \in QueuedEvents'} = (kept + 1) + 1 .. accepted /\ kept + 1 <= accepted
        <4>1. item.n \in Len(log \o batch) + 1 .. accepted
          BY <1>2, <1>3, <2>1 DEF NothingLost, QueuedEvents
        <4> QED BY <1>5, <1>6, <2>1, <4>1
      <3>5. \A i \in 1..(kept + 1) : (log' \o batch')[i] = i
        BY <1>5, <3>2, <3>3
      <3> QED BY <1>1, <1>5, <3>2, <3>4, <3>5 DEF NothingLost
    <2>2. CASE item.type # "event"
      <3>1. log' \o batch' = log \o batch
        BY <1>1, <2>2
      <3> QED BY <1>1, <1>2, <1>5, <1>6, <2>2, <3>1 DEF NothingLost
    <2> QED BY <2>1, <2>2
  <1> HIDE DEF kept
  <1>14. BarriersAreAwaited'
    <2>1. \A i \in DOMAIN queue' : i + 1 \in DOMAIN queue /\ queue'[i] = queue[i + 1] /\ i + 1 # 1
      BY <1>3
    <2>2. \A i \in DOMAIN queue' : queue'[i].by # Nobody =>
             /\ queue'[i].by # item.by /\ queue'[i].type = "barrier" /\ queue'[i].by \in Callers
             /\ call[queue'[i].by] = "flush_await" /\ future[queue'[i].by] = "pending"
      BY <2>1, <1>3, <1>4 DEF BarriersAreAwaited, Items
    <2>3. \A i \in DOMAIN queue' : queue'[i].by # Nobody =>
             /\ call'[queue'[i].by] = "flush_await" /\ future'[queue'[i].by] = "pending"
      BY <2>2, <1>1, Waking
    <2>4. \A i, j \in DOMAIN queue' : queue'[i].by = queue'[j].by => i = j \/ queue'[i].by = Nobody
      <3> TAKE i, j \in DOMAIN queue'
      <3>1. i \in Int /\ j \in Int /\ (i + 1 = j + 1 => i = j)
        BY <1>3
      <3> QED BY <2>1, <3>1 DEF BarriersAreAwaited
    <2>5. item.by # Nobody => call'[item.by] = "flush_await" /\ future'[item.by] = "pending"
      BY <1>1, <1>3, <1>5, Waking DEF BarriersAreAwaited
    <2>6. \A c \in Callers : call'[c] \in {"flush", "flush_asleep"} => future'[c] = "pending"
      BY <1>1, <1>2, Waking DEF BarriersAreAwaited
    <2> QED BY <1>1, <1>2, <2>2, <2>3, <2>4, <2>5, <2>6 DEF BarriersAreAwaited
  <1>15. BarriersComeAfter'
    <2>1. \A i, j \in DOMAIN queue' :
             queue'[i].by # Nobody /\ queue'[j].type = "event" /\ queue'[j].n <= need[queue'[i].by] => j < i
      <3> TAKE i, j \in DOMAIN queue'
      <3>1. i \in Int /\ j \in Int /\ i + 1 \in DOMAIN queue /\ j + 1 \in DOMAIN queue
            /\ queue'[i] = queue[i + 1] /\ queue'[j] = queue[j + 1] /\ (j + 1 < i + 1 => j < i)
        BY <1>3
      <3> QED BY <3>1 DEF BarriersComeAfter
    <2>2. item.by # Nobody => need[item.by] <= Len(log) + Len(batch) /\ batch' = batch
      <3>1. item.by # Nobody => item.type # "event"
        BY <1>5
      <3> QED BY <1>5, <1>8, <3>1 DEF kept
    <2> QED BY <1>1, <2>1, <2>2 DEF BarriersComeAfter
  <1>16. FlushCovers'
    BY <1>1 DEF FlushCovers
  <1> QED BY <1>9, <1>10, <1>11, <1>12, <1>13, <1>14, <1>15, <1>16

\* The commit moves the batch behind the log; before and after it a step may change who waits.
LEMMA CommitKeepsInv ==
  ASSUME WriterInv, Commit
  PROVE  WriterInv'
  <1> USE DEF WriterInv
  <1>1. /\ worker = "persisting" /\ worker' = "committed" /\ batch' = <<>> /\ log' = log \o batch
        /\ UNCHANGED <<flushes, accepted, queue, barrier, lastBatch, stopping, stopTask, fatal, call, future,
                       result, need>>
    BY DEF Commit, stopVars
  <1>2. ~ fatal /\ batch \in Seq(1..MaxEvents) /\ log \in Seq(1..MaxEvents)
    BY <1>1 DEF WorkerHolds, WriterTypeOK
  <1>3. /\ log' \in Seq(1..MaxEvents) /\ batch' \in Seq(1..MaxEvents) /\ Len(batch') = 0
        /\ Len(log') = Len(log) + Len(batch) /\ log' \o batch' = log \o batch
        /\ Len(log) \in Nat /\ Len(batch) \in Nat
    BY <1>1, <1>2
  <1>4. WriterTypeOK'
    BY <1>1, <1>3, WriterAssumption DEF WriterTypeOK
  <1>5. RoomForHandlers'
    BY <1>1, <1>4, RoomKept DEF Handlers, Handling
  <1>6. WorkerHolds' /\ StopIsLast'
    BY <1>1 DEF WorkerHolds, WorkerDone, StopIsLast
  <1>7. NothingLost'
    BY <1>1, <1>2, <1>3 DEF NothingLost, QueuedEvents
  <1>8. BarriersAreAwaited'
    BY <1>1 DEF BarriersAreAwaited
  <1>9. BarriersComeAfter' /\ FlushCovers'
    BY <1>1, <1>2, <1>3 DEF BarriersComeAfter, FlushCovers, WriterTypeOK
  <1> QED BY <1>4, <1>5, <1>6, <1>7, <1>8, <1>9

\* The batch is full, or its deadline has passed.
LEMMA BatchEndsKeepsInv ==
  ASSUME WriterInv, BatchEnds
  PROVE  WriterInv'
  <1> USE DEF WriterInv
  <1>1. /\ worker = "collecting" /\ worker' = "persisting"
        /\ UNCHANGED <<log, flushes, accepted, queue, batch, barrier, lastBatch, stopping, stopTask, fatal,
             call,
                       future, result, need>>
    BY DEF BatchEnds, LeftByDeadline, stopVars, produced
  <1>2. WriterTypeOK'
    BY <1>1 DEF WriterTypeOK
  <1>3. RoomForHandlers'
    BY <1>1, <1>2, RoomKept DEF Handlers, Handling
  <1>4. WorkerHolds' /\ StopIsLast' /\ NothingLost' /\ BarriersAreAwaited' /\ BarriersComeAfter'
          /\ FlushCovers'
    BY <1>1 DEF WorkerHolds, WorkerDone, StopIsLast, NothingLost, QueuedEvents, BarriersAreAwaited,
       BarriersComeAfter, FlushCovers
  <1> QED BY <1>2, <1>3, <1>4

\* The flush whose barrier ended the batch is answered once all it covers is in the log.
LEMMA FanOutKeepsInv ==
  ASSUME WriterInv, FanOut
  PROVE  WriterInv'
  <1> USE DEF WriterInv
  <1>1. /\ worker = "committed" /\ worker' = (IF lastBatch THEN "ended" ELSE "idle") /\ barrier' = Nobody
        /\ future' = IF barrier # Nobody /\ future[barrier] = "pending"
                     THEN [future EXCEPT ![barrier] = "done"] ELSE future
        /\ UNCHANGED <<log, flushes, accepted, queue, batch, lastBatch, stopping, stopTask, fatal, call,
             result,
                       need>>
    BY DEF FanOut, AfterBatch, Resolve, stopVars, produced
  <1>2. ~ fatal /\ batch = <<>> /\ Len(batch) = 0 /\ (lastBatch => queue = <<>>)
    BY <1>1 DEF WorkerHolds, StopIsLast
  <1>3. barrier # Nobody => /\ barrier \in Callers /\ call[barrier] = "flush_await"
                            /\ need[barrier] <= Len(log)
    BY <1>2, Kept DEF BarriersAreAwaited, BarriersComeAfter, WriterTypeOK
  <1>4. WriterTypeOK'
    BY <1>1, <1>3 DEF WriterTypeOK
  <1>5. RoomForHandlers'
    BY <1>1, <1>4, RoomKept DEF Handlers, Handling
  <1>6. WorkerHolds' /\ StopIsLast'
    BY <1>1, <1>2 DEF WorkerHolds, WorkerDone, StopIsLast
  <1>7. NothingLost'
    BY <1>1 DEF NothingLost, QueuedEvents
  <1>8. BarriersAreAwaited'
    BY <1>1, <1>2, <1>3 DEF BarriersAreAwaited, WriterTypeOK
  <1>9. BarriersComeAfter' /\ FlushCovers'
    BY <1>1, <1>3 DEF BarriersComeAfter, FlushCovers, WriterTypeOK
  <1> QED BY <1>4, <1>5, <1>6, <1>7, <1>8, <1>9

\* A dead worker leaves nothing pending behind it.
LEMMA DeathKeepsInv ==
  ASSUME WriterInv, WorkerDies
  PROVE  WriterInv'
  <1> USE DEF WriterInv
  <1>1. /\ worker' = "died" /\ fatal' = TRUE /\ queue' = <<>> /\ call' = Woken(call) /\ stopTask' = WokenStop
        /\ worker \notin {"ended", "died"}
        /\ future' = [c \in Callers |-> IF future[c] = "pending" THEN "failed" ELSE future[c]]
        /\ UNCHANGED <<log, flushes, accepted, batch, barrier, lastBatch, stopping, result, need>>
    BY DEF WorkerDies, FailBarriers, produced
  <1>2. WriterTypeOK'
    BY <1>1, Waking, WriterAssumption DEF WriterTypeOK
  <1>3. RoomForHandlers'
    BY <1>1, <1>2, Waking, RoomKept DEF WriterTypeOK, Handlers, Handling
  <1>4. WorkerHolds' /\ StopIsLast' /\ NothingLost'
    BY <1>1, Waking DEF WorkerHolds, WorkerDone, StopIsLast, NothingLost
  <1>5. BarriersAreAwaited' /\ BarriersComeAfter' /\ FlushCovers'
    BY <1>1 DEF BarriersAreAwaited, BarriersComeAfter, FlushCovers, WriterTypeOK
  <1> QED BY <1>2, <1>3, <1>4, <1>5

-------------------------------------------------------------------------------
(* The stop *)

\* stop puts its item, or waits for room to do so.
LEMMA StopKeepsInv ==
  ASSUME WriterInv, StopBegins \/ StopPuts \/ StopEnds
  PROVE  WriterInv'
  <1> USE DEF WriterInv
  <1>1. CASE StopBegins
    <2>1. /\ stopTask = "none" /\ stopping' = TRUE /\ stopTask' = "put" /\ call' = Woken(call)
          /\ UNCHANGED <<log, flushes, accepted, queue, worker, batch, barrier, lastBatch, fatal, future,
               result,
                         need>>
      BY <1>1 DEF StopBegins, workerVars, produced
    <2>2. WriterTypeOK'
      BY <2>1, Waking DEF WriterTypeOK
    <2>3. RoomForHandlers'
      BY <2>1, <2>2, Waking, RoomKept DEF WriterTypeOK, Handlers, Handling
    <2>4. WorkerHolds' /\ StopIsLast' /\ NothingLost'
      BY <2>1 DEF WorkerHolds, WorkerDone, StopIsLast, NothingLost, QueuedEvents
    <2>5. BarriersAreAwaited'
      <3>1. \A i \in DOMAIN queue : queue[i].by # Nobody => queue[i].by \in Callers
        <4>1. \A i \in DOMAIN queue : queue[i] \in Items
          BY DEF WriterTypeOK
        <4> QED BY <4>1 DEF Items
      <3> QED BY <2>1, <3>1, Waking DEF BarriersAreAwaited, WriterTypeOK
    <2>6. BarriersComeAfter' /\ FlushCovers'
      BY <2>1 DEF BarriersComeAfter, FlushCovers
    <2> QED BY <2>2, <2>3, <2>4, <2>5, <2>6
  <1>2. CASE StopPuts /\ Room
    <2> DEFINE new == StopItem
    <2>1. new \in Items /\ new.type = "stop" /\ new.by = Nobody
      BY ItemTypes DEF StopItem
    <2> HIDE DEF new
    <2>2. /\ stopTask = "put" /\ ~ WorkerDone /\ Len(queue) < QueueCap
          /\ queue' = Append(queue, new) /\ stopTask' = "join"
          /\ UNCHANGED <<log, flushes, accepted, worker, batch, barrier, lastBatch, stopping, fatal, call,
               future,
                         result, need>>
      BY <1>2 DEF StopPuts, Room, workerVars, produced, new
    <2>3. /\ queue' \in Seq(Items) /\ Len(queue') = Len(queue) + 1
          /\ \A i \in 1..Len(queue) : queue'[i] = queue[i]
          /\ queue'[Len(queue) + 1] = new
          /\ Len(queue) \in Nat /\ DOMAIN queue = 1..Len(queue) /\ DOMAIN queue' = 1..(Len(queue) + 1)
      BY <2>1, <2>2, Appends
    <2>4. WriterTypeOK'
      BY <2>2, <2>3, WriterAssumption DEF WriterTypeOK
    <2>5. RoomForHandlers'
      BY <2>2, <2>4, RoomKept DEF Handlers, Handling
    <2>6. WorkerHolds'
      BY <2>2 DEF WorkerHolds, WorkerDone
    <2>7. StopIsLast'
      BY <2>2, <2>3 DEF StopIsLast, WorkerDone
    <2>8. NothingLost'
      <3>1. QueuedEvents' = QueuedEvents /\ QueuedEvents \subseteq 1..Len(queue)
        BY <2>1, <2>3 DEF QueuedEvents
      <3>2. {queue'[i].n : i \in QueuedEvents'} = {queue[i].n : i \in QueuedEvents}
        BY <3>1, <2>3
      <3> QED BY <2>2, <2>3, <3>1, <3>2 DEF NothingLost
    <2>9. BarriersAreAwaited'
      BY <2>1, <2>2, <2>3 DEF BarriersAreAwaited
    <2>10. BarriersComeAfter' /\ FlushCovers'
      BY <2>1, <2>2, <2>3 DEF BarriersComeAfter, FlushCovers
    <2> QED BY <2>4, <2>5, <2>6, <2>7, <2>8, <2>9, <2>10
  <1>3. CASE (StopPuts /\ ~ Room) \/ StopEnds
    <2>1. /\ \/ stopTask = "put" /\ stopTask' = "asleep"
             \/ stopTask \in {"put", "join"} /\ stopTask' = "done"
          /\ UNCHANGED <<log, flushes, accepted, queue, worker, batch, barrier, lastBatch, stopping, fatal,
               call,
                         future, result, need>>
      BY <1>3 DEF StopPuts, StopEnds, workerVars, produced
    <2>2. WriterTypeOK'
      BY <2>1 DEF WriterTypeOK
    <2>3. RoomForHandlers'
      BY <2>1, <2>2, RoomKept DEF Handlers, Handling
    <2>4. WorkerHolds' /\ StopIsLast' /\ NothingLost' /\ BarriersAreAwaited' /\ BarriersComeAfter'
            /\ FlushCovers'
      BY <2>1 DEF WorkerHolds, WorkerDone, StopIsLast, NothingLost, QueuedEvents, BarriersAreAwaited,
         BarriersComeAfter, FlushCovers
    <2> QED BY <2>2, <2>3, <2>4
  <1> QED BY <1>1, <1>2, <1>3

-------------------------------------------------------------------------------
(* The theorems *)

\* An empty hub has the invariant.
LEMMA WriterInitInv == WriterInit => WriterInv
  <1> SUFFICES ASSUME WriterInit
               PROVE  WriterInv
    OBVIOUS
  <1>1. WriterTypeOK
    <2>1. /\ <<>> \in Seq(1..MaxEvents) /\ <<>> \in Seq(Items) /\ Len(<<>>) = 0
          /\ 0 \in 0..MaxEvents /\ 0 \in 0..MaxFlushes /\ 0 <= QueueCap /\ 0 <= BatchSize
      BY WriterAssumption
    <2> QED BY <2>1 DEF WriterInit, WriterTypeOK
  <1>2. RoomForHandlers
    <2>1. Handlers = {}
      BY DEF WriterInit, Handlers, Handling
    <2> QED BY <2>1, FS_EmptySet, WriterAssumption DEF RoomForHandlers, WriterInit
  <1>3. NothingLost
    <2>1. QueuedEvents = {}
      BY DEF WriterInit, QueuedEvents
    <2> QED BY <2>1 DEF WriterInit, NothingLost
  <1>4. WorkerHolds /\ StopIsLast /\ BarriersAreAwaited /\ BarriersComeAfter /\ FlushCovers
    BY DEF WriterInit, WorkerHolds, WorkerDone, StopIsLast, BarriersAreAwaited, BarriersComeAfter, FlushCovers
  <1> QED BY <1>1, <1>2, <1>3, <1>4 DEF WriterInv

\* The invariant is about the variables alone.
LEMMA StutterInv == WriterInv /\ UNCHANGED writerVars => WriterInv'
  BY DEF WriterInv, writerVars, produced, workerVars, stopVars, WriterTypeOK, RoomForHandlers, Handlers,
     Handling, NothingLost,
     QueuedEvents, WorkerHolds, WorkerDone, StopIsLast, BarriersAreAwaited, BarriersComeAfter, FlushCovers

\* Every step keeps the invariant.
LEMMA NextInv == WriterInv /\ [WriterNext]_writerVars => WriterInv'
  <1> SUFFICES ASSUME WriterInv, [WriterNext]_writerVars
               PROVE  WriterInv'
    OBVIOUS
  <1>1. CASE \E c \in Callers : BeginHandle(c) \/ BeginFlush(c) \/ Cancelled(c) \/ CallStep(c)
    BY <1>1, CallsKeepInv, PutsKeepInv, CancellationKeepsInv DEF CallStep
  <1>2. CASE WorkerStep
    BY <1>2, TakeFirstKeepsInv, TakeNextKeepsInv, BatchEndsKeepsInv, CommitKeepsInv, FanOutKeepsInv
       DEF WorkerStep
  <1>3. CASE WorkerDies
    BY <1>3, DeathKeepsInv
  <1>4. CASE StopBegins \/ StopStep
    BY <1>4, StopKeepsInv DEF StopStep
  <1>5. CASE UNCHANGED writerVars
    BY <1>5, StutterInv
  <1> QED BY <1>1, <1>2, <1>3, <1>4, <1>5 DEF WriterNext

(***************************************************************************)
(* The invariant holds however callers, worker and stop interleave, also   *)
(* when callers are cancelled and when the worker dies.                    *)
(***************************************************************************)
THEOREM WriterInvHolds == WriterSpec => []WriterInv
  BY WriterInitInv, NextInv, PTL DEF WriterSpec

(***************************************************************************)
(* For any queue, batch size and callers: what handle has accepted is in   *)
(* the log, the batch or the queue, in order; a flush that returned covers *)
(* what came before it; and a stop that found a living worker drains.      *)
(***************************************************************************)
THEOREM AcceptedIsStored == WriterSpec => []BarriersHold
  <1>1. WriterInv => CleanStopDrains
    <2> SUFFICES ASSUME WriterInv, worker = "ended"
                 PROVE  Len(log) = accepted
      BY DEF CleanStopDrains
    <2>1. ~ fatal /\ batch = <<>> /\ queue = <<>>
      BY DEF WriterInv, WorkerHolds, StopIsLast
    <2>2. QueuedEvents = {}
      BY <2>1 DEF QueuedEvents
    <2>3. Len(log \o batch) + 1 .. accepted = {}
      BY <2>1, <2>2 DEF WriterInv, NothingLost
    <2>4. Len(log \o batch) = Len(log) /\ Len(log) \in Nat /\ accepted \in Nat /\ Len(log) <= accepted
      BY <2>1, Kept, WriterAssumption DEF WriterInv, NothingLost, WriterTypeOK
    <2> QED BY <2>3, <2>4
  <1>2. WriterInv => BarriersHold
    BY <1>1 DEF WriterInv, BarriersHold
  <1> QED BY <1>2, WriterInvHolds, PTL

-------------------------------------------------------------------------------
(* The inductive invariant *)

\* A process that works holds the lock of its home.
WorkersHoldLock == \A d \in Working : lock[Home(d)] = d

\* The stages in which a process listens, and those that come after it announced itself.
Listening == {"bound", "serving"}
Announced == {"serving", "cleaning", "removing", "unlinking", "unlocking", "gone"}

\* Whoever has the port listens, ...
PortIsOpen == port # None => daemon[port] \in Listening

\* ... and a control file is of a process that has announced itself, dead or alive.
RecordsAreOld == \A h \in Homes : control[h] # None => daemon[control[h]] \in Announced

\* A process is spawned once, by its own launch.
SpawnedOnce == \A l \in Launches : cmd[l].at \in {"idle", "missing"} => daemon[l] = "none"

\* A command knows a record from the moment it asks, and the record was announced by then;
\* one that gave up has asked.
Unread  == {"idle", "missing", "waiting", "pinging", "failing"}
Asking  == {"asking", "settling", "refused"}
ReadsFirst ==
    \A x \in Commands :
        /\ cmd[x].at \in Unread => Of(x) = None
        /\ cmd[x].at \in Asking \/ x \in late => Of(x) # None
        /\ Of(x) # None => daemon[Of(x)] \in Announced

\* The port that was refused stays closed to the process that was asked.
RefusedIsClosed == \A x \in Commands : cmd[x].at = "refused" => port # Of(x)

\* What a command told is still true.
ToldIsTrue ==
    /\ \A l \in Launches : told[l] = "failed" => cmd[l].at = "ended" /\ ~ Alive(l)
    /\ \A s \in Stops : told[s] = "stopped" =>
          cmd[s].at \notin Unread /\ Of(s) # None /\ port # Of(s)

Inv ==
    /\ TypeOK /\ WorkersHoldLock /\ PortIsOpen /\ RecordsAreOld /\ SpawnedOnce
    /\ ReadsFirst /\ RefusedIsClosed /\ ToldIsTrue /\ ShutdownsAreMeant

USE DaemonAssumption DEF Commands

-------------------------------------------------------------------------------
(* The process *)

\* Every step of a process keeps the whole invariant: it announces itself before it serves, and
\* it holds the lock until it is gone.
LEMMA ProcessKeepsInv ==
  ASSUME Inv, NEW d \in Launches, Process(d) \/ Kill(d)
  PROVE  Inv'
  <1> USE DEF Inv, TypeOK, WorkersHoldLock, PortIsOpen, RecordsAreOld, SpawnedOnce, ReadsFirst,
  RefusedIsClosed,
              ToldIsTrue, ShutdownsAreMeant, Stages, Points, Home, Alive, Working, Listening, Announced,
              Unread, Asking, Of, Becomes, Leaves
  <1>1. CASE Lock(d)
    <2>0. Home(d) \in Homes /\ daemon \in [Launches -> Stages] /\ lock \in [Homes -> Launches \cup {None}]
      OBVIOUS
    <2>1. TypeOK' /\ WorkersHoldLock'
      <3>1. CASE lock[Home(d)] = None /\ Becomes(d, "recovering") /\ lock' = [lock EXCEPT ![Home(d)] = d]
        <4>1. TypeOK'
          BY <1>1, <2>0, <3>1 DEF Lock
        <4>2. WorkersHoldLock'
          BY <1>1, <2>0, <3>1 DEF Lock
        <4> QED BY <4>1, <4>2
      <3>2. CASE lock[Home(d)] # None /\ Becomes(d, "gone") /\ UNCHANGED lock
        BY <1>1, <3>2 DEF Lock
      <3> QED BY <1>1, <3>1, <3>2 DEF Lock
    <2>2. PortIsOpen' /\ RecordsAreOld' /\ SpawnedOnce'
      BY <1>1 DEF Lock
    <2>3. ReadsFirst' /\ RefusedIsClosed'
      BY <1>1 DEF Lock
    <2>4. ToldIsTrue' /\ ShutdownsAreMeant'
      BY <1>1 DEF Lock
    <2> QED BY <2>1, <2>2, <2>3, <2>4
  <1>2. CASE Recover(d)
    <2>1. TypeOK' /\ WorkersHoldLock'
      BY <1>2 DEF Recover
    <2>2. PortIsOpen' /\ RecordsAreOld' /\ SpawnedOnce'
      BY <1>2 DEF Recover
    <2>3. ReadsFirst' /\ RefusedIsClosed'
      BY <1>2 DEF Recover
    <2>4. ToldIsTrue' /\ ShutdownsAreMeant'
      BY <1>2 DEF Recover
    <2> QED BY <2>1, <2>2, <2>3, <2>4
  <1>3. CASE Bind(d)
    <2>1. TypeOK' /\ WorkersHoldLock'
      BY <1>3 DEF Bind
    <2>2. PortIsOpen' /\ RecordsAreOld' /\ SpawnedOnce'
      BY <1>3 DEF Bind
    <2>3. ReadsFirst' /\ RefusedIsClosed'
      BY <1>3 DEF Bind
    <2>4. ToldIsTrue' /\ ShutdownsAreMeant'
      BY <1>3 DEF Bind
    <2> QED BY <2>1, <2>2, <2>3, <2>4
  <1>4. CASE Announce(d)
    <2>1. TypeOK' /\ WorkersHoldLock'
      BY <1>4 DEF Announce
    <2>2. PortIsOpen' /\ RecordsAreOld' /\ SpawnedOnce'
      BY <1>4 DEF Announce
    <2>3. ReadsFirst' /\ RefusedIsClosed'
      BY <1>4 DEF Announce
    <2>4. ToldIsTrue' /\ ShutdownsAreMeant'
      BY <1>4 DEF Announce
    <2> QED BY <2>1, <2>2, <2>3, <2>4
  <1>5. CASE Leave(d)
    <2>1. TypeOK' /\ WorkersHoldLock'
      BY <1>5 DEF Leave
    <2>2. PortIsOpen' /\ RecordsAreOld' /\ SpawnedOnce'
      BY <1>5 DEF Leave
    <2>3. ReadsFirst' /\ RefusedIsClosed'
      BY <1>5 DEF Leave
    <2>4. ToldIsTrue' /\ ShutdownsAreMeant'
      BY <1>5 DEF Leave
    <2> QED BY <2>1, <2>2, <2>3, <2>4
  <1>6. CASE CleanUp(d)
    <2>1. TypeOK' /\ WorkersHoldLock'
      BY <1>6 DEF CleanUp, KeepsLock
    <2>2. PortIsOpen' /\ RecordsAreOld' /\ SpawnedOnce'
      BY <1>6 DEF CleanUp, KeepsLock
    <2>3. ReadsFirst' /\ RefusedIsClosed'
      BY <1>6 DEF CleanUp, KeepsLock
    <2>4. ToldIsTrue' /\ ShutdownsAreMeant'
      BY <1>6 DEF CleanUp, KeepsLock
    <2> QED BY <2>1, <2>2, <2>3, <2>4
  <1>7. CASE ReadOwn(d)
    <2>1. TypeOK' /\ WorkersHoldLock'
      BY <1>7 DEF ReadOwn
    <2>2. PortIsOpen' /\ RecordsAreOld' /\ SpawnedOnce'
      BY <1>7 DEF ReadOwn
    <2>3. ReadsFirst' /\ RefusedIsClosed'
      BY <1>7 DEF ReadOwn
    <2>4. ToldIsTrue' /\ ShutdownsAreMeant'
      BY <1>7 DEF ReadOwn
    <2> QED BY <2>1, <2>2, <2>3, <2>4
  <1>8. CASE UnlinkOwn(d)
    <2>1. TypeOK' /\ WorkersHoldLock'
      BY <1>8 DEF UnlinkOwn
    <2>2. PortIsOpen' /\ RecordsAreOld' /\ SpawnedOnce'
      BY <1>8 DEF UnlinkOwn
    <2>3. ReadsFirst' /\ RefusedIsClosed'
      BY <1>8 DEF UnlinkOwn
    <2>4. ToldIsTrue' /\ ShutdownsAreMeant'
      BY <1>8 DEF UnlinkOwn
    <2> QED BY <2>1, <2>2, <2>3, <2>4
  <1>9. CASE Release(d)
    <2>1. TypeOK' /\ WorkersHoldLock'
      BY <1>9 DEF Release
    <2>2. PortIsOpen' /\ RecordsAreOld' /\ SpawnedOnce'
      BY <1>9 DEF Release
    <2>3. ReadsFirst' /\ RefusedIsClosed'
      BY <1>9 DEF Release
    <2>4. ToldIsTrue' /\ ShutdownsAreMeant'
      BY <1>9 DEF Release
    <2> QED BY <2>1, <2>2, <2>3, <2>4
  <1>10. CASE Kill(d)
    <2>1. TypeOK' /\ WorkersHoldLock'
      BY <1>10 DEF Kill, Dies
    <2>2. PortIsOpen' /\ RecordsAreOld' /\ SpawnedOnce'
      BY <1>10 DEF Kill, Dies
    <2>3. ReadsFirst' /\ RefusedIsClosed'
      BY <1>10 DEF Kill, Dies
    <2>4. ToldIsTrue' /\ ShutdownsAreMeant'
      BY <1>10 DEF Kill, Dies
    <2> QED BY <2>1, <2>2, <2>3, <2>4
  <1> QED BY <1>1, <1>2, <1>3, <1>4, <1>5, <1>6, <1>7, <1>8, <1>9, <1>10 DEF Process

-------------------------------------------------------------------------------
(* The commands *)

\* One command moves and remembers whose record it read.
LEMMA AtStage ==
  ASSUME TypeOK, NEW x \in Commands, NEW stage \in Points, At(x, stage)
  PROVE  /\ cmd'[x].at = stage /\ cmd'[x].of = cmd[x].of
         /\ \A y \in Commands \ {x} : cmd'[y] = cmd[y]
         /\ cmd' \in [Commands -> [at : Points, of : Launches \cup {None}]]
  <1> DEFINE new == [cmd[x] EXCEPT !.at = stage]
  <1>1. cmd' = [cmd EXCEPT ![x] = new]
    BY DEF At
  <1>2. new.at = stage /\ new.of = cmd[x].of /\ new \in [at : Points, of : Launches \cup {None}]
    BY DEF TypeOK
  <1> HIDE DEF new
  <1> QED
    BY <1>1, <1>2 DEF TypeOK

\* A command that goes on disturbs nothing while the processes rest, as long as it does not
\* go back to reading, and finds the port closed when it says so.
LEMMA CommandGoesOn ==
  ASSUME Inv, NEW x \in Commands, NEW stage \in Points, At(x, stage),
         UNCHANGED <<daemon, lock, port>>,
         \A y \in Commands : y \in late' => y \in late \/ Of(y) # None,
         cmd[x].at # "ended",
         stage \in {"idle", "missing"} => cmd[x].at \in {"idle", "missing"},
         stage \in Unread => cmd[x].at \in Unread,
         stage \in Asking => cmd[x].at \in Asking,
         stage = "refused" => port # Of(x)
  PROVE  /\ cmd' \in [Commands -> [at : Points, of : Launches \cup {None}]]
         /\ WorkersHoldLock' /\ PortIsOpen' /\ SpawnedOnce' /\ ReadsFirst' /\ RefusedIsClosed'
         /\ \A y \in Commands : Of(y)' = Of(y)
  <1> USE DEF Inv
  <1>1. /\ cmd'[x].at = stage /\ cmd'[x].of = cmd[x].of
        /\ \A y \in Commands \ {x} : cmd'[y] = cmd[y]
        /\ cmd' \in [Commands -> [at : Points, of : Launches \cup {None}]]
    BY AtStage
  <1>2. WorkersHoldLock' /\ PortIsOpen'
    BY DEF WorkersHoldLock, PortIsOpen, Working, Home
  <1>3. SpawnedOnce'
    BY <1>1 DEF SpawnedOnce
  <1>4. \A y \in Commands : Of(y)' = Of(y)
    BY <1>1 DEF Of
  <1>5. ReadsFirst'
    BY <1>1, <1>4 DEF ReadsFirst, Of
  <1>6. RefusedIsClosed'
    BY <1>1, <1>4 DEF RefusedIsClosed
  <1> QED BY <1>1, <1>2, <1>3, <1>4, <1>5, <1>6

\* What was told stays true while the processes rest and nothing new is told but a failure to ask.
LEMMA ToldStaysTrue ==
  ASSUME Inv, NEW x \in Commands, NEW stage \in Points, At(x, stage),
         UNCHANGED <<daemon, port>>,
         cmd[x].at # "ended",
         stage \in Unread => cmd[x].at \in Unread,
         \A y \in Commands : told'[y] = told[y] \/ (y = x /\ told'[y] \notin {"failed", "stopped"})
  PROVE  ToldIsTrue'
  <1>1. /\ cmd'[x].at = stage /\ cmd'[x].of = cmd[x].of
        /\ \A y \in Commands \ {x} : cmd'[y] = cmd[y]
    BY AtStage DEF Inv
  <1> QED BY <1>1 DEF Inv, ToldIsTrue, Of, Alive

\* A shutdown that was meant stays meant.
LEMMA MeantStaysMeant ==
  ASSUME Inv, NEW x \in Commands, NEW stage \in Points, At(x, stage), UNCHANGED shut,
         cmd[x].at \in {"killing", "ended"} => stage \in {"killing", "ended"}
  PROVE  ShutdownsAreMeant'
  <1>1. /\ cmd'[x].at = stage /\ cmd'[x].of = cmd[x].of
        /\ \A y \in Commands \ {x} : cmd'[y] = cmd[y]
    BY AtStage DEF Inv
  <1> QED BY <1>1 DEF Inv, TypeOK, ShutdownsAreMeant, Of

\* The facts a command cannot disturb by itself.
LEMMA RecordsStayOld ==
  ASSUME Inv, UNCHANGED daemon,
         \A h \in Homes : control'[h] = control[h] \/ control'[h] = None
  PROVE  RecordsAreOld'
  BY DEF Inv, RecordsAreOld

\* A command goes on in one of the ways of its action.
LEMMA PingKeepsInv ==
  ASSUME Inv, NEW l \in Launches, Ping(l)
  PROVE  Inv'
  <1>1. PICK stage \in {"ended", "missing"} :
           At(l, stage) /\ (told' = told \/ told' = [told EXCEPT ![l] = "already"])
    BY DEF Ping, Ends
  <1>2. cmd[l].at = "idle" /\ UNCHANGED <<process, control>>
    BY DEF Ping
  <1>3. told' \in [Commands -> {"nothing", "already", "started", "failed", "stopped", "absent", "error"}]
    BY <1>1 DEF Inv, TypeOK
  <1>4. \A y \in Commands : told'[y] = told[y] \/ (y = l /\ told'[y] \notin {"failed", "stopped"})
    BY <1>1 DEF Inv, TypeOK
  <1> QED BY <1>1, <1>2, <1>3, <1>4, CommandGoesOn, ToldStaysTrue, MeantStaysMeant, RecordsStayOld
          DEF Inv, TypeOK, process, Points, Unread, Asking

\* core start spawns its process.
LEMMA SpawnKeepsInv ==
  ASSUME Inv, NEW l \in Launches, Spawn(l)
  PROVE  Inv'
  <1> USE DEF Inv, TypeOK
  <1>1. /\ cmd[l].at = "missing" /\ At(l, "waiting") /\ daemon' = [daemon EXCEPT ![l] = "spawned"]
        /\ UNCHANGED <<told, late, shut, control, lock, port, kills>>
    BY DEF Spawn, Becomes
  <1>2. /\ cmd'[l].at = "waiting" /\ cmd'[l].of = cmd[l].of
        /\ \A y \in Commands \ {l} : cmd'[y] = cmd[y]
        /\ cmd' \in [Commands -> [at : Points, of : Launches \cup {None}]]
    BY <1>1, AtStage DEF Points
  <1>3. daemon[l] = "none" /\ daemon' \in [Launches -> Stages]
    BY <1>1 DEF SpawnedOnce, Stages
  <1>4. TypeOK' /\ SpawnedOnce'
    BY <1>1, <1>2, <1>3 DEF SpawnedOnce
  <1>5. WorkersHoldLock' /\ PortIsOpen' /\ RecordsAreOld'
    BY <1>1, <1>3 DEF WorkersHoldLock, PortIsOpen, RecordsAreOld, Working, Home, Listening, Announced
  <1>6. ReadsFirst'
    BY <1>1, <1>2, <1>3 DEF ReadsFirst, Of, Announced, Unread, Asking
  <1>7. RefusedIsClosed'
    BY <1>1, <1>2 DEF RefusedIsClosed, Of
  <1>8. ToldIsTrue'
    BY <1>1, <1>2 DEF ToldIsTrue, Of, Alive, Unread
  <1>9. ShutdownsAreMeant'
    BY <1>1, MeantStaysMeant DEF Points
  <1> QED BY <1>4, <1>5, <1>6, <1>7, <1>8, <1>9

\* core start sees the daemon it spawned answer.
LEMMA AwaitKeepsInv ==
  ASSUME Inv, NEW l \in Launches, Await(l)
  PROVE  Inv'
  <1>1. PICK stage \in {"ended", "waiting", "pinging", "failing"} :
           At(l, stage) /\ (told' = told \/ told' = [told EXCEPT ![l] = "started"])
    BY DEF Await, Ends
  <1>2. cmd[l].at \in {"waiting", "pinging"} /\ UNCHANGED <<process, control>>
    BY DEF Await
  <1>3. told' \in [Commands -> {"nothing", "already", "started", "failed", "stopped", "absent", "error"}]
    BY <1>1 DEF Inv, TypeOK
  <1>4. \A y \in Commands : told'[y] = told[y] \/ (y = l /\ told'[y] \notin {"failed", "stopped"})
    BY <1>1 DEF Inv, TypeOK
  <1> QED BY <1>1, <1>2, <1>3, <1>4, CommandGoesOn, ToldStaysTrue, MeantStaysMeant, RecordsStayOld
          DEF Inv, TypeOK, process, Points, Unread, Asking

\* core start gives up and cleans up.
LEMMA FailKeepsInv ==
  ASSUME Inv, NEW l \in Launches, Fail(l)
  PROVE  Inv'
  BY DEF Fail, Inv, TypeOK, WorkersHoldLock, PortIsOpen, RecordsAreOld, SpawnedOnce, ReadsFirst,
         RefusedIsClosed, ToldIsTrue, ShutdownsAreMeant, Stages, Points, Home, Alive, Working, Listening,
         Announced, Unread, Asking, Of, process

\* SIGTERM and SIGKILL: whoever dies gives lock and port back and is never started again.
LEMMA TerminateKeepsInv ==
  ASSUME Inv, NEW l \in Launches, Terminate(l) \/ Finish(l)
  PROVE  Inv'
  <1> USE DEF Inv, TypeOK
  <1>1. PICK stage \in {"killing", "ended"} :
           At(l, stage) /\ (stage = "killing" <=> cmd[l].at = "terminating")
    BY DEF Terminate, Finish, Ends
  <1>2. /\ cmd'[l].at = stage /\ cmd'[l].of = cmd[l].of
        /\ \A y \in Commands \ {l} : cmd'[y] = cmd[y]
        /\ cmd' \in [Commands -> [at : Points, of : Launches \cup {None}]]
    BY <1>1, AtStage DEF Points
  <1>3. cmd[l].at \in {"terminating", "killing"} /\ UNCHANGED <<late, control, kills>>
    BY DEF Terminate, Finish
  <1>4. Dies(l) \/ UNCHANGED <<daemon, lock, port>>
    BY DEF Terminate, Finish
  <1>5. /\ daemon' \in [Launches -> Stages] /\ lock' \in [Homes -> Launches \cup {None}]
        /\ port' \in Launches \cup {None}
    BY <1>4 DEF Dies, Becomes, Leaves, Stages
  <1>6. shut' \subseteq Launches
        /\ told' \in [Commands -> {"nothing", "already", "started", "failed", "stopped", "absent", "error"}]
    BY DEF Terminate, Finish, Ends
  <1>7. TypeOK'
    BY <1>2, <1>3, <1>5, <1>6
  <1>8. WorkersHoldLock' /\ PortIsOpen' /\ RecordsAreOld'
    BY <1>3, <1>4 DEF Dies, Becomes, Leaves, WorkersHoldLock, PortIsOpen, RecordsAreOld, Working, Home,
       Listening, Announced, Stages
  <1>9. SpawnedOnce'
    BY <1>1, <1>2, <1>4 DEF Dies, Becomes, SpawnedOnce
  <1>10. ReadsFirst'
    BY <1>1, <1>2, <1>3, <1>4 DEF Dies, Becomes, ReadsFirst, Of, Announced, Unread, Asking
  <1>11. RefusedIsClosed'
    BY <1>1, <1>2, <1>4 DEF Dies, RefusedIsClosed, ReadsFirst, Of, Asking
  <1>12. ToldIsTrue'
    <2>1. ASSUME NEW k \in Launches, told'[k] = "failed" PROVE cmd'[k].at = "ended" /\ ~ Alive(k)'
      <3>1. CASE k = l
        <4>1. Finish(l)
          BY <2>1, <3>1, <1>3 DEF Terminate, ToldIsTrue
        <4> QED BY <4>1, <1>2, <3>1 DEF Finish, Ends, At, KillIt, Alive, Dies, Becomes
      <3>2. CASE k # l
        BY <2>1, <3>2, <1>2, <1>4 DEF Terminate, Finish, Ends, ToldIsTrue, Alive, Dies, Becomes
      <3> QED BY <3>1, <3>2
    <2>2. ASSUME NEW s \in Stops, told'[s] = "stopped"
          PROVE  (cmd[s].at \notin Unread /\ Of(s) # None /\ port # Of(s))'
      <3>1. s # l /\ told[s] = "stopped"
        BY <2>2 DEF Terminate, Finish, Ends
      <3> QED BY <3>1, <1>2, <1>4 DEF ToldIsTrue, Of, Dies, Unread
    <2> QED BY <2>1, <2>2 DEF ToldIsTrue
  <1>13. ShutdownsAreMeant'
    <2>1. shut' = shut \/ (shut' = shut \cup {l} /\ cmd'[l].at = "killing")
      BY <1>1, <1>2 DEF Terminate, Finish, At
    <2> QED BY <2>1, <1>1, <1>2 DEF ShutdownsAreMeant, Of
  <1> QED BY <1>7, <1>8, <1>9, <1>10, <1>11, <1>12, <1>13

\* The daemon that listens takes the token of its own control record only.
LEMMA AskKeepsInv ==
  ASSUME Inv, NEW x \in Commands, Ask(x)
  PROVE  Inv'
  <1>1. PICK stage \in {"settling", "forgetting", "ended"} :
           /\ At(x, stage)
           /\ told' = told \/ \E what \in {"absent", "error", told[x]} : told' = [told EXCEPT ![x] = what]
    BY DEF Ask, Ends, FindsNobody
  <1>2. cmd[x].at = "asking" /\ UNCHANGED <<daemon, control, lock, port, kills>>
    BY DEF Ask
  <1>8. late' \subseteq Commands
    BY DEF Ask, Inv, TypeOK
  <1>9. \A y \in Commands : y \in late' => y \in late \/ Of(y) # None
    BY <1>2 DEF Ask, Inv, ReadsFirst, Asking
  <1>3. told' \in [Commands -> {"nothing", "already", "started", "failed", "stopped", "absent", "error"}]
        /\ \A y \in Commands : told'[y] = told[y] \/ (y = x /\ told'[y] \notin {"failed", "stopped"})
    BY <1>1 DEF Inv, TypeOK
  <1>4. /\ WorkersHoldLock' /\ PortIsOpen' /\ SpawnedOnce' /\ ReadsFirst' /\ RefusedIsClosed'
        /\ cmd' \in [Commands -> [at : Points, of : Launches \cup {None}]]
        /\ \A y \in Commands : Of(y)' = Of(y)
    BY <1>1, <1>2, <1>9, CommandGoesOn DEF Points, Unread, Asking
  <1>5. shut' = shut \/ (shut' = shut \cup {port} /\ port = Of(x) /\ port # None)
    <2>1. Of(x) # None
      BY <1>2 DEF Inv, ReadsFirst, Asking
    <2> QED BY <2>1 DEF Ask, TokenFits
  <1>6. ShutdownsAreMeant'
    BY <1>1, <1>2, <1>4, <1>5, AtStage DEF Inv, TypeOK, ShutdownsAreMeant, Points
  <1>7. TypeOK'
    BY <1>2, <1>3, <1>4, <1>5, <1>8 DEF Inv, TypeOK
  <1> QED BY <1>1, <1>2, <1>3, <1>4, <1>6, <1>7, ToldStaysTrue, RecordsStayOld DEF Inv, Points, Unread

\* A daemon that comes to a request late is the one that was asked.
LEMMA AnswerLateKeepsInv ==
  ASSUME Inv, NEW x \in Commands, AnswerLate(x)
  PROVE  Inv'
  <1>1. /\ shut' = shut \cup {port} /\ late' = late \ {x} /\ port = Of(x) /\ daemon[port] = "serving"
        /\ UNCHANGED <<cmd, told, daemon, control, lock, port, kills>>
    BY DEF AnswerLate, TokenFits
  <1>2. port \in Launches
    <2>1. port # None
      BY <1>1 DEF Inv, ReadsFirst, AnswerLate
    <2>2. port \in Launches \cup {None}
      BY DEF Inv, TypeOK
    <2> QED BY <2>1, <2>2
  <1>3. TypeOK' /\ ShutdownsAreMeant'
    BY <1>1, <1>2 DEF Inv, TypeOK, ShutdownsAreMeant, Of
  <1>4. WorkersHoldLock' /\ PortIsOpen' /\ RecordsAreOld' /\ SpawnedOnce'
    BY <1>1 DEF Inv, WorkersHoldLock, PortIsOpen, RecordsAreOld, SpawnedOnce, Working
  <1>5. ReadsFirst' /\ RefusedIsClosed' /\ ToldIsTrue'
    BY <1>1 DEF Inv, ReadsFirst, RefusedIsClosed, ToldIsTrue, Of, Alive
  <1> QED BY <1>3, <1>4, <1>5 DEF Inv

\* "stopped" is said of a port that was found closed, and that stays closed for the one asked.
LEMMA SettleKeepsInv ==
  ASSUME Inv, NEW x \in Commands, Settle(x)
  PROVE  Inv'
  <1>1. PICK stage \in {"refused", "settling", "forgetting", "ended"} :
           /\ At(x, stage) /\ (stage = "refused" => port = None)
           /\ \/ \E what \in {"error", told[x]} : told' = told \/ told' = [told EXCEPT ![x] = what]
              \/ told' = [told EXCEPT ![x] = "stopped"] /\ x \in Stops /\ cmd[x].at = "refused"
    BY DEF Settle, Ends, ConnectionRefused
  <1>2. cmd[x].at \in {"settling", "refused"} /\ UNCHANGED <<process, control>>
    BY DEF Settle
  <1>3. Of(x) # None
    BY <1>2 DEF Inv, ReadsFirst, Asking
  <1>4. told' \in [Commands -> {"nothing", "already", "started", "failed", "stopped", "absent", "error"}]
    BY <1>1 DEF Inv, TypeOK
  <1>5. /\ WorkersHoldLock' /\ PortIsOpen' /\ SpawnedOnce' /\ ReadsFirst' /\ RefusedIsClosed'
        /\ cmd' \in [Commands -> [at : Points, of : Launches \cup {None}]]
        /\ \A y \in Commands : Of(y)' = Of(y)
    BY <1>1, <1>2, <1>3, CommandGoesOn DEF Points, Unread, Asking, process
  <1>6. TypeOK' /\ RecordsAreOld' /\ ShutdownsAreMeant'
    BY <1>1, <1>2, <1>4, <1>5, RecordsStayOld, MeantStaysMeant DEF Inv, TypeOK, process, Points
  <1>7. ToldIsTrue'
    <2>1. CASE \A y \in Commands : told'[y] = told[y] \/ (y = x /\ told'[y] \notin {"failed", "stopped"})
      BY <2>1, <1>1, <1>2, ToldStaysTrue DEF process, Points, Unread
    <2>2. CASE told' = [told EXCEPT ![x] = "stopped"] /\ x \in Stops /\ cmd[x].at = "refused"
      <3>1. port # Of(x)
        BY <2>2 DEF Inv, RefusedIsClosed
      <3>2. cmd'[x].at = stage /\ \A y \in Commands \ {x} : cmd'[y] = cmd[y]
        BY <1>1, AtStage DEF Inv, Points
      <3> QED BY <2>2, <3>1, <3>2, <1>2, <1>3, <1>5 DEF Inv, TypeOK, ToldIsTrue, Alive, process, Unread
    <2> QED BY <2>1, <2>2, <1>1 DEF Inv, TypeOK
  <1> QED BY <1>5, <1>6, <1>7 DEF Inv

\* A control file whose daemon is gone is removed.
LEMMA ForgetKeepsInv ==
  ASSUME Inv, NEW x \in Commands, Forget(x)
  PROVE  Inv'
  <1>1. PICK stage \in {"unlinking", "ended", "terminating"} : At(x, stage)
    BY DEF Forget, AfterForget
  <1>2. cmd[x].at \in {"forgetting", "unlinking"} /\ UNCHANGED <<told, process>>
    BY DEF Forget
  <1>3. control' = control \/ control' = [control EXCEPT ![Home(x)] = None]
    BY DEF Forget
  <1> QED BY <1>1, <1>2, <1>3, CommandGoesOn, ToldStaysTrue, MeantStaysMeant, RecordsStayOld
          DEF Inv, TypeOK, process, Points, Unread, Asking

\* A stop asks whoever the control file names, and that process has announced itself.
LEMMA ReadKeepsInv ==
  ASSUME Inv, NEW s \in Stops, ReadControl(s)
  PROVE  Inv'
  <1> USE DEF Inv
  <1>1. cmd[s].at = "idle" /\ UNCHANGED <<process, control>>
    BY DEF ReadControl
  <1>2. CASE Ends(s, "absent")
    BY <1>1, <1>2, CommandGoesOn, ToldStaysTrue, MeantStaysMeant, RecordsStayOld
       DEF Ends, TypeOK, process, Points, Unread, Asking
  <1>3. CASE /\ control[Home(s)] # None /\ UNCHANGED told
             /\ cmd' = [cmd EXCEPT ![s] = [at |-> "asking", of |-> control[Home(s)]]]
    BY <1>1, <1>3 DEF TypeOK, WorkersHoldLock, PortIsOpen, RecordsAreOld, SpawnedOnce, ReadsFirst,
       RefusedIsClosed, ToldIsTrue, ShutdownsAreMeant, Points, Home, Alive, Working, Unread, Asking, Of,
         process
  <1> QED BY <1>2, <1>3 DEF ReadControl

-------------------------------------------------------------------------------
(* The theorems *)

\* The initial states have the invariant.
LEMMA InitInv == Init => Inv
  BY DEF Init, Inv, TypeOK, WorkersHoldLock, PortIsOpen, RecordsAreOld, SpawnedOnce, ReadsFirst,
     RefusedIsClosed, ToldIsTrue, ShutdownsAreMeant, Stages, Points, Working, Alive, Unread, Asking, Of

\* Every step keeps the invariant.
LEMMA NextKeepsInv == Inv /\ [Next]_vars => Inv'
  <1>1. Inv /\ UNCHANGED vars => Inv'
    BY DEF vars, Inv, TypeOK, WorkersHoldLock, PortIsOpen, RecordsAreOld, SpawnedOnce, ReadsFirst,
       RefusedIsClosed, ToldIsTrue, ShutdownsAreMeant, Working, Home, Alive, Of
  <1> QED BY <1>1, ProcessKeepsInv, PingKeepsInv, SpawnKeepsInv, AwaitKeepsInv, FailKeepsInv,
             TerminateKeepsInv, AskKeepsInv, AnswerLateKeepsInv, SettleKeepsInv, ForgetKeepsInv, ReadKeepsInv
          DEF Next, Start, Either

\* The inductive invariant of the daemon and its commands.
THEOREM DaemonInvHolds == Spec => []Inv
  BY InitInv, NextKeepsInv, PTL DEF Spec

\* Every variable keeps its type.
THEOREM DaemonTypeCorrect == Spec => []TypeOK
  <1>1. Inv => TypeOK
    BY DEF Inv
  <1> QED BY DaemonInvHolds, <1>1, PTL

(***************************************************************************)
(* Two processes never work in one home, from the recovery of its          *)
(* sandboxes to the end of their cleanup: CoreHomeLock, taken first and    *)
(* released last, or by the operating system.                              *)
(***************************************************************************)
THEOREM AlwaysOneCorePerHome == Spec => []OneCorePerHome
  <1>1. Inv => OneCorePerHome
    BY DEF Inv, WorkersHoldLock, OneCorePerHome
  <1> QED BY DaemonInvHolds, <1>1, PTL

(***************************************************************************)
(* A daemon is shut down by a command that read its own record, or by the  *)
(* start that spawned it: the token of core.shutdown.                      *)
(***************************************************************************)
THEOREM ShutdownsAlwaysMeant == Spec => []ShutdownsAreMeant
  <1>1. Inv => ShutdownsAreMeant
    BY DEF Inv
  <1> QED BY DaemonInvHolds, <1>1, PTL

(***************************************************************************)
(* "started" is said while the own process listens, "failed" once it is    *)
(* dead, "stopped" once the one asked has closed its port for good, "not   *)
(* running" of a record whose process does not listen, or has the request  *)
(* and gave no answer in time.                                             *)
(***************************************************************************)
THEOREM CommandsAlwaysTellTheTruth == Spec => CommandsTellTheTruth
  <1> DEFINE Says == /\ \A l \in Launches : told'[l] = "failed" => ~ Alive(l)'
                     /\ \A s \in Stops : told'[s] = "stopped" => (port # Of(s))'
                     /\ \A l \in Launches : told[l] # "started" /\ told'[l] = "started" => port = l
                     /\ \A s \in Stops : told[s] # "absent" /\ told'[s] = "absent" =>
                           control[Home(s)] = None \/ port # Of(s) \/ s \in late'
  <1>1. Inv' => /\ \A l \in Launches : told'[l] = "failed" => ~ Alive(l)'
                /\ \A s \in Stops : told'[s] = "stopped" => (port # Of(s))'
    BY DEF Inv, ToldIsTrue
  <1>2. ASSUME Inv, Next, NEW l \in Launches, told[l] # "started", told'[l] = "started"
        PROVE  port = l
    <2>1. CASE \E d \in Launches : Process(d) \/ Kill(d)
      BY <1>2, <2>1 DEF Process, Kill, Lock, Recover, Bind, Announce, Leave, CleanUp, ReadOwn, UnlinkOwn,
         Release
    <2>2. ASSUME NEW k \in Launches, Start(k) PROVE port = l
      BY <1>2, <2>2 DEF Inv, TypeOK, Start, Ping, Spawn, Await, Fail, Terminate, Finish, Ends, OwnPong
    <2>3. ASSUME NEW x \in Commands, Either(x) PROVE port = l
      BY <1>2, <2>3 DEF Inv, TypeOK, Either, Ask, FindsNobody, AnswerLate, Settle, Forget, Ends
    <2>4. ASSUME NEW s \in Stops, ReadControl(s) PROVE port = l
      BY <1>2, <2>4 DEF Inv, TypeOK, ReadControl, Ends
    <2> QED BY <1>2, <2>1, <2>2, <2>3, <2>4 DEF Next
  <1>4. ASSUME Inv, Next, NEW s \in Stops, told[s] # "absent", told'[s] = "absent"
        PROVE  control[Home(s)] = None \/ port # Of(s) \/ s \in late'
    <2>1. CASE \E d \in Launches : Process(d) \/ Kill(d)
      BY <1>4, <2>1 DEF Process, Kill, Lock, Recover, Bind, Announce, Leave, CleanUp, ReadOwn, UnlinkOwn,
         Release
    <2>2. ASSUME NEW k \in Launches, Start(k) PROVE FALSE
      BY <1>4, <2>2 DEF Inv, TypeOK, Start, Ping, Spawn, Await, Fail, Terminate, Finish, Ends
    <2>3. ASSUME NEW x \in Commands, Either(x) PROVE port # Of(s) \/ s \in late'
      <3>1. Ask(x) /\ x = s /\ FindsNobody(x)
        BY <1>4, <2>3 DEF Inv, TypeOK, Either, Ask, FindsNobody, AnswerLate, Settle, Forget, Ends
      <3>2. Of(s) # None
        BY <1>4, <3>1 DEF Ask, Inv, ReadsFirst, Asking
      <3>3. port = None \/ late' = IF TokenFits(x) THEN late \cup {x} ELSE late
        BY <1>4, <3>1 DEF Ask, Ends, Inv, TypeOK
      <3> QED BY <3>1, <3>2, <3>3 DEF TokenFits
    <2>4. ASSUME NEW q \in Stops, ReadControl(q) PROVE control[Home(s)] = None
      BY <1>4, <2>4 DEF Inv, TypeOK, ReadControl, Ends
    <2> QED BY <1>4, <2>1, <2>2, <2>3, <2>4 DEF Next
  <1>3. Inv /\ Inv' /\ [Next]_vars => [Says]_vars
    BY <1>1, <1>2, <1>4
  <1> QED BY DaemonInvHolds, <1>3, PTL DEF Spec, CommandsTellTheTruth

=============================================================================
