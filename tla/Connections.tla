----------------------------- MODULE Connections ------------------------------
(***************************************************************************)
(* One IPC connection between a front end and the daemon, on both sides:   *)
(* SocketClient with its pending calls; SocketServer with the handler of   *)
(* the connection, one task per request, the single writer with its        *)
(* bounded queue (ConnectionSender) and the pumps that copy subscribed     *)
(* events into that queue (IpcEventBroadcaster).  The writer is closed by  *)
(* whoever comes first: the handler, a pump that lost events, or the       *)
(* daemon that stops.  What the answers and events say is left to the      *)
(* other modules.                                                          *)
(***************************************************************************)
EXTENDS Integers, Sequences, FiniteSets

CONSTANTS Plain,       \* requests that are answered and nothing else
          Subscribes,  \* event.subscribe requests; each one that succeeds has its pump
          Matching,    \* the subscriptions whose topics the events of the instance match
          Shutdowns,   \* core.shutdown requests
          SenderCap,   \* capacity of the writer's queue (1024)
          WireCap,     \* what the socket takes before drain() waits
          SubCap,      \* capacity of a subscription
          MaxPublished \* bound: events published

ASSUME ConnectionsAssumption ==
  /\ Matching \subseteq Subscribes /\ Subscribes \cap {"handler", "server"} = {}
  /\ {SenderCap, WireCap, SubCap} \subseteq Nat \ {0} /\ SenderCap > 1 /\ MaxPublished \in Nat

Requests == Plain \cup Subscribes \cup Shutdowns
Closers  == {"handler", "server"} \cup Subscribes

VARIABLES
  client,    \* "open", "stalled" (its event handler never returns), "ended"
  pending,   \* SocketClient._pending and what its callers saw
  wire,      \* lines on their way back
  handler,   \* _handle_connection
  task,      \* the task of a request
  outbox,    \* ConnectionSender._queue
  writer,    \* [loop, closed: _closed, over: the transport is closed, reset]
  closing,   \* what each caller of ConnectionSender.close is at
  pump,      \* the pump of a subscription
  pumps,     \* IpcEventBroadcaster._pumps of this connection
  leaving,   \* the pumps that unsubscribe waits for
  sub,       \* the subscription in the hub
  server,    \* the daemon: serving, and the stages of its end
  shutdown,  \* the shutdown event of the daemon
  written,   \* shutdowns whose answer was written (history)
  events     \* events published

front    == <<client, pending>>
sender   == <<wire, outbox, writer, closing, written>>
bridge   == <<pump, pumps, leaving, sub, events>>
connectionVars == <<front, sender, handler, task, bridge, server, shutdown>>

Answer(r) == [kind |-> "answer", of |-> r]
Event     == [kind |-> "event"]
Marker    == [kind |-> "overflow"]
Stop      == [kind |-> "stop"]
Ended     == {"none", "done", "failed"}
PumpLives(p) == pump[p] \notin {"none", "ended"}

ConnectionTypeOK ==
  /\ client \in {"open", "stalled", "ended"}
  /\ pending \in [Requests -> {"idle", "waiting", "answered", "failed"}]
  /\ Len(wire) <= WireCap /\ Len(outbox) <= SenderCap
  /\ handler \in {"reading", "unsubscribing", "cancelling", "closing", "gone"}
  /\ task \in [Requests -> {"handling", "blocked", "queued", "written"} \cup Ended]
  /\ writer \in [loop : BOOLEAN, closed : BOOLEAN, over : BOOLEAN, reset : BOOLEAN]
  /\ closing \in [Closers -> {"none", "stop", "join", "await", "done"}]
  /\ pump \in [Subscribes -> {"none", "get", "blocked", "overflow", "marked", "closing", "ended"}]
  /\ pumps \subseteq Subscribes /\ leaving \subseteq Subscribes
  /\ sub \in [Subscribes -> [on : BOOLEAN, items : 0..SubCap, over : BOOLEAN]]
  /\ server \in {"serving", "closing", "pumps", "hub", "stopped"}

ConnectionInit ==
  /\ client = "open" /\ wire = <<>> /\ handler = "reading" /\ outbox = <<>>
  /\ pending = [r \in Requests |-> "idle"]
  /\ task = [r \in Requests |-> "none"]
  /\ writer = [loop |-> TRUE, closed |-> FALSE, over |-> FALSE, reset |-> FALSE]
  /\ closing = [x \in Closers |-> "none"]
  /\ pump = [p \in Subscribes |-> "none"] /\ pumps = {} /\ leaving = {}
  /\ sub = [p \in Subscribes |-> [on |-> FALSE, items |-> 0, over |-> FALSE]]
  /\ server = "serving" /\ shutdown = FALSE /\ written = {} /\ events = 0

-----------------------------------------------------------------------------
(* SocketClient                                                            *)

Send(r) ==
  /\ client = "open" /\ pending[r] = "idle"
  /\ pending' = [pending EXCEPT ![r] = "waiting"]
  /\ UNCHANGED <<client, sender, handler, task, bridge, server, shutdown>>

Waiting == {r \in Requests : pending[r] = "waiting"}
\* Defect: the calls of a lost connection are left waiting.
PendingStays == UNCHANGED pending
FailPending == pending' = [r \in Requests |-> IF r \in Waiting THEN "failed" ELSE pending[r]]

Dispatch ==
  /\ client = "open" /\ wire # <<>>
  /\ wire' = Tail(wire)
  /\ pending' = [r \in Requests |->
                   IF Head(wire) = Answer(r) /\ r \in Waiting THEN "answered" ELSE pending[r]]
  /\ UNCHANGED <<client, outbox, writer, closing, written, handler, task, bridge, server, shutdown>>

\* The end of the stream, or close() by its owner.
ClientEnds ==
  /\ client # "ended"
  /\ client' = "ended" /\ wire' = <<>>
  /\ FailPending
  /\ UNCHANGED <<outbox, writer, closing, written, handler, task, bridge, server, shutdown>>

ClientSeesEnd == client = "open" /\ writer.over /\ ClientEnds

Stall ==
  /\ client = "open" /\ client' = "stalled"
  /\ UNCHANGED <<pending, sender, handler, task, bridge, server, shutdown>>

-----------------------------------------------------------------------------
(* ConnectionSender                                                        *)

HasRoom == Len(outbox) < SenderCap

\* The write loop ends: whoever waits for an item of the outbox is told so.
LoopEnds ==
  /\ outbox' = <<>>
  /\ writer' = [writer EXCEPT !.loop = FALSE]
  /\ task' = [r \in Requests |->
                IF task[r] = "queued" /\ (\E i \in 1..Len(outbox) : outbox[i] = Answer(r))
                THEN "failed" ELSE task[r]]

\* Only a shutdown has something to do once its answer is written.
Sent(item) == task' = [r \in Requests |->
                         IF item # Answer(r) \/ task[r] # "queued" THEN task[r]
                         ELSE IF r \in Shutdowns THEN "written" ELSE "done"]
Written(item) == written' = written \cup {r \in Shutdowns : item = Answer(r)}

\* A line reaches the socket.  The first write after the peer has gone is not told so.
Write ==
  /\ writer.loop /\ outbox # <<>> /\ Head(outbox) # Stop /\ ~writer.over /\ ~writer.reset
  /\ \/ /\ client # "ended" /\ Len(wire) < WireCap
        /\ wire' = Append(wire, Head(outbox)) /\ UNCHANGED writer
     \/ client = "ended" /\ writer' = [writer EXCEPT !.reset = TRUE] /\ UNCHANGED wire
  /\ outbox' = Tail(outbox)
  /\ Sent(Head(outbox)) /\ Written(Head(outbox))
  /\ UNCHANGED <<front, closing, handler, bridge, server, shutdown>>

WriteFails ==
  /\ writer.loop /\ outbox # <<>> /\ Head(outbox) # Stop
  /\ client = "ended" \/ writer.over
  /\ LoopEnds
  /\ UNCHANGED <<front, wire, closing, written, handler, bridge, server, shutdown>>

WriteStops ==
  /\ writer.loop /\ outbox # <<>> /\ Head(outbox) = Stop
  /\ LoopEnds
  /\ UNCHANGED <<front, wire, closing, written, handler, bridge, server, shutdown>>

\* close(): the first caller puts the stop mark, waits for the loop, one second for each,
\* and closes the transport; every later caller waits for the loop.
BeginClose(x) ==
  /\ closing[x] = "none"
  /\ writer' = [writer EXCEPT !.closed = TRUE]
  /\ IF ~writer.closed /\ HasRoom THEN outbox' = Append(outbox, Stop) ELSE UNCHANGED outbox
  /\ closing' = [closing EXCEPT ![x] = IF writer.closed THEN "await" ELSE IF HasRoom THEN "join" ELSE "stop"]

TimeLimit == TRUE

\* The time limit cancels the loop: nobody takes from the outbox.
CancelLoop ==
  /\ writer' = [writer EXCEPT !.loop = FALSE, !.over = TRUE]
  /\ outbox' = IF writer.loop THEN <<>> ELSE outbox
  /\ task' = [r \in Requests |-> IF writer.loop /\ task[r] = "queued" THEN "failed" ELSE task[r]]

PutStop(x) ==
  /\ closing[x] = "stop"
  /\ \/ /\ HasRoom
        /\ outbox' = Append(outbox, Stop)
        /\ closing' = [closing EXCEPT ![x] = "join"]
        /\ UNCHANGED <<writer, task>>
     \/ /\ ~HasRoom /\ TimeLimit
        /\ CancelLoop
        /\ closing' = [closing EXCEPT ![x] = "done"]
  /\ UNCHANGED <<front, wire, written, handler, bridge, server, shutdown>>

JoinLoop(x) ==
  /\ \/ closing[x] = "join" /\ (~writer.loop \/ TimeLimit) /\ CancelLoop
     \/ closing[x] = "await" /\ ~writer.loop /\ UNCHANGED <<writer, outbox, task>>
  /\ closing' = [closing EXCEPT ![x] = "done"]
  /\ UNCHANGED <<front, wire, written, handler, bridge, server, shutdown>>

-----------------------------------------------------------------------------
(* Requests                                                                *)

Read(r) ==
  /\ handler = "reading" /\ pending[r] # "idle" /\ task[r] = "none"
  /\ task' = [task EXCEPT ![r] = "handling"]
  /\ UNCHANGED <<front, sender, handler, bridge, server, shutdown>>

\* Cancelled tasks take no further step of their own.
Cancelling == handler = "cancelling"

\* The handler of the method and the answer.  A subscription starts its pump first.  send() is
\* refused once close() has begun; who waits for room does not look again.
Handle(r) ==
  /\ task[r] = "handling" /\ ~Cancelling
  /\ IF r \in Subscribes /\ server \in {"serving", "closing", "pumps"}
     THEN /\ pump' = [pump EXCEPT ![r] = "get"]
          /\ pumps' = pumps \cup {r}
          /\ sub' = [sub EXCEPT ![r].on = TRUE]
     ELSE UNCHANGED <<pump, pumps, sub>>
  /\ \/ writer.closed /\ task' = [task EXCEPT ![r] = "failed"] /\ UNCHANGED outbox
     \/ ~writer.closed /\ ~HasRoom /\ task' = [task EXCEPT ![r] = "blocked"] /\ UNCHANGED outbox
     \/ /\ ~writer.closed /\ HasRoom
        /\ task' = [task EXCEPT ![r] = "queued"] /\ outbox' = Append(outbox, Answer(r))
  /\ UNCHANGED <<front, wire, writer, closing, written, handler, leaving, events, server, shutdown>>

FindsRoom(r) ==
  /\ task[r] = "blocked" /\ ~Cancelling /\ HasRoom
  /\ task' = [task EXCEPT ![r] = "queued"] /\ outbox' = Append(outbox, Answer(r))
  /\ UNCHANGED <<front, wire, writer, closing, written, handler, bridge, server, shutdown>>

\* Defect: send() returns when the answer is queued.
AnswerQueued(r) == task[r] \in {"queued", "written"}
AnswerDone(r) == task[r] = "written"

\* The shutdown begins when its answer has been written.
AfterResponse(r) ==
  /\ AnswerDone(r) /\ ~Cancelling
  /\ task' = [task EXCEPT ![r] = "done"]
  /\ shutdown' = (shutdown \/ r \in Shutdowns)
  /\ UNCHANGED <<front, sender, handler, bridge, server>>

-----------------------------------------------------------------------------
(* Events                                                                  *)

Publish ==
  /\ events < MaxPublished /\ \E p \in Matching : sub[p].on
  /\ events' = events + 1
  /\ sub' = [p \in Subscribes |->
               IF p \notin Matching \/ ~sub[p].on THEN sub[p]
               ELSE IF sub[p].items < SubCap THEN [sub[p] EXCEPT !.items = @ + 1]
               ELSE [sub[p] EXCEPT !.over = TRUE]]
  /\ UNCHANGED <<front, sender, handler, task, pump, pumps, leaving, server, shutdown>>

Goes(p, at) == pump' = [pump EXCEPT ![p] = at]
PumpEnds(p) ==
  /\ Goes(p, "ended")
  /\ pumps' = pumps \ {p}
  /\ sub' = [sub EXCEPT ![p] = [on |-> FALSE, items |-> 0, over |-> FALSE]]

Get(p) ==
  /\ pump[p] = "get"
  /\ \/ ~sub[p].on /\ PumpEnds(p) /\ UNCHANGED outbox
     \/ /\ sub[p].on /\ sub[p].over                \* the marker that says so
        /\ Goes(p, IF HasRoom \/ writer.closed THEN "marked" ELSE "overflow")
        /\ outbox' = IF HasRoom /\ ~writer.closed THEN Append(outbox, Marker) ELSE outbox
        /\ UNCHANGED <<pumps, sub>>
     \/ /\ sub[p].on /\ ~sub[p].over /\ sub[p].items > 0
        /\ \/ writer.closed /\ PumpEnds(p) /\ UNCHANGED outbox
           \/ /\ ~writer.closed /\ Goes(p, IF HasRoom THEN "get" ELSE "blocked")
              /\ outbox' = IF HasRoom THEN Append(outbox, Event) ELSE outbox
              /\ sub' = [sub EXCEPT ![p].items = @ - 1] /\ UNCHANGED pumps
  /\ UNCHANGED <<front, wire, writer, closing, written, handler, task, leaving, events, server, shutdown>>

Push(p) ==
  /\ pump[p] = "blocked" /\ HasRoom /\ Goes(p, "get")
  /\ outbox' = Append(outbox, Event)
  /\ UNCHANGED <<front, wire, writer, closing, written, handler, task, pumps, leaving, sub,
                 events, server, shutdown>>

\* The marker waits a second for room.
Overflow(p) ==
  /\ pump[p] = "overflow" /\ Goes(p, "marked")
  /\ outbox' \in {outbox} \cup (IF HasRoom THEN {Append(outbox, Marker)} ELSE {})
  /\ UNCHANGED <<front, wire, writer, closing, written, handler, task, pumps, leaving, sub,
                 events, server, shutdown>>

PumpCloses(p) ==
  /\ pump[p] = "marked" /\ Goes(p, "closing")
  /\ BeginClose(p)
  /\ UNCHANGED <<front, wire, written, handler, task, pumps, leaving, sub, events, server, shutdown>>

PumpClosed(p) ==
  /\ pump[p] = "closing" /\ closing[p] = "done" /\ PumpEnds(p)
  /\ UNCHANGED <<front, sender, handler, task, leaving, events, server, shutdown>>

\* unsubscribe() cancels a pump wherever it is.  In the middle of close() that ends the write
\* loop it waited for, and nobody closes the transport.  (A pump that waits to put the stop mark
\* leaves an outbox that is still almost full.)
CancelPump(p) ==
  /\ p \in leaving /\ (closing[p] = "stop" => ~HasRoom)
  /\ leaving' = leaving \ {p}
  /\ IF PumpLives(p) THEN PumpEnds(p) ELSE UNCHANGED <<pump, pumps, sub>>
  /\ closing' = [closing EXCEPT ![p] = IF @ = "none" THEN @ ELSE "done"]
  /\ IF closing[p] = "join" /\ writer.loop THEN LoopEnds ELSE UNCHANGED <<outbox, writer, task>>
  /\ UNCHANGED <<front, wire, written, handler, events, server, shutdown>>

-----------------------------------------------------------------------------
(* The end of a connection                                                 *)

Eof ==
  /\ handler = "reading" /\ (client = "ended" \/ writer.over)
  /\ handler' = IF pumps = {} THEN "cancelling" ELSE "unsubscribing"
  /\ leaving' = leaving \cup pumps /\ pumps' = {}
  /\ UNCHANGED <<front, sender, task, pump, sub, events, server, shutdown>>

Unsubscribed ==
  /\ handler = "unsubscribing" /\ leaving = {}
  /\ handler' = "cancelling"
  /\ UNCHANGED <<front, sender, task, bridge, server, shutdown>>

CancelRequest(r) ==
  /\ Cancelling /\ task[r] \notin Ended
  /\ task' = [task EXCEPT ![r] = "failed"]
  /\ UNCHANGED <<front, sender, handler, bridge, server, shutdown>>

\* Defect: cancelled requests are not waited for.
NobodyIsAwaited == TRUE
RequestsEnded == \A r \in Requests : task[r] \in Ended

RequestsDone ==
  /\ Cancelling /\ RequestsEnded
  /\ handler' = "closing"
  /\ BeginClose("handler")
  /\ UNCHANGED <<front, wire, written, task, bridge, server, shutdown>>

\* A transport nobody closed is closed when it is collected.
Gone ==
  /\ handler = "closing" /\ closing["handler"] = "done"
  /\ handler' = "gone"
  /\ writer' = [writer EXCEPT !.over = TRUE]
  /\ UNCHANGED <<front, wire, outbox, closing, written, task, bridge, server, shutdown>>

-----------------------------------------------------------------------------
(* The end of the daemon: the server, then the pumps, then the hub.        *)

StopServer ==
  /\ server = "serving"                         \* shutdown, or a signal
  /\ server' = "closing"
  /\ IF handler = "reading"                     \* an active sender
     THEN BeginClose("server")
     ELSE closing' = [closing EXCEPT !["server"] = "done"] /\ UNCHANGED <<outbox, writer>>
  /\ UNCHANGED <<front, wire, written, handler, task, bridge, shutdown>>

StopPumps ==
  /\ server = "closing" /\ closing["server"] = "done"
  /\ server' = "pumps"
  /\ leaving' = leaving \cup pumps /\ pumps' = {}
  /\ UNCHANGED <<front, sender, handler, task, pump, sub, events, shutdown>>

StopHub ==
  /\ server = "pumps" /\ leaving = {}
  /\ server' = "hub"
  /\ sub' = [p \in Subscribes |-> [sub[p] EXCEPT !.on = FALSE]]
  /\ UNCHANGED <<front, sender, handler, task, pump, pumps, leaving, events, shutdown>>

\* The process ends, and what is left of the connection with it.
Exit ==
  /\ server = "hub" /\ server' = "stopped"
  /\ handler' = "gone" /\ outbox' = <<>>
  /\ writer' = [writer EXCEPT !.loop = FALSE, !.closed = TRUE, !.over = TRUE]
  /\ closing' = [x \in Closers |-> IF closing[x] = "none" THEN "none" ELSE "done"]
  /\ task' = [r \in Requests |-> IF task[r] \in Ended THEN task[r] ELSE "failed"]
  /\ pump' = [p \in Subscribes |-> IF PumpLives(p) THEN "ended" ELSE pump[p]]
  /\ sub' = [p \in Subscribes |-> [on |-> FALSE, items |-> 0, over |-> FALSE]]
  /\ pumps' = {}
  /\ UNCHANGED <<front, wire, written, leaving, events, shutdown>>

-----------------------------------------------------------------------------
Client   == Dispatch \/ ClientSeesEnd
WriteLoop == Write \/ WriteFails \/ WriteStops
Close(x) == PutStop(x) \/ JoinLoop(x)
Pump(p)  == Get(p) \/ Push(p) \/ Overflow(p) \/ PumpCloses(p) \/ PumpClosed(p) \/ CancelPump(p)
Serve(r) == Handle(r) \/ FindsRoom(r) \/ AfterResponse(r) \/ CancelRequest(r)
Connection == Eof \/ Unsubscribed \/ RequestsDone \/ Gone
DaemonEnds == (shutdown /\ StopServer) \/ StopPumps \/ StopHub \/ Exit

ConnectionNext ==
  \/ \E r \in Requests : Send(r) \/ Read(r) \/ Serve(r)
  \/ \E p \in Subscribes : Pump(p)
  \/ \E x \in Closers : Close(x)
  \/ Client \/ ClientEnds \/ Stall \/ WriteLoop \/ Publish \/ Connection \/ StopServer \/ DaemonEnds

ConnectionSpec == ConnectionInit /\ [][ConnectionNext]_connectionVars

\* Every task runs, time limits expire; nothing makes a client close or a signal arrive.
ConnectionFairSpec ==
  /\ ConnectionSpec /\ WF_connectionVars(Client) /\ WF_connectionVars(WriteLoop)
  /\ WF_connectionVars(Connection) /\ WF_connectionVars(DaemonEnds)
  /\ \A r \in Requests : WF_connectionVars(Serve(r)) /\ WF_connectionVars(Read(r))
  /\ \A p \in Subscribes : WF_connectionVars(Pump(p))
  /\ \A x \in Closers : WF_connectionVars(Close(x))

-----------------------------------------------------------------------------
(* Properties                                                              *)

\* The daemon begins to stop on request only after the one who asked was answered: the answer
\* has gone to the socket, behind everything queued before it.
ShutdownIsAnswered == shutdown => \E r \in Shutdowns : r \in written

\* A connection whose handler has returned has left nothing at work on the daemon's side that
\* could still use it: no write loop and no request; a pump that was started too late finds the
\* sender closed.
GoneIsReleased ==
  /\ ConnectionTypeOK
  /\ handler = "gone" =>
       /\ ~writer.loop /\ writer.closed /\ writer.over
       /\ \A r \in Requests : task[r] \in Ended

\* The calls of a client that goes on reading return, with their answers or with the loss of the
\* connection; and a daemon that is asked to stop stops, also when a client has stopped reading,
\* its outbox is full, a pump is in the middle of closing it or a subscription is just being made.
EverybodyReturns ==
  /\ Waiting # {} ~> (Waiting = {} \/ client = "stalled")
  /\ (shutdown \/ server = "closing") ~> server = "stopped"
=============================================================================
