---------------------------- MODULE EventDelivery ----------------------------
(***************************************************************************)
(* From the durable event log to a client: DurableEventHub, its            *)
(* subscriptions, IpcEventBroadcaster, ConnectionSender, SocketClient, and *)
(* the clients that follow a session: the terminal UI, the web bridge and  *)
(* the command line (whose own steps are in CommandLine).                  *)
(*                                                                         *)
(* An event is its kind, its cursor its place in the log.  The queue in    *)
(* front of the log is EventWriter; here a batch appears by Commit.  Every *)
(* bounded queue of the code is a sequence with its capacity: the live     *)
(* queue of a subscription, the outgoing queue of a connection (wire,      *)
(* which stands for the socket buffers behind it as well) and the queue in *)
(* front of a browser (inbox).                                             *)
(***************************************************************************)
EXTENDS Naturals, Sequences, FiniteSets, SequencesExt

CONSTANTS
    Kinds,        \* kinds of events
    Produced,     \* the kinds of the events that are stored while a client looks on
    Scope,        \* the kinds that belong to the session being followed
    Clients,
    Topics,       \* the kinds the topics of the terminal UI match, in the scope
    Fronts,       \* the programs the clients may be, as functions on Clients
    LiveCap,      \* SUBSCRIPTION_QUEUE_CAPACITY
    ReplayLimit,  \* MAX_REPLAY_EVENTS
    WireCap,      \* _OUTGOING_QUEUE_CAPACITY
    InboxCap,     \* the queue of WebCoreClient.stream_events
    BatchSize,    \* MAX_BATCH_SIZE
    MaxLog,       \* bound on the length of the log
    Losses,       \* bound on the connections lost
    Stops         \* bound on the ends of a daemon process

ASSUME CapacitiesAssumption ==
    /\ \A n \in {LiveCap, ReplayLimit, WireCap, InboxCap, BatchSize} : n \in Nat \ {0}
    /\ \A n \in {MaxLog, Losses, Stops} : n \in Nat

ASSUME InterestAssumption ==
    /\ Scope \subseteq Kinds /\ Produced \subseteq Kinds
    /\ Topics \subseteq Scope
    /\ Fronts \subseteq [Clients -> {"terminal", "browser", "command"}]

VARIABLES
    \* durable
    log,        \* table events: the kind of every cursor
    \* the hub
    hub,        \* up, failed (the persistence worker died), or down
    worker,     \* idle, or committed: the batch is durable but not fanned out
    latest,     \* DurableEventHub._latest_cursor
    sub,        \* the DurableSubscription of a client's connection
    \* connections and clients
    conn,       \* down, up, or eof: nothing more will be put on the wire
    wire,       \* what was sent on the connection and not yet received
    lastCursor, \* SocketClient._last_cursor, since the connection was made
    inbox,      \* web: envelopes between the socket and the browser
    overflow,   \* web: an envelope did not fit the inbox
    asking,     \* web: the generator waits for the next envelope
    pos,        \* the cursor the client will resume from
    seen,       \* the cursors the client has shown (history)
    losses,     \* connections lost so far
    stops,      \* daemon processes ended so far
    front       \* the program each client is, chosen once

hubVars    == <<hub, worker, latest>>
connVars   == <<conn, wire, lastCursor>>
webVars    == <<inbox, overflow, asking>>
clientVars == <<pos, seen>>
countVars  == <<losses, stops, front>>
vars == <<log, hubVars, sub, connVars, webVars, clientVars, countVars>>

-------------------------------------------------------------------------------
(* Subscriptions *)

web == {c \in Clients : front[c] = "browser"}

\* The terminal UI subscribes with topics, the others to the whole session.
Interest(c) == IF front[c] = "terminal" THEN Topics ELSE Scope

Wanted(c, k) == log[k] \in Interest(c)

\* The events after low, up to high, that a client wants,
Wants(c, low, high) == {k \in low + 1 .. high : Wanted(c, k)}

\* and the rows list_events looks for.
Scoped(low, high) == {k \in low + 1 .. high : log[k] \in Scope}

\* Sets of cursors in their order
Rank(S, k)   == Cardinality({j \in S : j <= k})
Ranked(S, i) == {k \in S : Rank(S, k) = i}
InOrder(S)   == [i \in 1..Cardinality(S) |-> CHOOSE k \in Ranked(S, i) : TRUE]

\* LIMIT: the first of them
FirstOf(S, limit) == {k \in S : Rank(S, k) <= limit}

NoSub == [state |-> "off", after |-> 0, high |-> 0, replay |-> <<>>, live |-> <<>>,
          truncated |-> FALSE, overflowed |-> FALSE, next |-> 0, last |-> 0]

\* Defect: a subscription is registered when its replay has been read.
OfferWhenLoaded(s, new) ==
    IF s.state # "live" \/ s.overflowed THEN s
    ELSE IF Len(s.live) + Len(new) <= LiveCap THEN [s EXCEPT !.live = @ \o new]
    ELSE [s EXCEPT !.live = <<>>, !.overflowed = TRUE]

(***************************************************************************)
(* The matching events of a batch are offered in one synchronous step.  An *)
(* event that does not fit drops the whole live queue: the subscription is *)
(* over, and the client has to come back for the rest.                     *)
(***************************************************************************)
Offer(s, new) ==
    IF s.state = "off" \/ s.overflowed THEN s
    ELSE IF Len(s.live) + Len(new) <= LiveCap THEN [s EXCEPT !.live = @ \o new]
    ELSE [s EXCEPT !.live = <<>>, !.overflowed = TRUE]

-------------------------------------------------------------------------------
(* The hub *)

\* A connection that ends takes its subscription with it.
Unsubscribed(c) == [sub EXCEPT ![c] = NoSub]

Init ==
    /\ log        = <<>>
    /\ hub        = "up"
    /\ worker     = "idle"
    /\ latest     = 0
    /\ sub        = [c \in Clients |-> NoSub]
    /\ conn       = [c \in Clients |-> "down"]
    /\ wire       = [c \in Clients |-> <<>>]
    /\ lastCursor = [c \in Clients |-> 0]
    /\ inbox      = [c \in Clients |-> <<>>]
    /\ overflow   = [c \in Clients |-> FALSE]
    /\ asking     = [c \in Clients |-> FALSE]
    /\ pos        = [c \in Clients |-> 0]
    /\ seen       = [c \in Clients |-> <<>>]
    /\ losses     = 0
    /\ stops      = 0
    /\ front      \in Fronts

Batches == UNION {[1..n -> Produced] : n \in 1..BatchSize}

\* The transaction of _persist_and_fan_out.
Commit(batch) ==
    /\ hub = "up"
    /\ worker = "idle"
    /\ Len(log) + Len(batch) <= MaxLog
    /\ log' = log \o batch
    /\ worker' = "committed"
    /\ UNCHANGED <<hub, latest, sub, connVars, webVars, clientVars, countVars>>

FanOut ==
    /\ hub = "up"
    /\ worker = "committed"
    /\ worker' = "idle"
    /\ latest' = Len(log)
    /\ sub' = [c \in Clients |->
                 Offer(sub[c], InOrder(Wants(c, latest, Len(log))))]
    /\ UNCHANGED <<log, hub, connVars, webVars, clientVars, countVars>>

\* _worker_finished with an error: every subscription overflows.
WorkerFails ==
    /\ hub = "up"
    /\ hub' = "failed"
    /\ sub' = [c \in Clients |->
                 IF sub[c].state = "off" THEN sub[c]
                 ELSE [sub[c] EXCEPT !.live = <<>>, !.overflowed = TRUE]]
    /\ UNCHANGED <<log, worker, latest, connVars, webVars, clientVars, countVars>>

-------------------------------------------------------------------------------
(* A connection: subscribe, replay, pump *)

Connect(c) ==
    /\ conn[c] = "down"
    /\ hub # "down"
    /\ conn' = [conn EXCEPT ![c] = "up"]
    /\ lastCursor' = [lastCursor EXCEPT ![c] = 0]
    /\ UNCHANGED <<log, hubVars, sub, wire, webVars, clientVars, countVars>>

(***************************************************************************)
(* The subscription is registered before the replay is read, so that what  *)
(* is committed in the meantime goes to its live queue.                    *)
(***************************************************************************)
Subscribe(c) ==
    /\ conn[c] = "up"
    /\ sub[c].state = "off"
    /\ hub = "up"
    /\ sub' = [sub EXCEPT ![c] = [NoSub EXCEPT !.state = "loading", !.after = pos[c],
                                               !.high = latest]]
    /\ UNCHANGED <<log, hubVars, connVars, webVars, clientVars, countVars>>

\* A hub that has failed refuses; the client closes and tries again.
SubscribeRefused(c) ==
    /\ conn[c] = "up"
    /\ sub[c].state = "off"
    /\ hub = "failed"
    /\ conn' = [conn EXCEPT ![c] = "down"]
    /\ UNCHANGED <<log, hubVars, sub, wire, lastCursor, webVars, clientVars, countVars>>

\* Defect: a replay without a wanted event makes no progress.
NextCursorStays(s, scanned) == s.after

NextCursor(s, scanned) == IF scanned = {} THEN s.after ELSE Max(scanned)

(***************************************************************************)
(* The limit counts the rows of the session; topics are matched after it.  *)
(***************************************************************************)
LoadReplay(c) ==
    LET s       == sub[c]
        rows    == Scoped(s.after, s.high)
        scanned == FirstOf(rows, ReplayLimit)
    IN
    /\ s.state = "loading"
    /\ sub' = [sub EXCEPT ![c] = [s EXCEPT !.state = "live",
                 !.replay    = InOrder({k \in scanned : Wanted(c, k)}),
                 !.truncated = Cardinality(rows) > ReplayLimit,
                 !.next      = NextCursor(s, scanned),
                 !.last      = NextCursor(s, scanned)]]
    /\ UNCHANGED <<log, hubVars, connVars, webVars, clientVars, countVars>>

Room(c) == Len(wire[c]) < WireCap

Event(k)  == [marker |-> FALSE, cursor |-> k]
Marker(k) == [marker |-> TRUE, cursor |-> k]

Send(c, item) == wire' = [wire EXCEPT ![c] = Append(@, item)]

PumpReplays(c) ==
    LET s == sub[c] IN
    /\ s.state = "live"
    /\ s.replay # <<>>
    /\ Room(c)
    /\ Send(c, Event(Head(s.replay)))
    /\ sub' = [sub EXCEPT ![c].replay = Tail(@), ![c].last = Head(s.replay)]
    /\ UNCHANGED <<log, hubVars, conn, lastCursor, webVars, clientVars, countVars>>

\* Defect: a truncated replay is continued with live events.
MayGoLiveTruncated(s) == s.replay = <<>> /\ ~ s.overflowed

MayGoLive(s) == s.replay = <<>> /\ ~ s.truncated /\ ~ s.overflowed

PumpSends(c) ==
    LET s == sub[c] IN
    /\ s.state = "live"
    /\ MayGoLive(s)
    /\ s.live # <<>>
    /\ Room(c)
    /\ Send(c, Event(Head(s.live)))
    /\ sub' = [sub EXCEPT ![c].live = Tail(@), ![c].last = Head(s.live)]
    /\ UNCHANGED <<log, hubVars, conn, lastCursor, webVars, clientVars, countVars>>

(***************************************************************************)
(* The pump ends with a marker that tells the client where to resume, and  *)
(* closes the connection.  A marker that cannot be sent within its second  *)
(* is a connection lost (Lost).                                            *)
(***************************************************************************)
PumpEnds(c) ==
    LET s == sub[c] IN
    /\ s.state = "live"
    /\ s.replay = <<>>
    /\ s.truncated \/ s.overflowed
    /\ Room(c)
    /\ Send(c, Marker(IF s.truncated THEN s.next ELSE s.last))
    /\ conn' = [conn EXCEPT ![c] = "eof"]
    /\ sub' = Unsubscribed(c)
    /\ UNCHANGED <<log, hubVars, lastCursor, webVars, clientVars, countVars>>

-------------------------------------------------------------------------------
(* The client's end of a connection *)

Advance(c, k) == pos' = [pos EXCEPT ![c] = IF k > @ THEN k ELSE @]

\* A client shows an event when it is one, and remembers where to resume.
Show(c, item) ==
    /\ Advance(c, item.cursor)
    /\ seen' = IF item.marker THEN seen ELSE [seen EXCEPT ![c] = Append(@, item.cursor)]

(***************************************************************************)
(* SocketClient._dispatch drops an event whose cursor is not above the     *)
(* last one of this connection, and hands on everything else.              *)
(***************************************************************************)
Fresh(c, item) == item.marker \/ item.cursor > lastCursor[c]

Dispatch(c, item) ==
    /\ wire' = [wire EXCEPT ![c] = Tail(@)]
    /\ lastCursor' = IF item.marker THEN lastCursor
                      ELSE [lastCursor EXCEPT ![c] = IF Fresh(c, item) THEN item.cursor ELSE @]

\* The terminal UI shows an envelope as it is dispatched.
Receive(c) ==
    LET item == Head(wire[c]) IN
    /\ front[c] = "terminal"
    /\ wire[c] # <<>>
    /\ Dispatch(c, item)
    /\ IF Fresh(c, item) THEN Show(c, item) ELSE UNCHANGED clientVars
    /\ UNCHANGED <<log, hubVars, sub, conn, webVars, countVars>>

\* The web bridge queues it for the browser, or notes that it could not.
Relay(c) ==
    LET item == Head(wire[c]) IN
    /\ c \in web
    /\ wire[c] # <<>>
    /\ Dispatch(c, item)
    /\ inbox' = IF Fresh(c, item) /\ Len(inbox[c]) < InboxCap
                THEN [inbox EXCEPT ![c] = Append(@, item)] ELSE inbox
    /\ overflow' = [overflow EXCEPT ![c] = @ \/ (Fresh(c, item) /\ Len(inbox[c]) >= InboxCap)]
    /\ UNCHANGED <<log, hubVars, sub, conn, asking, clientVars, countVars>>

(***************************************************************************)
(* Once it has subscribed, or lost the connection, stream_events loops: it *)
(* looks at the overflow flag first,                                       *)
(***************************************************************************)
BrowserAsks(c) ==
    /\ c \in web
    /\ sub[c].state = "live" \/ conn[c] = "eof"
    /\ ~ asking[c]
    /\ ~ overflow[c]
    /\ asking' = [asking EXCEPT ![c] = TRUE]
    /\ UNCHANGED <<log, hubVars, sub, connVars, inbox, overflow, clientVars, countVars>>

\* The client leaves the connection: what was on its way is lost.
Leave(c) ==
    /\ conn'     = [conn EXCEPT ![c] = "down"]
    /\ wire'     = [wire EXCEPT ![c] = <<>>]
    /\ sub'      = Unsubscribed(c)
    /\ inbox'    = [inbox EXCEPT ![c] = <<>>]
    /\ overflow' = [overflow EXCEPT ![c] = FALSE]
    /\ asking'   = [asking EXCEPT ![c] = FALSE]

\* then waits for one envelope; a marker is the last one it yields.
BrowserTakes(c) ==
    LET item == Head(inbox[c]) IN
    /\ asking[c]
    /\ inbox[c] # <<>>
    /\ Show(c, item)
    /\ IF item.marker THEN Leave(c)
       ELSE /\ asking' = [asking EXCEPT ![c] = FALSE]
            /\ inbox' = [inbox EXCEPT ![c] = Tail(@)]
            /\ UNCHANGED <<conn, wire, sub, overflow>>
    /\ UNCHANGED <<log, hubVars, lastCursor, countVars>>

\* The browser resumes after what crossed the bridge.
ResumeFromDelivered(c) == UNCHANGED pos

BrowserResyncs(c) ==
    /\ overflow[c]
    /\ ~ asking[c]
    /\ ResumeFromDelivered(c)
    /\ Leave(c)
    /\ UNCHANGED <<log, hubVars, lastCursor, seen, countVars>>

\* The end of the connection is noticed after everything that came before it.
SeesEof(c) ==
    /\ conn[c] = "eof"
    /\ wire[c] = <<>>
    /\ inbox[c] = <<>>
    /\ ~ overflow[c]
    /\ c \in web => asking[c]
    /\ Leave(c)
    /\ UNCHANGED <<log, hubVars, lastCursor, clientVars, countVars>>

-------------------------------------------------------------------------------
(* Losses and restarts *)

\* A connection breaks: what is on the wire never arrives.
Lost(c) ==
    /\ conn[c] # "down"
    /\ losses < Losses
    /\ losses' = losses + 1
    /\ conn' = [conn EXCEPT ![c] = "eof"]
    /\ wire' = [wire EXCEPT ![c] = <<>>]
    /\ sub' = Unsubscribed(c)
    /\ UNCHANGED <<log, hubVars, lastCursor, webVars, clientVars, stops, front>>

ProcessEnds ==
    /\ hub # "down"
    /\ stops < Stops
    /\ stops' = stops + 1
    /\ hub' = "down"
    /\ worker' = "idle"
    /\ sub' = [c \in Clients |-> NoSub]
    /\ conn' = [c \in Clients |-> IF conn[c] = "down" THEN "down" ELSE "eof"]
    /\ UNCHANGED <<log, latest, wire, lastCursor, webVars, clientVars, losses, front>>

\* DurableEventHub.start
HubStarts ==
    /\ hub = "down"
    /\ hub' = "up"
    /\ latest' = Len(log)
    /\ UNCHANGED <<log, worker, sub, connVars, webVars, clientVars, countVars>>

-------------------------------------------------------------------------------
(* The specification *)

ServerStep(c) == LoadReplay(c) \/ PumpReplays(c) \/ PumpSends(c) \/ PumpEnds(c)

\* The steps of a command line are in CommandLine.
ClientStep(c) ==
    /\ front[c] # "command"
    /\ \/ Connect(c) \/ Subscribe(c) \/ SubscribeRefused(c)
       \/ Receive(c) \/ Relay(c) \/ SeesEof(c)

BrowserStep(c) == BrowserAsks(c) \/ BrowserTakes(c) \/ BrowserResyncs(c)

Next ==
    \/ \E batch \in Batches : Commit(batch)
    \/ FanOut \/ WorkerFails \/ ProcessEnds \/ HubStarts
    \/ \E c \in Clients : ServerStep(c) \/ ClientStep(c) \/ BrowserStep(c) \/ Lost(c)

Spec == Init /\ [][Next]_vars

(***************************************************************************)
(* The event loops of the daemon and of the clients run what is ready, the *)
(* clients read and reconnect for ever.  Producers owe no event, and       *)
(* nobody restarts a daemon.                                               *)
(***************************************************************************)
Fairness ==
    /\ WF_vars(FanOut)
    /\ \A c \in Clients :
          WF_vars(ServerStep(c)) /\ WF_vars(ClientStep(c)) /\ WF_vars(BrowserStep(c))

FairSpec == Spec /\ Fairness

-------------------------------------------------------------------------------
(* Properties *)

Subs == [state : {"off", "loading", "live"}, after : 0..MaxLog, high : 0..MaxLog,
         replay : Seq(1..MaxLog), live : Seq(1..MaxLog), truncated : BOOLEAN,
         overflowed : BOOLEAN, next : 0..MaxLog, last : 0..MaxLog]

Items == Seq([marker : BOOLEAN, cursor : 0..MaxLog])

\* The types of the variables; no queue is ever longer than its capacity.
TypeOK ==
    /\ log \in Seq(Kinds) /\ Len(log) <= MaxLog
    /\ hub \in {"up", "failed", "down"}
    /\ worker \in {"idle", "committed"}
    /\ latest \in 0..MaxLog
    /\ \A c \in Clients :
          /\ sub[c] \in Subs
          /\ Len(sub[c].live) <= LiveCap /\ Len(sub[c].replay) <= ReplayLimit
          /\ conn[c] \in {"down", "up", "eof"}
          /\ wire[c] \in Items /\ Len(wire[c]) <= WireCap
          /\ inbox[c] \in Items /\ Len(inbox[c]) <= InboxCap
          /\ lastCursor[c] \in 0..MaxLog /\ pos[c] \in 0..MaxLog
          /\ overflow[c] \in BOOLEAN /\ asking[c] \in BOOLEAN
          /\ seen[c] \in Seq(1..MaxLog)
    /\ losses \in 0..Losses /\ stops \in 0..Stops

(***************************************************************************)
(* Up to the cursor it would resume from a client has shown exactly the    *)
(* events it wants, in order: no replay limit, no full queue, no lost      *)
(* connection and no restart ever makes it skip or repeat one.             *)
(***************************************************************************)
ClientSawEverything ==
    \A c \in Clients : seen[c] = InOrder(Wants(c, 0, pos[c]))

CursorsOf(items) == [i \in 1..Len(items) |-> items[i].cursor]

(***************************************************************************)
(* While a subscription is not cut short, what is on its way to the client *)
(* is exactly what the client wants and does not have yet, in order: there *)
(* is no window between the replay and the live events, and no overlap.    *)
(***************************************************************************)
ReplayMeetsLive ==
    \A c \in Clients :
        LET s == sub[c] IN
        s.state = "live" /\ ~ s.truncated /\ ~ s.overflowed /\ ~ overflow[c] =>
            CursorsOf(inbox[c]) \o CursorsOf(wire[c]) \o s.replay \o s.live
              = InOrder(Wants(c, pos[c], latest))

\* Nothing is missing on the way to a client, nor in what it has seen.
NothingIsSkipped == TypeOK /\ ClientSawEverything /\ ReplayMeetsLive

Awaits(c, k) == k <= Len(log) /\ log[k] \in Interest(c)
Got(c, k)    == k \in ToSet(seen[c])

(***************************************************************************)
(* An event that is in the log is shown to every terminal that wants it,   *)
(* unless the hub fails or the process ends.                               *)
(***************************************************************************)
TerminalsCatchUp ==
    \A c \in Clients, k \in 1..MaxLog :
        front[c] = "terminal" /\ Awaits(c, k) ~> (Got(c, k) \/ hub # "up")

\* Every client sees what EventStream promises.
Stream == INSTANCE EventStream WITH interest <- [c \in Clients |-> Interest(c)]

StreamSpec == Stream!Spec
==============================================================================
