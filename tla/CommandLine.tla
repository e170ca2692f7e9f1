----------------------------- MODULE CommandLine -----------------------------
(***************************************************************************)
(* TerminalClient of cli/client.py: `tars run` and `tars chat`.  One input *)
(* loop takes what the connection, the answers of the daemon and the user  *)
(* put into its queue; the daemon's side of the run it follows is reduced  *)
(* to its status, one request for approval and one failed tool below it.   *)
(*                                                                         *)
(* The stream below it is reduced to what EventDelivery shows of it, and   *)
(* what stays its own business: the next event can always be taken, a      *)
(* replay is counted and may be cut short, and the marker that ends a      *)
(* subscription comes at any time.  Events are taken from the stream when  *)
(* the loop takes them from its queue; everything else it takes is in      *)
(* results, in order.  Each action of the loop is what happens between two *)
(* waits for the queue.                                                    *)
(***************************************************************************)
EXTENDS EventDelivery

CONSTANTS
    Me,         \* the client that may be a command line
    Ask,        \* kind permission.requested
    Resolved,   \* kinds permission.granted and permission.denied, and the end of the run
    Failure,    \* kind tool.call_failed, of the run or of an agent below it
    Hows,       \* the ways to start it: the command, and whether there is a terminal
    MaxActs     \* bound on what the user does

RunKinds == {Ask, Resolved, Failure}

ASSUME CommandAssumption ==
    /\ Clients = {Me}
    /\ RunKinds \subseteq Scope
    /\ Hows \subseteq [mode : {"run", "chat", "resume"}, interactive : BOOLEAN]
    /\ MaxActs \in Nat
    /\ MaxLog >= 3        \* room for the events of the run

VARIABLES
    how,        \* run, chat or resume, and whether there is a terminal; chosen once
    \* the daemon
    run,        \* status of the run, and whether its result has a text
    ask,        \* none, open or over: the request for approval
    owed,       \* events that are accepted by the hub and not yet committed
    published,  \* the kinds published so far, each at most once
    rpc,        \* where each command is: idle, sent or flush
    ahead,      \* the events the flush of a snapshot still waits for
    \* the client
    at,         \* start, answer, loop or ended
    exit,       \* the exit code: none, zero, one, interrupted (130)
    cl,         \* what the client knows
    snapshot,   \* the answer of the last snapshot
    candidate,  \* a snapshot of the ended run, or NoSnapshot
    results,    \* answers and inputs in the queue
    acts        \* what the user has done: interrupt, eof, line

daemonVars  == <<run, ask, owed, published>>
commandVars == <<rpc, ahead, at, exit, cl, snapshot, candidate, results, acts>>
allVars     == <<vars, how, daemonVars, commandVars>>

-------------------------------------------------------------------------------
(* The state of the client *)

Commands == {"submit", "cancel", "snapshot", "approve"}
Terminal == {"succeeded", "failed", "cancelled", "interrupted"}

NoSnapshot == [status |-> "none", text |-> FALSE, cursor |-> 0]

NewClient == [active |-> FALSE, submitting |-> FALSE, cancelling |-> FALSE, unattended |-> FALSE,
              prompt |-> FALSE, shown |-> FALSE, errors |-> FALSE, polling |-> FALSE,
              replaying |-> TRUE, left |-> 0, cut |-> FALSE, re |-> "no"]

Result(kind, outcome) == [kind |-> kind, outcome |-> outcome]

IsCommand == front[Me] = "command"
OneShot   == how.mode = "run"
Active    == run.status = "running"
Idle      == [k \in Commands |-> "idle"]

CommandInit ==
    /\ Init
    /\ how \in Hows
    /\ IsCommand \/ how = CHOOSE h \in Hows : TRUE
    /\ run = [status |-> IF how.mode = "resume" THEN "running" ELSE "none", text |-> FALSE]
    /\ ask = "none" /\ owed = <<>> /\ published = {}
    /\ rpc = Idle /\ ahead = 0
    /\ at = "start" /\ exit = "none" /\ cl = NewClient
    /\ snapshot = NoSnapshot /\ candidate = NoSnapshot
    /\ results = IF how.mode = "chat" THEN <<Result("line", "plain")>> ELSE <<>>
    /\ acts = {}

(***************************************************************************)
(* The finally clause of run: commands under way are given up and the      *)
(* connection is closed.                                                   *)
(***************************************************************************)
End(code) ==
    /\ at' = "ended" /\ exit' = code
    /\ cl' = NewClient /\ rpc' = Idle /\ ahead' = 0 /\ results' = <<>>
    /\ snapshot' = NoSnapshot /\ candidate' = NoSnapshot
    /\ Leave(Me)
    /\ UNCHANGED <<log, hubVars, lastCursor, clientVars, countVars, how, daemonVars, acts>>

\* _reconnect: the client has no connection until the new one is open.
Sends(k, rest) ==
    IF cl.re \in {"closing", "opening"}
    THEN rpc' = rpc /\ results' = Append(rest, Result(k, "broken"))
    ELSE rpc' = [rpc EXCEPT ![k] = "sent"] /\ results' = rest

(***************************************************************************)
(* _request_cancel: a run that is still being submitted is cancelled once  *)
(* its identity is known.  known is what the client knows by then.         *)
(***************************************************************************)
RequestsCancel(known, rest) ==
    /\ cl' = [known EXCEPT !.cancelling = TRUE]
    /\ IF known.active THEN Sends("cancel", rest)
       ELSE rpc' = rpc /\ results' = rest

-------------------------------------------------------------------------------
(* Before the loop: connect, create or resume the session, subscribe *)

\* The rows of the session that come after what the client has seen.
Behind == Len(log) - pos[Me]

\* Defect: a client with nothing to replay waits for the end of its replay.
CountedAlways(known) ==
    [known EXCEPT !.replaying = TRUE, !.cut = Behind > ReplayLimit,
                  !.left = IF Behind > ReplayLimit THEN ReplayLimit ELSE Behind]

\* event.subscribe is handled and answered: the replay is counted.
Counted(known) ==
    [known EXCEPT !.replaying = Behind > 0, !.cut = Behind > ReplayLimit,
                  !.left = IF Behind > ReplayLimit THEN ReplayLimit ELSE Behind]

Starts ==
    /\ at = "start"
    /\ \/ /\ hub = "up"
          /\ Connect(Me)
          /\ at' = "answer"
          /\ cl' = [Counted(cl) EXCEPT !.active = how.mode = "resume" /\ Active]
          /\ UNCHANGED <<how, daemonVars, rpc, ahead, exit, snapshot, candidate, results, acts>>
       \/ hub # "up" /\ End("one")

Enters ==
    /\ at = "answer"
    /\ at' = "loop"
    /\ IF OneShot THEN cl' = [cl EXCEPT !.submitting = TRUE] /\ Sends("submit", results)
       ELSE UNCHANGED <<cl, rpc, results>>
    /\ UNCHANGED <<vars, how, daemonVars, ahead, exit, snapshot, candidate, acts>>

CannotStart == at = "answer" /\ conn[Me] = "eof" /\ End("one")

-------------------------------------------------------------------------------
(* The daemon: the run and its events *)

\* What happens after the connection has ended does not reach the client any more.
Serving == IsCommand /\ hub # "down" /\ conn[Me] # "eof"

\* Bound: one of the events that end a stream.
OneFault == hub = "up" /\ losses + stops = 0

Publish(k) ==
    /\ owed' = Append(owed, k)
    /\ published' = published \cup {k}

\* A tool of the run asks for approval.
Asks ==
    /\ Serving
    /\ Active /\ ask = "none"
    /\ ask' = "open"
    /\ Publish(Ask)
    /\ UNCHANGED <<vars, how, run, commandVars>>

\* The request is resolved: it timed out, or somebody else answered.
AskEnds ==
    /\ Serving
    /\ ask = "open"
    /\ ask' = "over"
    /\ Publish(Resolved)
    /\ UNCHANGED <<vars, how, run, commandVars>>

\* The last tool of the run, or of an agent below it, may have failed.
RunEnds(status, text) ==
    /\ Serving
    /\ Active /\ ask # "open"
    /\ run' = [status |-> status, text |-> text]
    /\ Publish(Failure) \/ UNCHANGED <<owed, published>>
    /\ UNCHANGED <<vars, how, ask, commandVars>>

\* The hub commits what it has accepted, in order, a batch at a time.
OwedCommitted ==
    LET n == IF Len(owed) < BatchSize THEN Len(owed) ELSE BatchSize IN
    /\ Serving /\ hub = "up" /\ n > 0
    /\ log' = log \o SubSeq(owed, 1, n)
    /\ owed' = SubSeq(owed, n + 1, Len(owed))
    /\ ahead' = IF ahead > n THEN ahead - n ELSE 0
    /\ UNCHANGED <<hubVars, sub, connVars, webVars, clientVars, countVars, how, run, ask, published,
                   rpc, at, exit, cl, snapshot, candidate, results, acts>>

\* A process that ends takes the queue with it; the next one settles its run.
DaemonEnds ==
    /\ OneFault /\ ProcessEnds
    /\ owed' = <<>>
    /\ ask' = IF ask = "open" THEN "over" ELSE ask
    /\ run' = IF Active THEN [run EXCEPT !.status = "interrupted"] ELSE run
    /\ ahead' = 0
    /\ UNCHANGED <<how, published, rpc, at, exit, cl, snapshot, candidate, results, acts>>

-------------------------------------------------------------------------------
(* The daemon: commands *)

Reaches(k, stage) == Serving /\ rpc[k] = stage /\ conn[Me] = "up"

Answer(k, outcome) ==
    /\ rpc' = [rpc EXCEPT ![k] = "idle"]
    /\ results' = Append(results, Result(k, outcome))

(***************************************************************************)
(* A command is handled and answered.  The answer can come too late: the   *)
(* client waits 20 s, for a cancellation 16 s.                             *)
(***************************************************************************)
Handles(k) == Reaches(k, "sent") /\ \E outcome \in {"ok", "late"} : Answer(k, outcome)

\* session.send_message
Submitted ==
    /\ Handles("submit")
    /\ run' = [run EXCEPT !.status = "running"]
    /\ UNCHANGED <<vars, how, ask, owed, published, ahead, at, exit, cl, snapshot, candidate, acts>>

\* run.cancel: an unfinished run is cancelled, one that has ended stays as it is.
Cancelled ==
    /\ Handles("cancel")
    /\ run' = IF Active THEN [run EXCEPT !.status = "cancelled"] ELSE run
    /\ IF ask = "open" THEN ask' = "over" /\ Publish(Resolved)
       ELSE UNCHANGED <<ask, owed, published>>
    /\ UNCHANGED <<vars, how, ahead, at, exit, cl, snapshot, candidate, acts>>

\* permission.respond: an answer to a request that is over changes nothing.
Approved ==
    /\ Handles("approve")
    /\ IF ask = "open" THEN ask' = "over" /\ Publish(Resolved)
       ELSE UNCHANGED <<ask, owed, published>>
    /\ UNCHANGED <<vars, how, run, ahead, at, exit, cl, snapshot, candidate, acts>>

(***************************************************************************)
(* The first part of _snapshot: the row of the run.  While the run goes on *)
(* the client asks again every second, which is one request here.          *)
(***************************************************************************)
RunRead ==
    /\ Reaches("snapshot", "sent")
    /\ run.status \in Terminal
    /\ snapshot' = [status |-> run.status, text |-> run.text, cursor |-> 0]
    /\ rpc' = [rpc EXCEPT !["snapshot"] = "flush"]
    /\ ahead' = Len(owed)
    /\ UNCHANGED <<vars, how, daemonVars, at, exit, cl, candidate, results, acts>>

\* The last cursor of the session.
LatestCursor ==
    LET own == Scoped(0, Len(log))
    IN  IF own = {} THEN 0 ELSE Max(own)

\* The second part: the events accepted before are stored, session.get answers.
SessionRead ==
    /\ Reaches("snapshot", "flush")
    /\ IF hub = "failed" THEN Answer("snapshot", "broken") /\ UNCHANGED snapshot
       ELSE /\ ahead = 0
            /\ snapshot' = [snapshot EXCEPT !.cursor = LatestCursor]
            /\ \E outcome \in {"ok", "late"} : Answer("snapshot", outcome)
    /\ ahead' = 0
    /\ UNCHANGED <<vars, how, daemonVars, at, exit, cl, candidate, acts>>

-------------------------------------------------------------------------------
(* The loop *)

\* Defect: the result is reported as soon as the run has ended.
CanFinishAtOnce == at = "loop" /\ candidate # NoSnapshot

(***************************************************************************)
(* The result is reported once everything up to the cursor of the snapshot *)
(* has been seen.                                                          *)
(***************************************************************************)
CanFinish == at = "loop" /\ candidate # NoSnapshot /\ ~ cl.replaying /\ pos[Me] >= candidate.cursor

ExitCode ==
    IF cl.unattended THEN "one"
    ELSE IF cl.cancelling \/ candidate.status = "cancelled" THEN "interrupted"
    ELSE IF candidate.status = "succeeded" /\ candidate.text /\ ~ cl.errors THEN "zero"
    ELSE "one"

Finish ==
    /\ CanFinish
    /\ IF OneShot THEN End(ExitCode)
       ELSE /\ cl' = [cl EXCEPT !.active = FALSE, !.cancelling = FALSE]
            /\ candidate' = NoSnapshot
            /\ UNCHANGED <<vars, how, daemonVars, rpc, ahead, at, exit, snapshot, results, acts>>

MustShow == at = "loop" /\ cl.prompt # cl.shown /\ ~ cl.replaying /\ cl.re = "no"

\* _show_input: without a terminal the request is denied and the run is cancelled.
ShowPrompt ==
    LET denied == [cl EXCEPT !.prompt = FALSE, !.unattended = TRUE] IN
    /\ MustShow
    /\ IF ~ cl.prompt \/ how.interactive
       THEN cl' = [cl EXCEPT !.shown = cl.prompt] /\ UNCHANGED <<rpc, results>>
       ELSE IF cl.cancelling \/ ~ cl.active
       THEN cl' = [denied EXCEPT !.cancelling = TRUE] /\ Sends("approve", results)
       ELSE /\ cl' = [denied EXCEPT !.cancelling = TRUE]
            /\ rpc' = [rpc EXCEPT !["approve"] = "sent", !["cancel"] = "sent"]
            /\ UNCHANGED results
    /\ UNCHANGED <<vars, how, daemonVars, ahead, at, exit, snapshot, candidate, acts>>

\* The loop waits for its queue once there is nothing to report or to show.
Waits == at = "loop" /\ ~ CanFinish /\ ~ MustShow

Polls ==
    /\ Waits
    /\ cl.active /\ ~ cl.polling /\ candidate = NoSnapshot /\ cl.re = "no"
    /\ cl' = [cl EXCEPT !.polling = TRUE]
    /\ Sends("snapshot", results)
    /\ UNCHANGED <<vars, how, daemonVars, ahead, at, exit, snapshot, candidate, acts>>

\* What an event tells the client.
Learns(known, k) ==
    [known EXCEPT !.errors = @ \/ log[k] = Failure,
                  !.prompt = IF log[k] = Ask THEN TRUE ELSE @ /\ log[k] # Resolved]

\* The replay is over when as many events have come as the answer counted.
Counts(known) ==
    IF known.left = 0 THEN known
    ELSE [known EXCEPT !.left = @ - 1, !.replaying = @ /\ (known.left > 1 \/ known.cut)]

OnStream == Waits /\ cl.re = "no" /\ IsCommand

\* The next event of the stream; a replay that is cut short ends before it.
TakesEvent ==
    LET k == pos[Me] + 1 IN
    /\ OnStream
    /\ Behind > 0 /\ ~ (cl.cut /\ cl.left = 0)
    /\ cl' = Counts(Learns(cl, k))
    /\ Show(Me, Event(k))
    /\ UNCHANGED <<log, hubVars, sub, connVars, webVars, countVars, how, daemonVars, rpc, ahead, at,
                   exit, snapshot, candidate, results, acts>>

\* A replay that was cut short, or the failure of the hub, ends the subscription with a marker,
MarkerDue == hub = "failed" \/ (cl.cut /\ cl.left = 0)

\* and so do events that come too fast.
TakesMarker ==
    /\ OnStream
    /\ \/ MarkerDue /\ UNCHANGED losses
       \/ Behind > 0 /\ OneFault /\ losses < Losses /\ losses' = losses + 1
    /\ cl' = [cl EXCEPT !.re = "closing", !.replaying = TRUE]
    /\ UNCHANGED <<log, hubVars, sub, connVars, webVars, clientVars, stops, front, how, daemonVars,
                   rpc, ahead, at, exit, snapshot, candidate, results, acts>>

\* The connection ends, and no marker said why; some of the last events may be lost.
Disconnected == OnStream /\ conn[Me] = "eof" /\ End("one")

-------------------------------------------------------------------------------
(* The loop: what the queue holds besides envelopes *)

Takes(kind) == Waits /\ results # <<>> /\ Head(results).kind = kind

Ok   == Head(results).outcome = "ok"
Rest == Tail(results)

Goes(known) == cl' = known /\ results' = Rest /\ UNCHANGED rpc

LoopOnly == UNCHANGED <<vars, how, daemonVars, ahead, at, exit, snapshot, acts>>

TakesSubmitted ==
    LET known == [cl EXCEPT !.submitting = FALSE, !.active = TRUE] IN
    /\ Takes("submit")
    /\ \/ ~ Ok /\ End("one")
       \/ /\ Ok
          /\ IF cl.cancelling THEN RequestsCancel(known, Rest) ELSE Goes(known)
          /\ UNCHANGED candidate /\ LoopOnly

TakesSnapshot ==
    /\ Takes("snapshot")
    /\ \/ ~ Ok /\ cl.re = "no" /\ End("one")
       \/ /\ Ok \/ cl.re # "no"
          /\ Goes([cl EXCEPT !.polling = FALSE])
          /\ candidate' = IF Ok THEN snapshot ELSE candidate
          /\ snapshot' = NoSnapshot
          /\ UNCHANGED <<vars, how, daemonVars, ahead, at, exit, acts>>

\* The end of a cancellation ends a one-shot command, confirmed or not.
TakesCancelled ==
    /\ Takes("cancel")
    /\ \/ Head(results).outcome = "broken" /\ End("one")
       \/ /\ Head(results).outcome # "broken" /\ OneShot
          /\ End(IF cl.unattended THEN "one" ELSE "interrupted")
       \/ /\ Head(results).outcome # "broken" /\ ~ OneShot
          /\ Goes(cl) /\ UNCHANGED candidate /\ LoopOnly

TakesApproved ==
    /\ Takes("approve")
    /\ \/ ~ Ok /\ End("one")
       \/ Ok /\ Goes(cl) /\ UNCHANGED candidate /\ LoopOnly

TakesInterrupt ==
    /\ Takes("interrupt")
    /\ \/ ~ cl.active /\ ~ cl.submitting /\ End("interrupted")
       \/ /\ cl.active \/ cl.submitting
          /\ IF cl.cancelling THEN Goes(cl) ELSE RequestsCancel(cl, Rest)
          /\ UNCHANGED candidate /\ LoopOnly

TakesEof ==
    /\ Takes("eof")
    /\ \/ ~ OneShot /\ End("zero")
       \/ /\ OneShot
          /\ IF cl.cancelling THEN Goes(cl)
             ELSE RequestsCancel([cl EXCEPT !.unattended = TRUE], Rest)
          /\ UNCHANGED candidate /\ LoopOnly

\* A line counts for the prompt it was typed at; a chat submits it when it is idle.
TakesLine ==
    LET forPrompt == Head(results).outcome = "shown"
        submits   == ~ forPrompt /\ ~ cl.active /\ ~ cl.submitting /\ ~ cl.replaying /\ ~ OneShot
    IN
    /\ Takes("line")
    /\ IF forPrompt # cl.shown THEN Goes(cl)
       ELSE IF cl.shown
       THEN /\ cl' = [cl EXCEPT !.prompt = FALSE, !.shown = FALSE]
            /\ Sends("approve", Rest)
       ELSE IF submits /\ run.status = "none"
       THEN /\ cl' = [cl EXCEPT !.submitting = TRUE, !.cancelling = FALSE]
            /\ Sends("submit", Rest)
       ELSE Goes(cl)
    /\ UNCHANGED candidate /\ LoopOnly

TakesReconnected ==
    /\ Takes("reconnect")
    /\ \/ ~ Ok /\ End("one")
       \/ Ok /\ Goes([cl EXCEPT !.re = "no"]) /\ UNCHANGED candidate /\ LoopOnly

-------------------------------------------------------------------------------
(* The reconnection after an overflow marker *)

InFlight == {k \in Commands : rpc[k] # "idle"}

\* The old connection is closed, and with it fails what was asked on it.
ClosesOld ==
    /\ cl.re = "closing"
    /\ Leave(Me)
    /\ \E s \in SetToSeqs(InFlight) :
          results' = results \o [i \in 1..Len(s) |-> Result(s[i], "lost")]
    /\ rpc' = Idle /\ ahead' = 0
    /\ cl' = [cl EXCEPT !.re = "opening"]
    /\ UNCHANGED <<log, hubVars, lastCursor, clientVars, countVars, how, daemonVars, at, exit,
                   snapshot, candidate, acts>>

\* A hub that has failed refuses the subscription.
Reopens ==
    /\ cl.re = "opening"
    /\ \/ hub = "up" /\ Connect(Me) /\ cl' = [Counted(cl) EXCEPT !.re = "answering"] /\ UNCHANGED results
       \/ /\ hub # "up"
          /\ cl' = [cl EXCEPT !.re = "over"]
          /\ results' = Append(results, Result("reconnect", "broken"))
          /\ UNCHANGED vars
    /\ UNCHANGED <<how, daemonVars, rpc, ahead, at, exit, snapshot, candidate, acts>>

Reconnected ==
    /\ cl.re = "answering"
    /\ results' = Append(results, Result("reconnect", IF conn[Me] = "eof" THEN "broken" ELSE "ok"))
    /\ cl' = [cl EXCEPT !.re = "over"]
    /\ UNCHANGED <<vars, how, daemonVars, rpc, ahead, at, exit, snapshot, candidate, acts>>

-------------------------------------------------------------------------------
(* The user *)

Reads == at = "loop" /\ (how.interactive \/ ~ OneShot) /\ "eof" \notin acts

\* An interrupt, the end of the input, or a line with the prompt it was typed at.
UserActs(act) ==
    /\ IsCommand /\ at # "ended"
    /\ act \notin acts /\ Cardinality(acts) < MaxActs
    /\ act = "interrupt" \/ Reads
    /\ acts' = acts \cup {act}
    /\ results' = Append(results, IF act \in {"interrupt", "eof"} THEN Result(act, "ok")
                                  ELSE Result("line", IF cl.shown THEN "shown" ELSE "plain"))
    /\ UNCHANGED <<vars, how, daemonVars, rpc, ahead, at, exit, cl, snapshot, candidate>>

-------------------------------------------------------------------------------
(* The specification *)

StreamStep ==
    /\ (OneFault /\ WorkerFails) \/ (cl.re \in {"closing", "opening"} /\ HubStarts)
    /\ UNCHANGED <<how, daemonVars, commandVars>>

RunStep ==
    \/ AskEnds
    \/ RunEnds("succeeded", TRUE) \/ RunEnds("succeeded", FALSE) \/ RunEnds("failed", FALSE)

CommandHandled == Submitted \/ Cancelled \/ Approved \/ RunRead \/ SessionRead

Loop ==
    \/ TakesSubmitted \/ TakesSnapshot \/ TakesCancelled \/ TakesApproved
    \/ TakesInterrupt \/ TakesEof \/ TakesLine \/ TakesReconnected

Connects == Starts \/ Enters \/ CannotStart \/ ClosesOld \/ Reopens \/ Reconnected

\* The terminal UI and the browser: EventDelivery.
OtherFronts ==
    /\ ~ IsCommand
    /\ Next
    /\ UNCHANGED <<how, daemonVars, commandVars>>

(***************************************************************************)
(* What the loop does with the item it took is one step: nothing comes in  *)
(* between until there is nothing to report and no prompt to show.         *)
(***************************************************************************)
ClientActs ==
    /\ IsCommand
    /\ \/ Finish \/ ShowPrompt
       \/ Connects \/ Loop \/ Polls \/ TakesEvent \/ (MarkerDue /\ TakesMarker) \/ Disconnected

DaemonActs ==
    /\ ~ CanFinish /\ ~ MustShow
    /\ OwedCommitted \/ RunStep \/ CommandHandled

\* What happens, but does not have to.
Happens ==
    /\ IsCommand /\ at # "ended" /\ ~ CanFinish /\ ~ MustShow
    /\ \/ StreamStep \/ DaemonEnds \/ Asks \/ TakesMarker
       \/ \E act \in {"interrupt", "eof", "line"} : UserActs(act)

CommandNext == OtherFronts \/ ClientActs \/ (at # "ended" /\ DaemonActs) \/ Happens

CommandSpec == CommandInit /\ [][CommandNext]_allVars

(***************************************************************************)
(* Both event loops run what is ready; an agent and a request for approval *)
(* end, for both have limits; the hub stores what it has accepted.  Nobody *)
(* has to type, to interrupt or to restart a daemon.                       *)
(***************************************************************************)
CommandFairness ==
    /\ Fairness
    /\ WF_allVars(ClientActs)
    /\ WF_allVars(at # "ended" /\ DaemonActs)

FairCommandSpec == CommandSpec /\ CommandFairness

-------------------------------------------------------------------------------
(* Properties *)

Kept == [status : Terminal \cup {"none", "running"}, text : BOOLEAN, cursor : 0..MaxLog]

\* The types of the variables.
CommandTypeOK ==
    /\ run \in [status : Terminal \cup {"none", "running"}, text : BOOLEAN]
    /\ ask \in {"none", "open", "over"}
    /\ owed \in Seq(RunKinds) /\ published \subseteq RunKinds
    /\ rpc \in [Commands -> {"idle", "sent", "flush"}] /\ ahead \in 0..Len(owed)
    /\ at \in {"start", "answer", "loop", "ended"}
    /\ exit \in {"none", "zero", "one", "interrupted"}
    /\ cl.re \in {"no", "closing", "opening", "answering", "over"}
    /\ cl.left \in 0..ReplayLimit
    /\ snapshot \in Kept /\ candidate \in Kept

(***************************************************************************)
(* A one-shot command exits with 0 only when its run succeeded with a text *)
(* and it has seen every stored event the run caused, none of them a       *)
(* failed tool; no failed tool was published and lost before it was stored *)
(* either, unless a daemon was stopped (its event queue may go with it);   *)
(* and with 130 only when the user interrupted it or the run was           *)
(* cancelled.                                                              *)
(***************************************************************************)
ExitsAreEarned ==
    /\ CommandTypeOK
    /\ OneShot /\ exit = "zero" =>
          /\ run.status = "succeeded" /\ run.text
          /\ \A k \in 1..Len(log) : log[k] # Failure /\ (log[k] \in Scope => k \in ToSet(seen[Me]))
          /\ Failure \in published => stops > 0
    /\ exit = "interrupted" => "interrupt" \in acts \/ run.status = "cancelled"

Busy == cl.active \/ cl.submitting

(***************************************************************************)
(* A one-shot command ends and a chat gives its prompt back, whatever      *)
(* happens to the connection, the stream, the daemon and the request.      *)
(***************************************************************************)
CommandsEnd ==
    IsCommand /\ (OneShot \/ Busy) ~> IF OneShot THEN at = "ended" ELSE ~ Busy

\* Terminals catch up, and commands end.
ClientsGetOn == TerminalsCatchUp /\ CommandsEnd
=============================================================================
