------------------------------ MODULE Approvals ------------------------------
(***************************************************************************)
(* The approval prompts of the terminal, composed with the tool calls they *)
(* are about.  The terminal shows a prompt for each permission.requested   *)
(* event, takes it away when an event or the answer of the core says so,   *)
(* and after a lost connection makes prompts usable again only when it has *)
(* caught up with the stream and asked for the state of their runs.        *)
(*                                                                         *)
(* The stream brings every event once and in order, also across lost       *)
(* connections: EventDelivery shows it.  A truncated replay ends in one    *)
(* more lost connection.  Requests and answers on a connection are lost    *)
(* with it, but the core may still serve what it had received.             *)
(***************************************************************************)
EXTENDS ToolCalls

CONSTANTS
    Root,       \* the call whose run the terminal waits for; the others are sub-agents
    Scenes,     \* which calls are made, and whether a terminal watches
    Drops       \* bound on lost connections

ASSUME ApprovalsAssumption ==
    /\ Root \in Calls /\ Drops \in Nat
    /\ Scenes \subseteq [calls : SUBSET Calls, terminal : BOOLEAN] /\ Scenes # {}

VARIABLES
    link,       \* absent (no terminal), down, attaching, attached (session resumed), or live (subscribed)
    shown,      \* _pending_permission_blocks
    usable,     \* prompts that are mounted and not suspended
    resolved,   \* _resolved_permission_ids
    replaying,  \* _permission_replaying
    missing,    \* events of the replay not yet received (expected - received)
    checking,   \* runs _finish_permission_replay has yet to ask for
    checks,     \* that task is under way
    busy,       \* _busy
    wire,       \* permission.respond calls the core has not served
    reply,      \* their answers, not yet received
    drops

promptVars == <<shown, usable, resolved>>
replayVars == <<replaying, missing, checking, checks>>
rpcVars == <<wire, reply>>
terminalVars == <<link, promptVars, replayVars, busy, rpcVars, drops>>
vars == <<serverVars, terminalVars>>

NotAnswered == [q \in Requests |-> "none"]

Init ==
    /\ \E scene \in Scenes :
          /\ made = scene.calls
          /\ watched = scene.terminal
          /\ link = IF scene.terminal THEN "live" ELSE "absent"
    /\ ServerInit
    /\ shown = {} /\ usable = {} /\ resolved = {}
    /\ replaying = FALSE /\ missing = 0 /\ checking = {} /\ checks = FALSE
    /\ busy = TRUE
    /\ wire = {} /\ reply = NotAnswered
    /\ drops = 0

PromptsOf(c) == {q \in shown : q[1] = c}

-------------------------------------------------------------------------------
(* Prompts *)

\* _resolve_permission
Resolve(gone) ==
    /\ shown' = shown \ gone
    /\ usable' = usable \ gone
    /\ resolved' = resolved \union gone

\* A prompt that arrives during a replay is shown but suspended.
ShowPrompt(q) ==
    IF q \in resolved \/ q \in shown
    THEN UNCHANGED promptVars
    ELSE /\ shown' = shown \union {q}
         /\ usable' = IF replaying THEN usable ELSE usable \union {q}
         /\ UNCHANGED resolved

\* Defect: the end of a run leaves its prompts to the events about them.
ClearsNothing(c) == {}

\* _clear_run_permissions
ClearedByEnd(c) == PromptsOf(c)

\* _handle_event_inner
Deliver ==
    /\ link = "live" /\ unread # <<>>
    /\ unread' = Tail(unread)
    /\ missing' = IF missing = 0 THEN 0 ELSE missing - 1
    /\ LET event == Head(unread)
           q     == <<event.call, event.request>>
       IN CASE event.type = "requested" -> ShowPrompt(q) /\ UNCHANGED busy
            [] event.type = "resolved"  -> Resolve({q}) /\ UNCHANGED busy
            [] event.type = "finished"  ->
                 /\ Resolve(ClearedByEnd(event.call))
                 /\ busy' = (busy /\ event.call # Root)
    /\ UNCHANGED <<callVars, approvalVars, link, replaying, checking, checks, rpcVars, drops>>

\* What a key can choose in the prompt
Choices(q) == AllowedDecisions(q)

\* on_permission_select_decided
Decide(q, d) ==
    /\ link = "live" /\ ~ replaying
    /\ q \in usable /\ d \in Choices(q)
    /\ usable' = usable \ {q}
    /\ wire' = wire \union {<<q, d, drops>>}
    /\ UNCHANGED <<serverVars, link, shown, resolved, replayVars, busy, reply, drops>>

\* _permission_respond_handler; what it answers to a lost connection is lost.
Served(q, d, connection) ==
    /\ <<q, d, connection>> \in wire
    /\ wire' = wire \ {<<q, d, connection>>}
    /\ IF Taken(q, d) THEN Respond(q, d) ELSE UNCHANGED serverVars
    /\ reply' = IF link = "live" /\ connection = drops
                THEN [reply EXCEPT ![q] = "received"] ELSE reply
    /\ UNCHANGED <<link, promptVars, replayVars, busy, drops>>

\* Accepted or expired, the prompt has done its work.
Received(q) ==
    /\ link = "live" /\ reply[q] # "none"
    /\ reply' = [reply EXCEPT ![q] = "none"]
    /\ Resolve({q})
    /\ UNCHANGED <<serverVars, link, replayVars, busy, wire, drops>>

\* Another client of the session answers.
OtherAnswers(q, d) ==
    /\ pc[q[1]] # "emitting"
    /\ Respond(q, d)
    /\ UNCHANGED <<link, promptVars, replayVars, busy, rpcVars, drops>>

-------------------------------------------------------------------------------
(* The connection *)

\* The finally clause of _socket_loop; a call on its way may still be served.
Drop ==
    /\ link \notin {"absent", "down"} /\ drops < Drops
    /\ link' = "down" /\ drops' = drops + 1
    /\ usable' = {}
    /\ checking' = {} /\ checks' = FALSE
    /\ reply' = NotAnswered
    /\ wire' \in SUBSET wire
    /\ UNCHANGED <<serverVars, shown, resolved, replaying, missing, busy>>

\* _begin_permission_replay
Connect ==
    /\ link = "down"
    /\ link' = "attaching"
    /\ replaying' = TRUE /\ usable' = {}
    /\ UNCHANGED <<serverVars, shown, resolved, missing, checking, checks, busy,
                   rpcVars, drops>>

\* session.resume reports the active run.
Attach ==
    /\ link = "attaching"
    /\ link' = "attached"
    /\ busy' = (pc[Root] \notin {"settled", "announced"})
    /\ UNCHANGED <<serverVars, promptVars, replayVars, rpcVars, drops>>

\* event.subscribe fixes how far the replay reaches.
Subscribe ==
    /\ link = "attached"
    /\ link' = "live"
    /\ missing' = Len(unread)
    /\ UNCHANGED <<serverVars, promptVars, replaying, checking, checks, busy, rpcVars,
                   drops>>

\* received >= expected
CaughtUp == missing = 0

\* _maybe_finish_permission_replay
StartChecks ==
    /\ link = "live" /\ replaying /\ ~ checks
    /\ CaughtUp
    /\ checks' = TRUE
    /\ checking' = {q[1] : q \in shown}
    /\ UNCHANGED <<serverVars, link, promptVars, replaying, missing, busy, rpcVars,
                   drops>>

\* run.get: prompts of a run that is settled, or unknown, are taken away.
CheckRun(c) ==
    /\ checks /\ c \in checking
    /\ checking' = checking \ {c}
    /\ IF pc[c] \in {"settled", "announced"} THEN Resolve(PromptsOf(c)) ELSE UNCHANGED promptVars
    /\ UNCHANGED <<serverVars, link, replaying, missing, checks, busy, rpcVars, drops>>

\* _mount_permission_select for each prompt that is left.
MadeUsable == shown

EndChecks ==
    /\ checks /\ checking = {}
    /\ checks' = FALSE /\ replaying' = FALSE
    /\ usable' = MadeUsable
    /\ UNCHANGED <<serverVars, link, shown, resolved, missing, checking, busy, rpcVars,
                   drops>>

-------------------------------------------------------------------------------
(* Specification *)

CallMoves(c) == (CallStep(c) \/ TimerFires(c)) /\ UNCHANGED terminalVars
Reconnects == Connect \/ Attach \/ Subscribe
Replays == StartChecks \/ EndChecks \/ \E c \in Calls : CheckRun(c)
Decisions == ToolDecisions \union HostDecisions

Next ==
    \/ \E c \in Calls : ServerStep(c) /\ UNCHANGED terminalVars
    \/ \E q \in Requests, d \in Decisions :
          \/ Decide(q, d) \/ OtherAnswers(q, d)
          \/ \E connection \in 0..Drops : Served(q, d, connection)
    \/ \E q \in Requests : Received(q)
    \/ Deliver \/ Drop \/ Connect \/ Attach \/ Subscribe
    \/ StartChecks \/ EndChecks \/ \E c \in Calls : CheckRun(c)

Spec == Init /\ [][Next]_vars

(***************************************************************************)
(* Tools end and timers fire, the core serves what it received, and the    *)
(* terminal reconnects and reads.  Nobody has to answer a prompt.          *)
(***************************************************************************)
Fairness ==
    /\ \A c \in Calls : WF_vars(CallMoves(c))
    /\ \A q \in Requests, d \in Decisions, n \in 0..Drops : WF_vars(Served(q, d, n))
    /\ \A q \in Requests : WF_vars(Received(q))
    /\ WF_vars(Deliver) /\ WF_vars(Reconnects) /\ WF_vars(Replays)

FairSpec == Spec /\ Fairness

-------------------------------------------------------------------------------
(* Properties *)

TypeOK ==
    /\ ServerTypeOK
    /\ link \in {"absent", "down", "attaching", "attached", "live"}
    /\ missing \in 0..Len(unread)
    /\ shown \subseteq Requests /\ usable \subseteq shown /\ resolved \subseteq Requests
    /\ checking \subseteq Calls
    /\ \A b \in {replaying, checks, busy} : b \in BOOLEAN
    /\ wire \subseteq Requests \X Decisions \X (0..Drops)
    /\ reply \in [Requests -> {"none", "received"}]
    /\ drops \in 0..Drops

(***************************************************************************)
(* A request that still waits can be answered: once the terminal has read  *)
(* the stream and finished a replay, its prompt is usable, whichever       *)
(* connection the request, its answer and the answer's answer were lost    *)
(* with.                                                                   *)
(***************************************************************************)
WaitingRequestsCanBeAnswered ==
    link = "live" /\ ~ replaying /\ unread = <<>> =>
        \A q \in pending : pc[q[1]] = "waiting" =>
            q \in usable \/ reply[q] # "none" \/ \E d \in Decisions : <<q, d, drops>> \in wire

\* Between the core and the terminal no request is orphaned, on either side.
RequestsAreLive == TypeOK /\ RequestsHaveTheirCall /\ WaitingRequestsCanBeAnswered

(***************************************************************************)
(* Every call ends, whether or not somebody answers, and after it the      *)
(* terminal gives the input line back: no prompt of a call that timed out, *)
(* was answered elsewhere or was cancelled silently blocks it for ever.    *)
(***************************************************************************)
InputIsFree ==
    \/ link = "absent" /\ \A c \in Calls : pc[c] = "announced"
    \/ link = "live" /\ ~ replaying /\ ~ busy /\ shown = {}

InputComesBack == <>[]InputIsFree
==============================================================================
