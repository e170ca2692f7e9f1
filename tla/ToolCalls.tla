------------------------------ MODULE ToolCalls ------------------------------
(***************************************************************************)
(* A tool call from the request of the model to its result: invoke_tool,   *)
(* PermissionManager, RuntimeRouter and HostRuntime.  A call is checked    *)
(* against the policy and the decisions of its session, may wait for a     *)
(* person, runs in the sandbox, in the core process or, after a second     *)
(* approval, on the host, and may be tried again.                          *)
(*                                                                         *)
(* Each call belongs to a run of its own, all runs to one session: a run   *)
(* makes its calls one after the other, runs and their sub-agents make     *)
(* them concurrently.  Calls of the same kind are calls of one tool with   *)
(* the same parameters.                                                    *)
(*                                                                         *)
(* Two calls to the loop are apart whenever the code awaits: the timer of  *)
(* an approval, or a cancellation, reaches a task some time before the     *)
(* task resumes, and until then the request is still registered.           *)
(***************************************************************************)
EXTENDS Naturals, Sequences

CONSTANTS
    Calls,
    Kinds,          \* [profile : Profiles, verdict : Verdicts]
    MaxAttempts,    \* _MAX_RETRIES + 1
    HostFallback    \* allow_host_fallback

Profiles == {"workspace_sandbox", "in_process"}

(***************************************************************************)
(* What the static policy says of a call: deny (a path outside the         *)
(* workspace, a deny pattern, a persistent deny, a default deny), forced   *)
(* (a command that seems to leave the workspace: ask, whatever the session *)
(* decided), allow, or ask.                                                *)
(***************************************************************************)
Verdicts == {"deny", "forced", "allow", "ask"}

ASSUME ToolCallsAssumption ==
    /\ Kinds \subseteq [profile : Profiles, verdict : Verdicts] /\ Kinds # {}
    /\ MaxAttempts \in Nat \ {0}
    /\ HostFallback \in BOOLEAN

ToolDecisions == {"allow_once", "allow_session", "deny_once", "deny_session"}
HostDecisions == {"allow_host_once", "deny_once"}

Requests == Calls \X {"tool", "host"}
AllowedDecisions(q) == IF q[2] = "tool" THEN ToolDecisions ELSE HostDecisions

VARIABLES
    made,       \* the calls that are made at all; never changes
    watched,    \* a terminal follows the session; never changes
    kind,       \* the kind of a call; never changes
    pc,         \* where invoke_tool is
    asking,     \* "tool" or "host": the request a call makes last
    attempt,
    pending,    \* PermissionManager._pending
    future,     \* open, lost (cancelled with its task) or the decision
    session,    \* PermissionManager._session_decisions
    unread,     \* durable events about approvals and runs the terminal has yet to read
    acked,      \* history: decisions acknowledged to a client
    starts      \* history: executions started, by place

approvalVars == <<pending, future, acked>>
callVars == <<made, watched, kind, pc, asking, attempt, session, starts>>
serverVars == <<callVars, approvalVars, unread>>

Places == {"sandbox", "core", "host"}

ServerInit ==
    /\ kind \in [Calls -> Kinds]
    /\ \A c \in Calls \ made : kind[c] = CHOOSE k \in Kinds : TRUE
    /\ pc = [c \in Calls |-> IF c \in made THEN "ready" ELSE "announced"]
    /\ asking = [c \in Calls |-> "tool"]
    /\ attempt = [c \in Calls |-> 1]
    /\ pending = {}
    /\ future = [q \in Requests |-> "open"]
    /\ session = [k \in Kinds |-> "none"]
    /\ unread = <<>>
    /\ acked = [q \in Requests |-> "none"]
    /\ starts = [c \in Calls |-> [p \in Places |-> 0]]

-------------------------------------------------------------------------------
(* Events a client of the session sees *)

Event(type, c) == [type |-> type, call |-> c, request |-> asking[c]]

Publish(event) == unread' = IF watched THEN Append(unread, event) ELSE unread

-------------------------------------------------------------------------------
(* PermissionManager.check_and_wait *)

Goto(c, label) == pc' = [pc EXCEPT ![c] = label]

\* _fail: the error is the result of the call.
Failed(c) == Goto(c, "returned")

\* PermissionManager._request registers the request before it is announced.
Ask(c, what) ==
    /\ Goto(c, "emitting")
    /\ asking' = [asking EXCEPT ![c] = what]
    /\ pending' = pending \union {<<c, what>>}
    /\ UNCHANGED <<future, acked>>

\* What the session decided answers for a call, unless asking is forced.
Decided(c) == IF kind[c].verdict = "forced" THEN "none" ELSE session[kind[c]]

Check(c) ==
    /\ pc[c] = "ready"
    /\ LET verdict == kind[c].verdict
           mayRun  == verdict = "allow" \/ Decided(c) = "allow"
           denied  == verdict = "deny" \/ Decided(c) = "deny"
       IN \/ mayRun /\ Goto(c, "attempt") /\ UNCHANGED <<asking, approvalVars>>
          \/ denied /\ Failed(c) /\ UNCHANGED <<asking, approvalVars>>
          \/ ~ mayRun /\ ~ denied /\ Ask(c, "tool")
    /\ UNCHANGED <<made, watched, kind, attempt, session, unread, starts>>

Emitted(c) ==
    /\ pc[c] = "emitting"
    /\ Publish(Event("requested", c))
    /\ Goto(c, "waiting")
    /\ UNCHANGED <<made, watched, kind, asking, attempt, session, approvalVars, starts>>

\* PermissionManager.respond: who wrote the answer is told whether it was taken.
Taken(q, d) == q \in pending /\ d \in AllowedDecisions(q)

Respond(q, d) ==
    /\ Taken(q, d)
    /\ pending' = pending \ {q}
    /\ future' = [future EXCEPT ![q] = IF @ = "open" THEN d ELSE @]
    /\ acked' = [acked EXCEPT ![q] = d]
    /\ UNCHANGED <<callVars, unread>>

\* The timer of 60 s cancels the wait, and with it an answer the task has yet to see.
TimerFires(c) ==
    /\ pc[c] = "waiting"
    /\ Goto(c, "expired")
    /\ future' = [future EXCEPT ![<<c, asking[c]>>] = "lost"]
    /\ UNCHANGED <<made, watched, kind, asking, attempt, session, pending, acked, unread, starts>>

\* The request is taken off the table, with its future.
Forgotten(c) ==
    /\ future' = [future EXCEPT ![<<c, asking[c]>>] = "open"]
    /\ UNCHANGED acked

Closed(c) ==
    /\ pending' = pending \ {<<c, asking[c]>>}
    /\ Forgotten(c)
    /\ Publish(Event("resolved", c))

Expired(c) ==
    /\ pc[c] = "expired"
    /\ Closed(c)
    /\ Failed(c)
    /\ UNCHANGED <<made, watched, kind, asking, attempt, session, starts>>

\* What the decision about one call says of the later ones.
Remembered(d) ==
    CASE d = "allow_session" -> "allow"
      [] d = "deny_session"  -> "deny"
      [] OTHER               -> "none"

Grants(d) == d \in {"allow_once", "allow_session", "allow_host_once"}

Answered(c) ==
    LET d == future[<<c, asking[c]>>]
    IN /\ pc[c] = "waiting" /\ d # "open"
       /\ Closed(c)
       /\ session' = IF asking[c] = "tool" /\ Remembered(d) # "none"
                     THEN [session EXCEPT ![kind[c]] = Remembered(d)] ELSE session
       /\ Goto(c, IF ~ Grants(d) THEN "returned"
                  ELSE IF asking[c] = "tool" THEN "attempt" ELSE "host")
       /\ UNCHANGED <<made, watched, kind, asking, attempt, starts>>

-------------------------------------------------------------------------------
(* An attempt *)

Start(c, place) ==
    /\ starts' = [starts EXCEPT ![c][place] = @ + 1]
    /\ Goto(c, "running")

RunInCore(c) ==
    /\ pc[c] = "attempt" /\ kind[c].profile = "in_process"
    /\ Start(c, "core")
    /\ UNCHANGED <<made, watched, kind, asking, attempt, session, approvalVars, unread>>

RunInSandbox(c) ==
    /\ pc[c] = "attempt" /\ kind[c].profile = "workspace_sandbox"
    /\ Start(c, "sandbox")
    /\ UNCHANGED <<made, watched, kind, asking, attempt, session, approvalVars, unread>>

\* Defect: the host may also be offered when the sandbox failed after it had started.
OffersHostAfterStart(c) == HostFallback

\* RuntimeRouter.execute: only a sandbox that never started the call is replaced.
OffersHost(c) == HostFallback /\ pc[c] = "attempt"

\* The sandbox ends with an error, before or after it started the tool.
SandboxFails(c) ==
    /\ kind[c].profile = "workspace_sandbox"
    /\ pc[c] = "attempt" \/ (pc[c] = "running" /\ starts[c]["host"] = 0)
    /\ \/ OffersHost(c) /\ Ask(c, "host")
       \/ Failed(c) /\ UNCHANGED <<asking, approvalVars>>
    /\ UNCHANGED <<made, watched, kind, attempt, session, unread, starts>>

RunOnHost(c) ==
    /\ pc[c] = "host"
    /\ Start(c, "host")
    /\ UNCHANGED <<made, watched, kind, asking, attempt, session, approvalVars, unread>>

Returns(c) ==
    /\ pc[c] = "running"
    /\ Goto(c, "returned")
    /\ UNCHANGED <<made, watched, kind, asking, attempt, session, approvalVars, unread, starts>>

\* No tool of a workspace reports an error as retryable.
MayRetry(c) == attempt[c] < MaxAttempts /\ kind[c].profile = "in_process"

FailsForNow(c) ==
    /\ pc[c] = "running" /\ MayRetry(c)
    /\ attempt' = [attempt EXCEPT ![c] = @ + 1]
    /\ Goto(c, "pause")
    /\ UNCHANGED <<made, watched, kind, asking, session, approvalVars, unread, starts>>

PauseEnds(c) ==
    /\ pc[c] = "pause"
    /\ Goto(c, "attempt")
    /\ UNCHANGED <<made, watched, kind, asking, attempt, session, approvalVars, unread, starts>>

\* A wait for the host is part of the attempt, whose own timer may fire first.
Waits(c) == pc[c] \in {"emitting", "waiting"}

(***************************************************************************)
(* The run is cancelled, or the 120 s of an attempt are over: the task is  *)
(* told, loses an answer it has not seen, and unwinds later.  A request it *)
(* was about to announce may be out already.                               *)
(***************************************************************************)
Interrupt(c) ==
    /\ pc[c] \notin {"expired", "interrupted", "returned", "settled", "announced"}
    /\ Goto(c, "interrupted")
    /\ future' = IF Waits(c) THEN [future EXCEPT ![<<c, asking[c]>>] = "lost"] ELSE future
    /\ \/ pc[c] = "emitting" /\ Publish(Event("requested", c))
       \/ UNCHANGED unread
    /\ UNCHANGED <<made, watched, kind, asking, attempt, session, pending, acked, starts>>

\* Defect: a cancelled call leaves its request registered.
LeavesRegistered(c) == pending

\* The finally clause of _request: nobody can answer a call that is gone.
Abandoned(c) == pending \ {<<c, asking[c]>>}

\* Nothing is announced: clients learn it from the end of the run.
Unwinds(c) ==
    /\ pc[c] = "interrupted"
    /\ pending' = Abandoned(c)
    /\ Forgotten(c)
    /\ Goto(c, "returned")
    /\ UNCHANGED <<made, watched, kind, asking, attempt, session, unread, starts>>

\* The run of the call is settled, then announced (RunLifecycle).
RunSettles(c) ==
    /\ pc[c] = "returned"
    /\ Goto(c, "settled")
    /\ UNCHANGED <<made, watched, kind, asking, attempt, session, approvalVars, unread, starts>>

RunAnnounced(c) ==
    /\ pc[c] = "settled"
    /\ Goto(c, "announced")
    /\ Publish(Event("finished", c))
    /\ UNCHANGED <<made, watched, kind, asking, attempt, session, approvalVars, starts>>

CallStep(c) ==
    \/ Check(c) \/ Emitted(c) \/ Expired(c) \/ Answered(c)
    \/ RunInCore(c) \/ RunInSandbox(c) \/ SandboxFails(c) \/ RunOnHost(c)
    \/ Returns(c) \/ PauseEnds(c) \/ Unwinds(c) \/ RunSettles(c) \/ RunAnnounced(c)

ServerStep(c) == CallStep(c) \/ TimerFires(c) \/ FailsForNow(c) \/ Interrupt(c)

-------------------------------------------------------------------------------
(* Properties *)

Labels ==
    {"ready", "emitting", "waiting", "expired", "interrupted", "attempt", "running",
     "host", "pause", "returned", "settled", "announced"}

ServerTypeOK ==
    /\ watched \in BOOLEAN
    /\ made \subseteq Calls
    /\ kind \in [Calls -> Kinds]
    /\ pc \in [Calls -> Labels]
    /\ asking \in [Calls -> {"tool", "host"}]
    /\ attempt \in [Calls -> 1..MaxAttempts]
    /\ pending \subseteq Requests
    /\ future \in [Requests -> {"open", "lost"} \union ToolDecisions \union HostDecisions]
    /\ session \in [Kinds -> {"none", "allow", "deny"}]
    /\ acked \in [Requests -> {"none"} \union ToolDecisions \union HostDecisions]
    /\ starts \in [Calls -> [Places -> 0..MaxAttempts]]

Started(c) == \E p \in Places : starts[c][p] > 0

\* A person, or the policy, let the call run: itself or all calls of its kind.
Granted(c) ==
    \/ kind[c].verdict = "allow"
    \/ acked[<<c, "tool">>] \in {"allow_once", "allow_session"}
    \/ /\ kind[c].verdict = "ask"
       /\ \E b \in Calls : kind[b] = kind[c] /\ acked[<<b, "tool">>] = "allow_session"

(***************************************************************************)
(* Whatever answers, timers and cancellations cross each other: nothing    *)
(* runs that a person or the policy did not let run, nothing runs on the   *)
(* host without an approval of this call for the host, and a refusal that  *)
(* was acknowledged is never followed by an execution.                     *)
(***************************************************************************)
OnlyGrantedCallsRun ==
    \A c \in Calls :
        /\ Started(c) => Granted(c)
        /\ acked[<<c, "tool">>] \in {"deny_once", "deny_session"} => ~ Started(c)
        /\ starts[c]["host"] > 0 => acked[<<c, "host">>] = "allow_host_once"

(***************************************************************************)
(* A tool that changes the workspace is executed at most once per call: a  *)
(* retry or the fallback to the host never repeats what the sandbox began. *)
(***************************************************************************)
WorkspaceToolsRunOnce ==
    \A c \in Calls : kind[c].profile = "workspace_sandbox" =>
        starts[c]["sandbox"] + starts[c]["host"] <= 1

\* Calls are executed as granted, and no more often.
CallsRunAsGranted == OnlyGrantedCallsRun /\ WorkspaceToolsRunOnce

(***************************************************************************)
(* A request that is registered has a call that will still take it off the *)
(* table: no answer is acknowledged on behalf of a call that is gone.      *)
(***************************************************************************)
RequestsHaveTheirCall ==
    \A q \in pending : /\ asking[q[1]] = q[2]
                       /\ pc[q[1]] \in {"emitting", "waiting", "expired", "interrupted"}
==============================================================================
