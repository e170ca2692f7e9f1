----------------------------- MODULE RunLifecycle -----------------------------
(***************************************************************************)
(* RuntimeService and RunSupervisor: the life of sessions and main runs.   *)
(*                                                                         *)
(* The daemon is one asyncio event loop.  A step of this module is what    *)
(* happens between two awaits that another task can observe: a committed   *)
(* SQLite transaction, a call that changes the supervisor or the cleanup   *)
(* tables, the delivery of a cancellation, the publication of an event.    *)
(* Locks are not variables of their own where a program counter already    *)
(* says who is inside: LockFree reads the submission lock off the callers. *)
(*                                                                         *)
(* Durable state (SQLite) survives a crash, volatile state (the event      *)
(* loop's tasks and tables) does not, and sandbox resources belong to the  *)
(* container engine.  Messages, compaction and sub-agents are left out:    *)
(* the messages of a run are committed exactly when it succeeds.           *)
(***************************************************************************)
EXTENDS Naturals, FiniteSets

CONSTANTS
    Sessions,       \* session identifiers
    Runs,           \* run identifiers (bound: how many runs a behaviour has)
    Callers,        \* concurrent client operations (bound)
    Keys,           \* client_message_id values
    Tools,          \* the tools a run may call
    SideEffecting,  \* those of them that may have side effects
    OneShot,        \* the sessions created in one_shot mode
    NoRun,          \* active_run_id = NULL
    NoSession,      \* the session of a run that does not exist
    NoKey,          \* client_message_id = NULL
    Stops,          \* bound on the ends of a daemon process, orderly or not
    Cancellable,    \* the runs a client may cancel by name (bound)
    Hasty           \* those it may cancel before their task is started (bound)

ASSUME ConstantsAssumption ==
    /\ OneShot \subseteq Sessions
    /\ SideEffecting \subseteq Tools
    /\ NoRun \notin Runs
    /\ NoSession \notin Sessions
    /\ NoKey \notin Keys
    /\ Stops \in Nat
    /\ Hasty \subseteq Cancellable
    /\ Cancellable \subseteq Runs

VARIABLES
    \* durable: tables sessions, turns, runs, tool_invocations
    sessStatus,   \* sessions.status
    active,       \* sessions.active_run_id
    status,       \* runs.status
    home,         \* runs.session_id
    turn,         \* runs.turn_id; a turn is named by its first run
    turnStatus,   \* turns.status, indexed by the first run
    key,          \* turns.client_message_id, copied to every run of the turn
    attempt,      \* runs.attempt
    retryOf,      \* runs.retry_of_run_id
    confirmed,    \* the confirm_side_effects flag of the retry (history)
    missed,       \* what a cancellation of the run missed (history): the "start" of its
                  \* task, which came after it, or the "end" of the run, because it gave up
                  \* or its process ended first
    begun,        \* runs.started_at is set
    effects,      \* runs.side_effects_started
    openTool,     \* the run has a queued or running tool_invocations row
    announced,    \* RunFinished events published for the run (history)
    \* the container engine
    held,         \* the run has a container whose removal is not confirmed
    \* volatile: the event loop of one daemon process
    phase,        \* where the daemon is between startup and shutdown
    call,         \* the client operations in progress
    task,         \* the supervised asyncio task of a run
    cancelReq,    \* RunSupervisor._cancelling and the delivery of the signal
    outcome,      \* the status the task is about to record
    cleanup,      \* the cancellation task of a run, RuntimeService._cancellations
    failedRoot,   \* RuntimeService._failed_cleanup_roots
    pendingRes,   \* RuntimeService._pending_resources
    term,         \* the holder of RuntimeService._terminal_lock, while announcing
    todo,         \* runs that shutdown or recovery has still to finalize
    stops         \* ends of a daemon process so far

sessionVars == <<sessStatus, active>>
originVars  == <<home, turn, key, attempt, retryOf, confirmed>>
pastVars    == <<originVars, missed>>
runVars     == <<status, turnStatus, begun>>
toolVars    == <<effects, openTool, held>>
taskVars    == <<task, cancelReq, outcome>>
cleanVars   == <<cleanup, failedRoot, pendingRes>>
daemonVars  == <<phase, todo, stops>>
eventVars   == <<announced, term>>
vars == <<sessionVars, pastVars, runVars, toolVars, taskVars, cleanVars,
          daemonVars, eventVars, call>>

-------------------------------------------------------------------------------
(* Types *)

Terminal   == {"succeeded", "failed", "cancelled", "interrupted"}
Unfinished == {"queued", "running"}
RunStatus  == {"absent"} \union Unfinished \union Terminal
SessStatus == {"absent", "ready", "running", "closed"}
Phases     == {"up", "stopping", "draining", "cancelling", "finalizing", "down",
               "dead", "recovering"}
TaskPc     == {"none", "new", "prep", "abort", "exec", "mark", "finish", "announce", "notify"}
CleanupPc  == {"none", "signal", "await", "check", "attempt", "finalize", "announce"}

Idle == [op |-> "none", pc |-> "idle", s |-> NoSession, k |-> NoKey, r |-> NoRun, ok |-> FALSE]
Call == [op : {"none", "submit", "retry", "close"},
         pc : {"idle", "wait", "start", "cancelling", "closing"},
         s  : Sessions \union {NoSession},
         k  : Keys \union {NoKey},
         r  : Runs \union {NoRun},
         ok : BOOLEAN]

Free   == [run |-> NoRun, by |-> "nobody"]
Holder == [run : Runs, by : {"task", "cleanup", "boot"}]

TypeOK ==
    /\ sessStatus \in [Sessions -> SessStatus]
    /\ active     \in [Sessions -> Runs \union {NoRun}]
    /\ status     \in [Runs -> RunStatus]
    /\ home       \in [Runs -> Sessions \union {NoSession}]
    /\ turn       \in [Runs -> Runs \union {NoRun}]
    /\ turnStatus \in [Runs -> RunStatus]
    /\ key        \in [Runs -> Keys \union {NoKey}]
    /\ attempt    \in [Runs -> Nat]
    /\ retryOf    \in [Runs -> Runs \union {NoRun}]
    /\ confirmed  \in [Runs -> BOOLEAN]
    /\ missed     \in [Runs -> {"nothing", "start", "end"}]
    /\ begun      \in [Runs -> BOOLEAN]
    /\ effects    \in [Runs -> BOOLEAN]
    /\ openTool   \in [Runs -> BOOLEAN]
    /\ announced  \in [Runs -> Nat]
    /\ held       \in [Runs -> BOOLEAN]
    /\ phase      \in Phases
    /\ call       \in [Callers -> Call]
    /\ task       \in [Runs -> TaskPc]
    /\ cancelReq  \in [Runs -> {"no", "sent", "taken"}]
    /\ outcome    \in [Runs -> Terminal \union {"none"}]
    /\ cleanup    \in [Runs -> CleanupPc]
    /\ failedRoot \subseteq Runs
    /\ pendingRes \subseteq Runs
    /\ term       \in Holder \union {Free}
    /\ todo       \subseteq Runs
    /\ stops      \in 0..Stops

-------------------------------------------------------------------------------
(* Reading the state *)

\* The asyncio.Lock of a session is held by the caller that is past the wait.
LockFree(s) == \A c \in Callers : call[c].s = s => call[c].pc \in {"idle", "wait"}

\* Defect: only the active run is searched for the key.
KeyKnownIfActive(s, k) == k # NoKey /\ active[s] # NoRun /\ key[active[s]] = k

KeyKnown(s, k) == k # NoKey /\ \E r \in Runs : home[r] = s /\ key[r] = k

\* Defect: only a closed session is refused.
CanAcceptWhenBusy(s) == sessStatus[s] \in {"ready", "running"}

CanAccept(s) == sessStatus[s] = "ready" /\ active[s] = NoRun

Attempts(t) == {r \in Runs : turn[r] = t}

\* get_run_for_turn: the run of the turn with the highest attempt.
IsLatest(r) == \A q \in Attempts(turn[r]) : attempt[q] <= attempt[r]

NextAttempt(original, latest) == attempt[latest] + 1

Owned(op) == op \in {"submit", "retry"}   \* RuntimeService._submissions

Init ==
    /\ sessStatus = [s \in Sessions |-> "absent"]
    /\ active     = [s \in Sessions |-> NoRun]
    /\ status     = [r \in Runs |-> "absent"]
    /\ home       = [r \in Runs |-> NoSession]
    /\ turn       = [r \in Runs |-> NoRun]
    /\ turnStatus = [r \in Runs |-> "absent"]
    /\ key        = [r \in Runs |-> NoKey]
    /\ attempt    = [r \in Runs |-> 0]
    /\ retryOf    = [r \in Runs |-> NoRun]
    /\ confirmed  = [r \in Runs |-> FALSE]
    /\ missed     = [r \in Runs |-> "nothing"]
    /\ begun      = [r \in Runs |-> FALSE]
    /\ effects    = [r \in Runs |-> FALSE]
    /\ openTool   = [r \in Runs |-> FALSE]
    /\ announced  = [r \in Runs |-> 0]
    /\ held       = [r \in Runs |-> FALSE]
    /\ phase      = "up"
    /\ call       = [c \in Callers |-> Idle]
    /\ task       = [r \in Runs |-> "none"]
    /\ cancelReq  = [r \in Runs |-> "no"]
    /\ outcome    = [r \in Runs |-> "none"]
    /\ cleanup    = [r \in Runs |-> "none"]
    /\ failedRoot = {}
    /\ pendingRes = {}
    /\ term       = Free
    /\ todo       = {}
    /\ stops   = 0

-------------------------------------------------------------------------------
(* Accepting work: create_session, submit_message, retry_run *)

CreateSession(s) ==
    /\ phase = "up"
    /\ sessStatus[s] = "absent"
    /\ sessStatus' = [sessStatus EXCEPT ![s] = "ready"]
    /\ UNCHANGED <<active, pastVars, runVars, toolVars, taskVars, cleanVars,
                   daemonVars, eventVars, call>>

(***************************************************************************)
(* The RPC handler checks _closed and creates an owned operation, which    *)
(* then waits for the submission lock of the session.                      *)
(***************************************************************************)
AcceptCall(c, request) ==
    /\ phase = "up"
    /\ call[c] = Idle
    /\ call' = [call EXCEPT ![c] = request]
    /\ UNCHANGED <<sessionVars, pastVars, runVars, toolVars, taskVars, cleanVars,
                   daemonVars, eventVars>>

AcceptSubmit(c, s, k) ==
    /\ sessStatus[s] # "absent"
    /\ AcceptCall(c, [Idle EXCEPT !.op = "submit", !.pc = "wait", !.s = s, !.k = k])

AcceptRetry(c, r, ok) ==
    /\ status[r] # "absent"
    /\ AcceptCall(c, [Idle EXCEPT !.op = "retry", !.pc = "wait", !.s = home[r],
                                  !.r = r, !.ok = ok])

AcceptClose(c, s) ==
    /\ sessStatus[s] # "absent"
    /\ AcceptCall(c, [Idle EXCEPT !.op = "close", !.pc = "wait", !.s = s])

Return(c) == call' = [call EXCEPT ![c] = Idle]

HasLock(c, op) ==
    /\ call[c].op = op
    /\ call[c].pc = "wait"
    /\ LockFree(call[c].s)

(***************************************************************************)
(* The transaction of a submission ends without a new run: the key is      *)
(* known (the existing run is returned), the session is closed or busy, or *)
(* the skill named by the message is refused.                              *)
(***************************************************************************)
SubmitAnswered(c) ==
    /\ HasLock(c, "submit")
    /\ Return(c)
    /\ UNCHANGED <<sessionVars, pastVars, runVars, toolVars, taskVars, cleanVars,
                   daemonVars, eventVars>>

(***************************************************************************)
(* One transaction adds the run and occupies the session.  The supervised  *)
(* task is created when the operation resumes after the commit, which      *)
(* other tasks of the loop may observe first: the operation stays at       *)
(* "start" in between.                                                     *)
(***************************************************************************)
AddRun(c, r, t, k, n, original) ==
    /\ status[r] = "absent"
    /\ status'     = [status EXCEPT ![r] = "queued"]
    /\ home'       = [home EXCEPT ![r] = call[c].s]
    /\ turn'       = [turn EXCEPT ![r] = t]
    /\ turnStatus' = [turnStatus EXCEPT ![t] = "queued"]
    /\ key'        = [key EXCEPT ![r] = k]
    /\ attempt'    = [attempt EXCEPT ![r] = n]
    /\ retryOf'    = [retryOf EXCEPT ![r] = original]
    /\ confirmed'  = [confirmed EXCEPT ![r] = call[c].ok]
    /\ sessStatus' = [sessStatus EXCEPT ![call[c].s] = "running"]
    /\ active'     = [active EXCEPT ![call[c].s] = r]
    /\ call'       = [call EXCEPT ![c].pc = "start", ![c].r = r]
    /\ UNCHANGED <<missed, begun, toolVars, taskVars, cleanVars, daemonVars, eventVars>>

SubmitCommit(c, r) ==
    /\ HasLock(c, "submit")
    /\ ~ KeyKnown(call[c].s, call[c].k)
    /\ CanAccept(call[c].s)
    /\ AddRun(c, r, r, call[c].k, 1, NoRun)

MayRetry(original, ok) ==
    /\ status[original] \in {"failed", "interrupted"}
    /\ effects[original] => ok

RetryAnswered(c) ==
    /\ HasLock(c, "retry")
    /\ \/ ~ (MayRetry(call[c].r, call[c].ok) /\ CanAccept(call[c].s))
       \/ \A r \in Runs : status[r] # "absent"    \* bound: no identifier is left
    /\ Return(c)
    /\ UNCHANGED <<sessionVars, pastVars, runVars, toolVars, taskVars, cleanVars,
                   daemonVars, eventVars>>

RetryCommit(c, r, latest) ==
    LET original == call[c].r IN
    /\ HasLock(c, "retry")
    /\ MayRetry(original, call[c].ok)
    /\ CanAccept(call[c].s)
    /\ turn[latest] = turn[original]
    /\ IsLatest(latest)
    /\ AddRun(c, r, turn[original], key[original], NextAttempt(original, latest), original)

\* _start_run; the supervisor is open whenever this happens (SupervisorIsOpen).
StartRun(c) ==
    /\ call[c].pc = "start"
    /\ task' = [task EXCEPT ![call[c].r] = "new"]
    /\ Return(c)
    /\ UNCHANGED <<sessionVars, pastVars, runVars, toolVars, cancelReq, outcome,
                   cleanVars, daemonVars, eventVars>>

-------------------------------------------------------------------------------
(* Settling a run: the transactions of _finish_run and                     *)
(* _finalize_without_outcome                                               *)

\* Outcome words of the runner and the run statuses they are stored as.
Outcomes == {"success", "failed", "cancelled"}

DbStatus(word) == IF word = "success" THEN "succeeded" ELSE word

StatusAfterRun(s) ==
    IF sessStatus[s] = "closed" \/ s \in OneShot THEN "closed" ELSE "ready"

FreeSlot(s) ==
    /\ active'     = [active EXCEPT ![s] = NoRun]
    /\ sessStatus' = [sessStatus EXCEPT ![s] = StatusAfterRun(s)]

\* The run row, its turn row, and the tool rows that never got a result.
Settle(r, st) ==
    /\ status'     = [status EXCEPT ![r] = st]
    /\ turnStatus' = [turnStatus EXCEPT ![turn[r]] = st]
    /\ openTool'   = [openTool EXCEPT ![r] = FALSE]
    /\ UNCHANGED <<pastVars, begun, effects, held>>

\* Defect: a settled run may settle again.
MayFinishAgain(r) == status[r] # "absent"

MayFinish(r) == status[r] \in Unfinished

\* _finish_run: the slot is freed whatever the state of the session.
FinishRun(r, st) ==
    /\ Settle(r, st)
    /\ FreeSlot(home[r])

\* Defect: a closed session is reopened.
FinalizeReopens(r, st) ==
    /\ Settle(r, st)
    /\ active'     = [active EXCEPT ![home[r]] = NoRun]
    /\ sessStatus' = [sessStatus EXCEPT ![home[r]] = "ready"]

\* _finalize_without_outcome: a session that is already closed is left alone.
Finalize(r, st) ==
    /\ Settle(r, st)
    /\ IF sessStatus[home[r]] = "closed" THEN UNCHANGED sessionVars ELSE FreeSlot(home[r])

Lock(r, by) == term = Free /\ term' = [run |-> r, by |-> by]

\* Defect: the lock is not released.
AnnounceLocked(r, by) ==
    /\ term = [run |-> r, by |-> by]
    /\ announced' = [announced EXCEPT ![r] = @ + 1]
    /\ UNCHANGED term

\* RunFinished and the session event go out before the lock is released.
Announce(r, by) ==
    /\ term = [run |-> r, by |-> by]
    /\ term' = Free
    /\ announced' = [announced EXCEPT ![r] = @ + 1]

-------------------------------------------------------------------------------
(* The supervised task of a run: _execute_run *)

TaskEnds(r) ==
    /\ task'      = [task EXCEPT ![r] = "none"]
    /\ cancelReq' = [cancelReq EXCEPT ![r] = "no"]
    /\ outcome'   = [outcome EXCEPT ![r] = "none"]

\* The task moves on; a signal that was pending is consumed on the way.
Proceed(r, pc, signal) ==
    /\ task'      = [task EXCEPT ![r] = pc]
    /\ cancelReq' = [cancelReq EXCEPT ![r] = signal]

FirstStep(r) ==
    /\ task[r] = "new"
    /\ IF cancelReq[r] = "sent"
       THEN TaskEnds(r)       \* cancelled before the coroutine ran at all
       ELSE Proceed(r, "prep", cancelReq[r]) /\ UNCHANGED outcome
    /\ UNCHANGED <<sessionVars, pastVars, runVars, toolVars, cleanVars,
                   daemonVars, eventVars, call>>

MarkRunning(r) ==
    /\ status'     = [status EXCEPT ![r] = "running"]
    /\ turnStatus' = [turnStatus EXCEPT ![turn[r]] = "running"]
    /\ begun'      = [begun EXCEPT ![r] = TRUE]

MayBegin(r) == status[r] = "queued"

BeginRun(r) ==
    /\ task[r] = "prep"
    /\ cancelReq[r] # "sent"
    /\ MayBegin(r)
    /\ MarkRunning(r)
    /\ Proceed(r, "exec", cancelReq[r])
    /\ UNCHANGED <<sessionVars, pastVars, toolVars, outcome, cleanVars,
                   daemonVars, eventVars, call>>

(***************************************************************************)
(* Preparation fails: the run is no longer queued, the history does not    *)
(* fit the context budget, or any other error rolls the transaction back.  *)
(***************************************************************************)
BeginFails(r) ==
    /\ task[r] = "prep"
    /\ cancelReq[r] # "sent"
    /\ Proceed(r, "abort", cancelReq[r])
    /\ outcome' = [outcome EXCEPT ![r] = "failed"]
    /\ UNCHANGED <<sessionVars, pastVars, runVars, toolVars, cleanVars,
                   daemonVars, eventVars, call>>

(***************************************************************************)
(* A cancellation delivered inside the transaction rolls it back; one      *)
(* delivered while the commit is under way does not stop the commit.       *)
(***************************************************************************)
BeginCancelled(r) ==
    /\ task[r] = "prep"
    /\ cancelReq[r] = "sent"
    /\ \/ MayBegin(r) /\ MarkRunning(r)
       \/ UNCHANGED runVars
    /\ Proceed(r, "abort", "taken")
    /\ outcome' = [outcome EXCEPT ![r] = "cancelled"]
    /\ UNCHANGED <<sessionVars, pastVars, toolVars, cleanVars,
                   daemonVars, eventVars, call>>

(***************************************************************************)
(* The finalization of a failed preparation runs in the supervised task    *)
(* itself and is not shielded.                                             *)
(***************************************************************************)
AbortCommit(r) ==
    /\ task[r] = "abort"
    /\ cancelReq[r] # "sent"
    /\ MayFinish(r)
    /\ Lock(r, "task")
    /\ Finalize(r, outcome[r])
    /\ Proceed(r, "notify", cancelReq[r])
    /\ UNCHANGED <<outcome, cleanVars, daemonVars, announced, call>>

AbortSettled(r) ==
    /\ task[r] = "abort"
    /\ cancelReq[r] # "sent"
    /\ term = Free
    /\ ~ MayFinish(r)
    /\ TaskEnds(r)
    /\ UNCHANGED <<sessionVars, pastVars, runVars, toolVars, cleanVars,
                   daemonVars, eventVars, call>>

(***************************************************************************)
(* A cancellation delivered there ends the task: before the commit, or     *)
(* while the commit completes behind it, so that nothing is announced.     *)
(***************************************************************************)
AbortCancelled(r) ==
    /\ task[r] = "abort"
    /\ cancelReq[r] = "sent"
    /\ \/ UNCHANGED <<sessionVars, pastVars, runVars, toolVars>>
       \/ term = Free /\ MayFinish(r) /\ Finalize(r, outcome[r])
    /\ TaskEnds(r)
    /\ UNCHANGED <<cleanVars, daemonVars, eventVars, call>>

(***************************************************************************)
(* A tool call of the executing run: its row is opened, the run may start  *)
(* to have side effects and may get a container.                           *)
(***************************************************************************)
ToolStarts(r) ==
    /\ task[r] = "exec"
    /\ cancelReq[r] # "sent"
    /\ ~ openTool[r]
    /\ openTool' = [openTool EXCEPT ![r] = TRUE]
    /\ \E tool \in Tools, container \in BOOLEAN :
           /\ effects' = [effects EXCEPT ![r] = @ \/ tool \in SideEffecting]
           /\ held'    = [held EXCEPT ![r] = @ \/ container]
    /\ UNCHANGED <<sessionVars, pastVars, runVars, taskVars, cleanVars,
                   daemonVars, eventVars, call>>

ToolEnds(r) ==
    /\ task[r] = "exec"
    /\ cancelReq[r] # "sent"
    /\ openTool[r]
    /\ openTool' = [openTool EXCEPT ![r] = FALSE]
    /\ UNCHANGED <<sessionVars, pastVars, runVars, effects, held, taskVars,
                   cleanVars, daemonVars, eventVars, call>>

(***************************************************************************)
(* run_and_capture returns with its containers removed.  A cancellation is *)
(* turned into an outcome by the runner or by _execute_run.                *)
(***************************************************************************)
RunnerReturns(r) ==
    /\ task[r] = "exec"
    /\ \E word \in Outcomes :
           /\ word = "cancelled" => cancelReq[r] = "sent"
           /\ word = "success" => cancelReq[r] # "sent"
           /\ outcome' = [outcome EXCEPT ![r] = DbStatus(word)]
    /\ Proceed(r, "finish", IF cancelReq[r] = "sent" THEN "taken" ELSE cancelReq[r])
    /\ held' = [held EXCEPT ![r] = FALSE]
    /\ UNCHANGED <<sessionVars, pastVars, runVars, effects, openTool, cleanVars,
                   daemonVars, eventVars, call>>

\* RuntimeCleanupPending: _pending_resources is updated before the first await.
RunnerLeavesResources(r) ==
    /\ task[r] = "exec"
    /\ held[r]
    /\ Proceed(r, "mark", IF cancelReq[r] = "sent" THEN "taken" ELSE cancelReq[r])
    /\ pendingRes' = pendingRes \union {r}
    /\ UNCHANGED <<sessionVars, pastVars, runVars, toolVars, outcome, cleanup,
                   failedRoot, daemonVars, eventVars, call>>

(***************************************************************************)
(* _finish_run runs in a task of its own, which a cancellation of the      *)
(* supervised task does not reach.                                         *)
(***************************************************************************)
FinishCommit(r) ==
    /\ task[r] = "finish"
    /\ MayFinish(r)
    /\ Lock(r, "task")
    /\ FinishRun(r, outcome[r])
    /\ Proceed(r, "announce", cancelReq[r])
    /\ UNCHANGED <<outcome, cleanVars, daemonVars, announced, call>>

FinishSettled(r) ==
    /\ task[r] = "finish"
    /\ term = Free
    /\ ~ MayFinish(r)
    /\ TaskEnds(r)
    /\ UNCHANGED <<sessionVars, pastVars, runVars, toolVars, cleanVars,
                   daemonVars, eventVars, call>>

TaskAnnounces(r) ==
    /\ task[r] \in {"announce", "notify"}
    /\ Announce(r, "task")
    /\ TaskEnds(r)
    /\ UNCHANGED <<sessionVars, pastVars, runVars, toolVars, cleanVars,
                   daemonVars, call>>

\* Only the finalization of a failed preparation can be interrupted here.
Unshielded == {"notify"}

NotifyCancelled(r) ==
    /\ task[r] \in Unshielded
    /\ cancelReq[r] = "sent"
    /\ term' = Free
    /\ TaskEnds(r)
    /\ UNCHANGED <<sessionVars, pastVars, runVars, toolVars, cleanVars,
                   daemonVars, announced, call>>

-------------------------------------------------------------------------------
(* Cancellation and confirmed cleanup *)

Closed == phase # "up"     \* _closed and _cleanup_stopping are set together

(***************************************************************************)
(* _start_cleanup_task: one cancellation task per run, which later callers *)
(* join.                                                                   *)
(***************************************************************************)
StartCleanup(r) ==
    cleanup' = [cleanup EXCEPT ![r] = IF @ = "none" THEN "signal" ELSE @]

\* Defect: resources already known to be pending request nothing.
RequestsCleanupOnce(r) == ~ Closed /\ r \notin pendingRes

\* _request_failed_cleanup, unless a cancellation already covers the run.
RequestsCleanup(r) == ~ Closed /\ cleanup[r] = "none"

\* _mark_cleanup_pending has committed, _request_failed_cleanup follows.
MarkPending(r) ==
    /\ task[r] = "mark"
    /\ cancelReq[r] # "sent"
    /\ TaskEnds(r)
    /\ IF RequestsCleanup(r)
       THEN StartCleanup(r) /\ failedRoot' = failedRoot \union {r}
       ELSE UNCHANGED <<cleanup, failedRoot>>
    /\ UNCHANGED <<sessionVars, pastVars, runVars, toolVars, pendingRes,
                   daemonVars, eventVars, call>>

\* Cancelled in the transaction of _mark_cleanup_pending: nothing is requested.
MarkCancelled(r) ==
    /\ task[r] = "mark"
    /\ cancelReq[r] = "sent"
    /\ TaskEnds(r)
    /\ UNCHANGED <<sessionVars, pastVars, runVars, toolVars, cleanVars,
                   daemonVars, eventVars, call>>

\* The submission of the run is committed, its task is not there yet.
AwaitsStart(r) == \E c \in Callers : call[c].pc = "start" /\ call[c].r = r

RequestCancel(r) ==
    /\ phase = "up"
    /\ r \in Cancellable
    /\ AwaitsStart(r) => r \in Hasty
    /\ status[r] # "absent"
    /\ cleanup[r] = "none"
    /\ StartCleanup(r)
    /\ missed' = [missed EXCEPT ![r] = IF AwaitsStart(r) THEN "start" ELSE @]
    /\ UNCHANGED <<sessionVars, originVars, runVars, toolVars, taskVars, failedRoot,
                   pendingRes, daemonVars, eventVars, call>>

\* RunSupervisor.cancel: at most one signal per task.
Signal(r) == IF cancelReq[r] = "no" THEN "sent" ELSE cancelReq[r]

Supervised(r) == task[r] # "none"

CleanupStep(r, from, to) ==
    /\ cleanup[r] = from
    /\ cleanup' = [cleanup EXCEPT ![r] = to]

CleanupSignals(r) ==
    /\ CleanupStep(r, "signal", IF Supervised(r) THEN "await" ELSE "check")
    /\ cancelReq' = [cancelReq EXCEPT ![r] = IF Supervised(r) THEN Signal(r) ELSE @]
    /\ UNCHANGED <<sessionVars, pastVars, runVars, toolVars, task, outcome, failedRoot,
                   pendingRes, daemonVars, eventVars, call>>

CleanupAwaited(r) ==
    /\ ~ Supervised(r)
    /\ CleanupStep(r, "await", "check")
    /\ UNCHANGED <<sessionVars, pastVars, runVars, toolVars, taskVars, failedRoot,
                   pendingRes, daemonVars, eventVars, call>>

(***************************************************************************)
(* _confirm_run_cleanup: retry until the sandbox confirms, or give up when *)
(* the daemon is stopping.  Giving up leaves the run unfinished.           *)
(***************************************************************************)
CleanupChecks(r) ==
    /\ ~ Closed
    /\ CleanupStep(r, "check", "attempt")
    /\ UNCHANGED <<sessionVars, pastVars, runVars, toolVars, taskVars, failedRoot,
                   pendingRes, daemonVars, eventVars, call>>

\* A cancellation ends before its run does.
MissesEnd(r) == IF missed[r] = "nothing" THEN "end" ELSE missed[r]

CleanupGivesUp(r) ==
    /\ Closed
    /\ CleanupStep(r, "check", "none")
    /\ failedRoot' = failedRoot \ {r}
    /\ missed' = [missed EXCEPT ![r] = MissesEnd(r)]
    /\ UNCHANGED <<sessionVars, originVars, runVars, toolVars, taskVars,
                   pendingRes, daemonVars, eventVars, call>>

CleanupConfirmed(r) ==
    /\ CleanupStep(r, "attempt", "finalize")
    /\ held' = [held EXCEPT ![r] = FALSE]
    /\ pendingRes' = pendingRes \ {r}
    /\ UNCHANGED <<sessionVars, pastVars, runVars, effects, openTool, taskVars,
                   failedRoot, daemonVars, eventVars, call>>

\* Defect: the run is finalized all the same.
CleanupUnconfirmedFinalizes(r) ==
    /\ held[r]
    /\ CleanupStep(r, "attempt", "finalize")
    /\ pendingRes' = pendingRes \union {r}
    /\ UNCHANGED <<sessionVars, pastVars, runVars, toolVars, taskVars,
                   failedRoot, daemonVars, eventVars, call>>

\* Defect: one failed removal ends the cancellation.
CleanupUnconfirmedEnds(r) ==
    /\ held[r]
    /\ CleanupStep(r, "attempt", "none")
    /\ pendingRes' = pendingRes \union {r}
    /\ failedRoot' = failedRoot \ {r}
    /\ UNCHANGED <<sessionVars, pastVars, runVars, toolVars, taskVars,
                   daemonVars, eventVars, call>>

CleanupUnconfirmed(r) ==
    /\ held[r]
    /\ CleanupStep(r, "attempt", "check")
    /\ pendingRes' = pendingRes \union {r}
    /\ UNCHANGED <<sessionVars, pastVars, runVars, toolVars, taskVars,
                   failedRoot, daemonVars, eventVars, call>>

CleanupCommit(r) ==
    /\ MayFinish(r)
    /\ CleanupStep(r, "finalize", "announce")
    /\ Lock(r, "cleanup")
    /\ Finalize(r, IF r \in failedRoot THEN "failed" ELSE "cancelled")
    /\ UNCHANGED <<taskVars, failedRoot, pendingRes, daemonVars, announced, call>>

CleanupSettled(r) ==
    /\ ~ MayFinish(r)
    /\ term = Free
    /\ CleanupStep(r, "finalize", "none")
    /\ failedRoot' = failedRoot \ {r}
    /\ UNCHANGED <<sessionVars, pastVars, runVars, toolVars, taskVars, pendingRes,
                   daemonVars, eventVars, call>>

CleanupAnnounces(r) ==
    /\ CleanupStep(r, "announce", "none")
    /\ Announce(r, "cleanup")
    /\ failedRoot' = failedRoot \ {r}
    /\ UNCHANGED <<sessionVars, pastVars, runVars, toolVars, taskVars, pendingRes,
                   daemonVars, call>>

-------------------------------------------------------------------------------
(* close_session: an RPC that holds the submission lock while it cancels   *)

RunToCancel(s) == active[s]

CloseBegins(c) ==
    /\ HasLock(c, "close")
    /\ LET r == RunToCancel(call[c].s) IN
       IF r = NoRun
       THEN /\ call' = [call EXCEPT ![c].pc = "closing"]
            /\ UNCHANGED cleanup
       ELSE /\ call' = [call EXCEPT ![c].pc = "cancelling", ![c].r = r]
            /\ StartCleanup(r)
    /\ UNCHANGED <<sessionVars, pastVars, runVars, toolVars, taskVars, failedRoot,
                   pendingRes, daemonVars, eventVars>>

CloseWaited(c) ==
    /\ call[c].pc = "cancelling"
    /\ cleanup[call[c].r] = "none"
    /\ call' = [call EXCEPT ![c].pc = "closing"]
    /\ UNCHANGED <<sessionVars, pastVars, runVars, toolVars, taskVars, cleanVars,
                   daemonVars, eventVars>>

CloseCommit(c) ==
    /\ call[c].pc = "closing"
    /\ sessStatus' = [sessStatus EXCEPT ![call[c].s] = "closed"]
    /\ active'     = [active EXCEPT ![call[c].s] = NoRun]
    /\ Return(c)
    /\ UNCHANGED <<pastVars, runVars, toolVars, taskVars, cleanVars,
                   daemonVars, eventVars>>

\* The client disconnects, or the wait for the cancellation times out.
CloseAborted(c) ==
    /\ call[c].op = "close"
    /\ Return(c)
    /\ UNCHANGED <<sessionVars, pastVars, runVars, toolVars, taskVars, cleanVars,
                   daemonVars, eventVars>>

-------------------------------------------------------------------------------
(* Shutdown, crash and recovery *)

BeginShutdown ==
    /\ phase = "up"
    /\ stops < Stops
    /\ stops' = stops + 1
    /\ phase' = "stopping"
    /\ UNCHANGED <<sessionVars, pastVars, runVars, toolVars, taskVars, cleanVars,
                   todo, eventVars, call>>

\* Accepted submissions are waited for,
Drained == \A c \in Callers : ~ Owned(call[c].op)

\* Defect: the cancellations in progress are not waited for.
NoCancellations == {}

\* then the cancellations that are in progress at that moment.
Cancellations == {r \in Runs : cleanup[r] # "none"}

WaitForCancellations ==
    /\ phase = "stopping"
    /\ Drained
    /\ phase' = "draining"
    /\ todo' = Cancellations
    /\ UNCHANGED <<sessionVars, pastVars, runVars, toolVars, taskVars, cleanVars,
                   stops, eventVars, call>>

CancellationEnded(r) ==
    /\ phase = "draining"
    /\ r \in todo
    /\ cleanup[r] = "none"
    /\ todo' = todo \ {r}
    /\ UNCHANGED <<sessionVars, pastVars, runVars, toolVars, taskVars, cleanVars,
                   phase, stops, eventVars, call>>

\* RunSupervisor.shutdown
SupervisorShutdown ==
    /\ phase = "draining"
    /\ todo = {}
    /\ phase' = "cancelling"
    /\ todo' = {r \in Runs : Supervised(r)}
    /\ cancelReq' = [r \in Runs |-> IF Supervised(r) THEN Signal(r) ELSE cancelReq[r]]
    /\ UNCHANGED <<sessionVars, pastVars, runVars, toolVars, task, outcome, cleanVars,
                   stops, eventVars, call>>

TasksEnded ==
    /\ phase = "cancelling"
    /\ \A r \in Runs : ~ Supervised(r)
    /\ phase' = "finalizing"
    /\ UNCHANGED <<sessionVars, pastVars, runVars, toolVars, taskVars, cleanVars,
                   todo, stops, eventVars, call>>

BootStatus == IF phase = "recovering" THEN "interrupted" ELSE "cancelled"

BootMaySettle(r) == MayFinish(r) /\ r \notin pendingRes

(***************************************************************************)
(* Shutdown finalizes the runs it stopped, recovery the runs an earlier    *)
(* process left unfinished.  pendingRes is empty during recovery.          *)
(***************************************************************************)
BootCommit(r) ==
    /\ phase \in {"finalizing", "recovering"}
    /\ r \in todo
    /\ BootMaySettle(r)
    /\ Lock(r, "boot")
    /\ Finalize(r, BootStatus)
    /\ UNCHANGED <<taskVars, cleanVars, daemonVars, announced, call>>

BootAnnounces(r) ==
    /\ Announce(r, "boot")
    /\ todo' = todo \ {r}
    /\ UNCHANGED <<sessionVars, pastVars, runVars, toolVars, taskVars, cleanVars,
                   phase, stops, call>>

BootSkips(r) ==
    /\ phase \in {"finalizing", "recovering"}
    /\ r \in todo
    /\ term = Free
    /\ ~ BootMaySettle(r)
    /\ todo' = todo \ {r}
    /\ UNCHANGED <<sessionVars, pastVars, runVars, toolVars, taskVars, cleanVars,
                   phase, stops, eventVars, call>>

\* The process ends: what lived in the event loop is gone.
LoseVolatile ==
    /\ missed'     = [r \in Runs |-> IF cleanup[r] = "none" THEN missed[r] ELSE MissesEnd(r)]
    /\ call'       = [c \in Callers |-> Idle]
    /\ task'       = [r \in Runs |-> "none"]
    /\ cancelReq'  = [r \in Runs |-> "no"]
    /\ outcome'    = [r \in Runs |-> "none"]
    /\ cleanup'    = [r \in Runs |-> "none"]
    /\ failedRoot' = {}
    /\ term'       = Free
    /\ todo'       = {}

\* pendingRes is kept one step longer, for StoppedRunsAreSettled to refer to.
Stop ==
    /\ phase = "finalizing"
    /\ todo = {}
    /\ term = Free
    /\ phase' = "down"
    /\ LoseVolatile
    /\ UNCHANGED <<sessionVars, originVars, runVars, toolVars, pendingRes, stops, announced>>

\* A crash in the middle of a shutdown is part of that one stop.
Crash ==
    /\ phase \notin {"down", "dead"}
    /\ IF phase \in {"up", "recovering"}
       THEN stops < Stops /\ stops' = stops + 1
       ELSE UNCHANGED stops
    /\ phase' = "dead"
    /\ LoseVolatile
    /\ pendingRes' = {}
    /\ UNCHANGED <<sessionVars, originVars, runVars, toolVars, announced>>

\* recover_interrupted
LeftUnfinished == {r \in Runs : MayFinish(r)}

(***************************************************************************)
(* Startup removes every recorded container or does not come up at all     *)
(* (recover_core_sandboxes), then records the interruption of every run    *)
(* that is still queued or running.                                        *)
(***************************************************************************)
Restart ==
    /\ phase \in {"down", "dead"}
    /\ phase' = "recovering"
    /\ held' = [r \in Runs |-> FALSE]
    /\ pendingRes' = {}
    /\ todo' = LeftUnfinished
    /\ UNCHANGED <<sessionVars, pastVars, runVars, effects, openTool, taskVars, cleanup,
                   failedRoot, stops, eventVars, call>>

Recovered ==
    /\ phase = "recovering"
    /\ todo = {}
    /\ term = Free
    /\ phase' = "up"
    /\ UNCHANGED <<sessionVars, pastVars, runVars, toolVars, taskVars, cleanVars,
                   todo, stops, eventVars, call>>

-------------------------------------------------------------------------------
(* The specification *)

ClientStep ==
    \/ \E s \in Sessions : CreateSession(s)
    \/ \E r \in Runs : RequestCancel(r)
    \/ \E c \in Callers, s \in Sessions : AcceptClose(c, s)
    \/ \E c \in Callers, s \in Sessions, k \in Keys \union {NoKey} : AcceptSubmit(c, s, k)
    \/ \E c \in Callers, r \in Runs, ok \in BOOLEAN : AcceptRetry(c, r, ok)

CallStep(c) ==
    \/ SubmitAnswered(c) \/ RetryAnswered(c) \/ StartRun(c)
    \/ CloseBegins(c) \/ CloseWaited(c) \/ CloseCommit(c) \/ CloseAborted(c)
    \/ \E r \in Runs : SubmitCommit(c, r)
    \/ \E r, latest \in Runs : RetryCommit(c, r, latest)

ToolStep(r) == ToolStarts(r) \/ ToolEnds(r)

TaskStep(r) ==
    \/ FirstStep(r) \/ BeginRun(r) \/ BeginFails(r) \/ BeginCancelled(r)
    \/ AbortCommit(r) \/ AbortSettled(r) \/ AbortCancelled(r)
    \/ RunnerReturns(r) \/ RunnerLeavesResources(r)
    \/ FinishCommit(r) \/ FinishSettled(r) \/ TaskAnnounces(r) \/ NotifyCancelled(r)
    \/ MarkPending(r) \/ MarkCancelled(r)

CleanupTaskStep(r) ==
    \/ CleanupSignals(r) \/ CleanupAwaited(r) \/ CleanupChecks(r) \/ CleanupGivesUp(r)
    \/ CleanupConfirmed(r) \/ CleanupUnconfirmed(r)
    \/ CleanupCommit(r) \/ CleanupSettled(r) \/ CleanupAnnounces(r)

BootStep(r) == CancellationEnded(r) \/ BootCommit(r) \/ BootAnnounces(r) \/ BootSkips(r)

DaemonStep ==
    \/ WaitForCancellations \/ SupervisorShutdown \/ TasksEnded \/ Stop \/ Recovered
    \/ \E r \in Runs : BootStep(r)

Environment == ClientStep \/ BeginShutdown \/ Crash \/ Restart

Next ==
    \/ Environment
    \/ \E c \in Callers : CallStep(c)
    \/ \E r \in Runs : ToolStep(r) \/ TaskStep(r) \/ CleanupTaskStep(r)
    \/ DaemonStep

Spec == Init /\ [][Next]_vars

(***************************************************************************)
(* The event loop runs every ready task: each task, cleanup and accepted   *)
(* call makes progress.  The agent loop returns because its steps, its     *)
(* model requests and its tools are bounded by limits and timeouts; the    *)
(* sandbox is not assumed to confirm a removal ever.  Clients, signals and *)
(* crashes owe nothing.                                                    *)
(***************************************************************************)
Fairness ==
    /\ \A c \in Callers : WF_vars(CallStep(c))
    /\ \A r \in Runs : WF_vars(TaskStep(r)) /\ WF_vars(CleanupTaskStep(r))
    /\ WF_vars(DaemonStep)

FairSpec == Spec /\ Fairness

-------------------------------------------------------------------------------
(* Invariants *)

IsTerminal(r)   == status[r] \in Terminal
IsUnfinished(r) == status[r] \in Unfinished

(***************************************************************************)
(* A session is running exactly while it names an active run; that run is  *)
(* unfinished and its own; and an unfinished run of a session that is not  *)
(* closed is the one the session names, so there is at most one.           *)
(***************************************************************************)
SlotsMatchRuns ==
    /\ \A s \in Sessions :
          /\ sessStatus[s] = "running" <=> active[s] # NoRun
          /\ active[s] # NoRun =>
                /\ status[active[s]] \in Unfinished
                /\ home[active[s]] = s
    /\ \A r \in Runs : IsUnfinished(r) =>
          sessStatus[home[r]] = "closed" \/ active[home[r]] = r

(***************************************************************************)
(* While the daemon serves clients no unfinished run is an orphan: the     *)
(* operation that will start it, its task, or a cleanup will settle it (an *)
(* orphan would keep its session busy until the next restart); and its     *)
(* session is open, because close_session cancels the active run first.    *)
(***************************************************************************)
UnfinishedRunsAreOwned ==
    phase = "up" => \A r \in Runs : IsUnfinished(r) =>
        /\ AwaitsStart(r) \/ Supervised(r) \/ cleanup[r] # "none"
        /\ sessStatus[home[r]] # "closed"

\* The status of a turn is the status of its latest attempt.
TurnsFollowLatestAttempt ==
    \A r \in Runs : turn[r] # NoRun /\ IsLatest(r) => turnStatus[turn[r]] = status[r]

\* Attempts of a turn are numbered differently, whichever attempt was retried.
AttemptsAreDistinct ==
    \A q, r \in Runs :
        turn[q] # NoRun /\ turn[q] = turn[r] /\ attempt[q] = attempt[r] => q = r

\* A client message is accepted once per session: resubmitting makes no new turn.
OneTurnPerMessage ==
    \A q, r \in Runs :
        key[q] # NoKey /\ key[q] = key[r] /\ home[q] = home[r] => turn[q] = turn[r]

(***************************************************************************)
(* What a turn promises: one turn per message, one attempt per number, and *)
(* the status of the latest attempt, however resubmissions, retries,       *)
(* cancellations, closes and stops interleave.                             *)
(***************************************************************************)
TurnsAreSound == AttemptsAreDistinct /\ OneTurnPerMessage /\ TurnsFollowLatestAttempt

(***************************************************************************)
(* _start_run never meets a closed supervisor: shutdown waits for every    *)
(* accepted submission before it closes it.                                *)
(***************************************************************************)
SupervisorIsOpen ==
    \A c \in Callers : call[c].pc = "start" => phase \in {"up", "stopping"}

\* RunFinished is published at most once, and only for a run that has settled.
AnnouncedOnce ==
    \A r \in Runs : announced[r] > 0 => announced[r] = 1 /\ IsTerminal(r) /\ term.run # r

(***************************************************************************)
(* Nothing outlives a settled run: what remains of its task only announces *)
(* the outcome, no tool row is queued or running, its containers are       *)
(* confirmed gone, a retry that replays its side effects was confirmed by  *)
(* the client, and a run that had begun is announced, because its          *)
(* finalization is shielded from cancellation (the end of the process can  *)
(* come in between, so the first process is meant).  The one exception is  *)
(* a run whose cancellation was asked for before its task was started: the *)
(* cancellation finds no task to stop, and the task it did not find may be *)
(* at work behind it.                                                      *)
(***************************************************************************)
SettledRunsAreOver ==
    \A r \in Runs : IsTerminal(r) /\ missed[r] # "start" =>
        /\ task[r] \in {"none", "announce", "notify"}
        /\ ~ openTool[r]
        /\ ~ held[r]
        /\ effects[r] => \A q \in Runs : retryOf[q] = r => confirmed[q]
        /\ begun[r] => announced[r] = 1 \/ term.run = r \/ stops > 0

(***************************************************************************)
(* After an orderly shutdown a run is left unfinished only if its          *)
(* containers could not be confirmed gone, or if it is still queued and    *)
(* was being cancelled: its task is gone without a trace, and the          *)
(* cancellation that was to settle it gave up because the daemon stops, or *)
(* came too late to be waited for.  The next start settles both.           *)
(***************************************************************************)
StoppedRunsAreSettled ==
    phase = "down" => \A r \in Runs : IsUnfinished(r) =>
        r \in pendingRes \/ (status[r] = "queued" /\ missed[r] # "nothing")

-------------------------------------------------------------------------------
(* Action and liveness properties *)

\* A terminal status is never overwritten, whoever finalizes late.
TerminalIsFinal ==
    [][\A r \in Runs : IsTerminal(r) => status'[r] = status[r]]_vars

(***************************************************************************)
(* A cancellation task of a serving daemon never ends while its run is     *)
(* unfinished: the client that waited for it reads a settled run.          *)
(***************************************************************************)
CancelReturnsSettled ==
    [][\A r \in Runs :
          phase = "up" /\ phase' = "up" /\ cleanup[r] # "none" /\ cleanup'[r] = "none"
          => IsTerminal(r)']_vars

\* Only a container that is still there keeps a run of a serving daemon unfinished.
RunsSettle(r) == IsUnfinished(r) ~> (IsTerminal(r) \/ held[r] \/ phase # "up")

\* A cancellation completes, unless a container is still there.
CancelCompletes(r) == cleanup[r] # "none" ~> (cleanup[r] = "none" \/ held[r])

\* Shutdown completes whatever the sandbox does, unless the process dies first.
ShutdownCompletes == phase = "stopping" ~> phase \in {"down", "dead"}

\* Runs settle, cancellations complete and shutdowns complete, whatever interleaves with them.
EverythingEnds == (\A r \in Runs : RunsSettle(r) /\ CancelCompletes(r)) /\ ShutdownCompletes

\* Sessions and runs are what RunContract promises.
Contract == INSTANCE RunContract

ContractSpec == Contract!Spec
===============================================================================
