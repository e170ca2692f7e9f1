------------------------------- MODULE Sandbox -------------------------------
(***************************************************************************)
(* The containers of the workspace tools: DockerRuntime, SandboxOwner and  *)
(* SandboxResourceStore.  A run has at most one container; its identity is *)
(* recorded durably before docker run is called (an intent) and completed  *)
(* when the container is known (confirmed).  A docker command may fail, or *)
(* take effect although its answer is lost; a docker run whose caller gave *)
(* up may still create its container later; the process may die between    *)
(* any two commands.                                                       *)
(*                                                                         *)
(* The daemon always has an owner.  Without one (owned = FALSE, as the     *)
(* evaluation drivers use the runtime) nothing is durable and containers   *)
(* are told apart by the label of the runtime instance.                    *)
(*                                                                         *)
(* Every tool call modelled here mutates the one workspace; read_file and  *)
(* list_dir skip the workspace lock.  The calls of a run are sequential,   *)
(* so the lock of a container is never contended.                          *)
(***************************************************************************)
EXTENDS Naturals, FiniteSets

CONSTANTS
    Runs,
    NoRun,
    Modes,      \* values owned may have
    Mishaps,    \* bound on failed commands, cancellations and dying containers
    Stops       \* bound on the ends of a core process

ASSUME SandboxAssumption ==
    /\ NoRun \notin Runs
    /\ Modes \subseteq BOOLEAN /\ Modes # {}
    /\ Mishaps \in Nat /\ Stops \in Nat

VARIABLES
    owned,      \* the runtime has a SandboxOwner; never changes
    \* the container engine
    box,        \* none, asked (docker run submitted, not carried out), or up
    work,       \* a worker is executing a tool inside the container
    \* control/sandbox-resources, durable
    record,     \* none, intent, or confirmed
    \* the runtime, volatile
    managed,    \* _managed_records
    boxes,      \* _containers
    unsure,     \* _uncertain_container_names
    attempted,  \* _container_start_attempted
    guard,      \* who holds _container_guard, and how far a removal has come
    wlock,      \* the run that holds the lock of the workspace
    call,       \* the tool call of a run in progress
    \* the runs and the process
    run,        \* new, open, over (cleanup unconfirmed), stale (its process ended), gone
    phase,      \* down, recovering, up, stopping, reaping
    todo,       \* runs the recovery or the shutdown has yet to clean
    blocked,    \* runs whose last removal failed or was cut short: a worker may be left
    mishaps, stops

engineVars == <<box, work>>
knownVars  == <<managed, boxes, unsure, attempted>>
callVars   == <<guard, wlock, call>>
phaseVars  == <<phase, todo, blocked>>
countVars  == <<mishaps, stops, owned>>
vars == <<engineVars, record, knownVars, callVars, run, phaseVars, countVars>>

Nobody == [by |-> "nobody", run |-> NoRun, at |-> "-"]

Init ==
    /\ owned \in Modes
    /\ box = [r \in Runs |-> "none"]
    /\ work = [r \in Runs |-> FALSE]
    /\ record = [r \in Runs |-> "none"]
    /\ managed = {} /\ boxes = {} /\ unsure = {} /\ attempted = FALSE
    /\ guard = Nobody /\ wlock = NoRun
    /\ call = [r \in Runs |-> "idle"]
    /\ run = [r \in Runs |-> "new"]
    /\ phase = "up" /\ todo = {} /\ blocked = {}
    /\ mishaps = 0 /\ stops = 0

Mishap == mishaps < Mishaps /\ mishaps' = mishaps + 1 /\ UNCHANGED <<stops, owned>>

-------------------------------------------------------------------------------
(* The container engine *)

DaemonCreates(r) ==
    /\ box[r] = "asked"
    /\ box' = [box EXCEPT ![r] = "up"]
    /\ UNCHANGED <<work, record, knownVars, callVars, run, phaseVars, countVars>>

\* The request never arrived, or the engine refused it.
DaemonDrops(r) ==
    /\ box[r] = "asked"
    /\ box' = [box EXCEPT ![r] = "none"]
    /\ Mishap
    /\ UNCHANGED <<work, record, knownVars, callVars, run, phaseVars>>

\* With --rm a container that ends disappears.
ContainerDies(r) ==
    /\ box[r] = "up"
    /\ box' = [box EXCEPT ![r] = "none"]
    /\ work' = [work EXCEPT ![r] = FALSE]
    /\ Mishap
    /\ UNCHANGED <<record, knownVars, callVars, run, phaseVars>>

-------------------------------------------------------------------------------
(* What a runtime still answers for *)

\* pending_cleanup_run_ids
Pending == boxes \union managed \union unsure

\* _forget_managed_run
Forget(r) ==
    /\ managed' = managed \ {r}
    /\ boxes' = boxes \ {r}
    /\ unsure' = unsure \ {r}
    /\ UNCHANGED attempted

(***************************************************************************)
(* The end of a removal, successful or not, for whoever holds the guard: a *)
(* tool call ends with an error and releases the workspace, the cleanup of *)
(* a run is confirmed or stays pending, the shutdown goes on, the recovery *)
(* goes on or refuses to start.                                            *)
(***************************************************************************)
Finish(r, ok) ==
    /\ guard' = Nobody
    /\ call' = IF guard.by = "call" THEN [call EXCEPT ![r] = "idle"] ELSE call
    /\ wlock' = IF guard.by = "call" /\ wlock = r THEN NoRun ELSE wlock
    /\ run' = IF guard.by = "service" /\ ok THEN [run EXCEPT ![r] = "gone"] ELSE run
    /\ todo' = IF phase = "up" THEN todo
               ELSE IF phase = "reaping" /\ ~ ok THEN {} ELSE todo \ {r}
    /\ phase' = IF phase = "recovering" /\ ~ ok THEN "down" ELSE phase
    /\ blocked' = IF ok THEN blocked \ {r} ELSE blocked \union {r}

Advance(at) == guard' = [guard EXCEPT !.at = at] /\ UNCHANGED <<wlock, call, run, phaseVars>>

-------------------------------------------------------------------------------
(* SandboxOwner.remove *)

\* Defect: an absent container is taken for gone although docker run may be under way.
AbsenceAlwaysProves(r) == TRUE

\* An absent confirmed container is gone; an absent intent may still be created.
AbsenceProves(r) == record[r] = "confirmed"

Inspect(r) ==
    /\ owned /\ guard.run = r /\ guard.at = "look"
    /\ \/ /\ box[r] = "up"
          /\ record' = [record EXCEPT ![r] = "confirmed"]
          /\ Advance("rm")
          /\ UNCHANGED countVars
       \/ /\ box[r] # "up" /\ AbsenceProves(r)
          /\ Advance("verify")
          /\ UNCHANGED <<record, countVars>>
       \/ /\ box[r] # "up" /\ ~ AbsenceProves(r)
          /\ Finish(r, FALSE)
          /\ UNCHANGED <<record, countVars>>
       \/ Finish(r, FALSE) /\ Mishap /\ UNCHANGED record
    /\ UNCHANGED <<engineVars, knownVars>>

Removed(r) ==
    /\ box' = [box EXCEPT ![r] = "none"]
    /\ work' = [work EXCEPT ![r] = FALSE]

\* The command may have removed the container although it failed.
Rm(r) ==
    /\ owned /\ guard.run = r /\ guard.at = "rm"
    /\ \/ box[r] = "up" /\ Removed(r) /\ Advance("verify") /\ UNCHANGED countVars
       \/ box[r] # "up" /\ Finish(r, FALSE) /\ UNCHANGED <<engineVars, countVars>>
       \/ Finish(r, FALSE) /\ Mishap /\ (Removed(r) \/ UNCHANGED engineVars)
    /\ UNCHANGED <<record, knownVars>>

\* _confirm_absent, then the record is deleted and the runtime forgets the run.
Verify(r) ==
    /\ owned /\ guard.run = r /\ guard.at = "verify"
    /\ \/ /\ record' = [record EXCEPT ![r] = "none"]
          /\ Forget(r)
          /\ Finish(r, TRUE)
          /\ UNCHANGED countVars
       \/ Finish(r, FALSE) /\ Mishap /\ UNCHANGED <<record, knownVars>>
    /\ UNCHANGED engineVars

-------------------------------------------------------------------------------
(* Removal without an owner *)

\* docker rm of a known container; a failure keeps it, for the shutdown to retry.
RmKnown(r) ==
    /\ ~ owned /\ guard.run = r /\ guard.at = "known"
    /\ \/ Removed(r) /\ boxes' = boxes \ {r} /\ UNCHANGED countVars
       \/ Mishap /\ UNCHANGED <<engineVars, boxes>>
    /\ IF r \in unsure THEN Advance("look") ELSE Finish(r, r \notin boxes')
    /\ UNCHANGED <<record, managed, unsure, attempted>>

\* _cleanup_uncertain_container: only a container seen with our label is removed.
InspectName(r) ==
    /\ ~ owned /\ guard.run = r /\ guard.at = "look"
    /\ \/ box[r] = "up" /\ Advance("rm") /\ UNCHANGED countVars
       \/ box[r] # "up" /\ Finish(r, FALSE) /\ UNCHANGED countVars
       \/ Finish(r, FALSE) /\ Mishap
    /\ UNCHANGED <<engineVars, record, knownVars>>

RmName(r) ==
    /\ ~ owned /\ guard.run = r /\ guard.at = "rm"
    /\ \/ /\ Removed(r)
          /\ unsure' = unsure \ {r}
          /\ Finish(r, r \notin boxes)
          /\ UNCHANGED countVars
       \/ Finish(r, FALSE) /\ Mishap /\ UNCHANGED <<engineVars, unsure>>
    /\ UNCHANGED <<record, managed, boxes, attempted>>

Removal(r) ==
    Inspect(r) \/ Rm(r) \/ Verify(r) \/ RmKnown(r) \/ InspectName(r) \/ RmName(r)

\* Where the removal of a run starts.
FirstStep(r) == IF ~ owned /\ r \in boxes THEN "known" ELSE "look"

\* The guard is taken to remove what the run holds.
StartRemoval(by, r) ==
    /\ guard = Nobody
    /\ guard' = [by |-> by, run |-> r, at |-> FirstStep(r)]

-------------------------------------------------------------------------------
(* DockerRuntime.execute *)

\* A sandbox that is not available refuses the call: nothing changes.
Execute(r) ==
    /\ phase = "up"
    /\ run[r] \in {"new", "open"}
    /\ call[r] = "idle"
    /\ call' = [call EXCEPT ![r] = "guard"]
    /\ run' = [run EXCEPT ![r] = "open"]
    /\ UNCHANGED <<engineVars, record, knownVars, guard, wlock, phaseVars, countVars>>

\* docker run is submitted; until it answers its outcome is uncertain.
Submit(r) ==
    /\ box' = [box EXCEPT ![r] = "asked"]
    /\ unsure' = unsure \union {r}
    /\ attempted' = TRUE

EnterGuard(r) ==
    /\ call[r] = "guard" /\ guard = Nobody
    /\ \/ /\ r \in boxes
          /\ call' = [call EXCEPT ![r] = "lock"]
          /\ UNCHANGED <<guard, engineVars, knownVars>>
       \/ /\ r \notin boxes /\ r \in managed
          /\ call' = [call EXCEPT ![r] = "idle"]
          /\ UNCHANGED <<guard, engineVars, knownVars>>
       \/ /\ r \notin boxes /\ r \notin managed /\ owned
          /\ guard' = [by |-> "call", run |-> r, at |-> "ensure"]
          /\ call' = [call EXCEPT ![r] = "intent"]
          /\ UNCHANGED <<engineVars, knownVars>>
       \/ /\ r \notin boxes /\ ~ owned /\ box[r] # "up"
          /\ guard' = [by |-> "call", run |-> r, at |-> "ensure"]
          /\ call' = [call EXCEPT ![r] = "run"]
          /\ Submit(r)
          /\ UNCHANGED <<work, managed, boxes>>
       \/ /\ r \notin boxes /\ ~ owned /\ box[r] = "up"   \* docker run: the name is taken
          /\ guard' = [by |-> "call", run |-> r, at |-> "look"]
          /\ call' = [call EXCEPT ![r] = "undo"]
          /\ unsure' = unsure \union {r} /\ attempted' = TRUE
          /\ UNCHANGED <<engineVars, managed, boxes>>
    /\ UNCHANGED <<record, wlock, run, phaseVars, countVars>>

\* SandboxOwner.create_intent, which may fail before it has written anything.
CreateIntent(r) ==
    /\ call[r] = "intent"
    /\ \/ /\ record' = [record EXCEPT ![r] = "intent"]
          /\ managed' = managed \union {r}
          /\ Submit(r)
          /\ call' = [call EXCEPT ![r] = "run"]
          /\ UNCHANGED <<guard, countVars>>
       \/ /\ Mishap
          /\ guard' = Nobody
          /\ call' = [call EXCEPT ![r] = "idle"]
          /\ UNCHANGED <<box, record, managed, unsure, attempted>>
    /\ UNCHANGED <<work, boxes, wlock, run, phaseVars>>

\* The container is known from here on: later calls of the run use it.
Known(r) ==
    /\ boxes' = boxes \union {r}
    /\ unsure' = unsure \ {r}
    /\ guard' = Nobody
    /\ call' = [call EXCEPT ![r] = "lock"]
    /\ UNCHANGED <<managed, attempted>>

\* Defect: the compensation takes the guard it already holds.
UndoThroughCleanup(r) ==
    /\ call' = [call EXCEPT ![r] = "drop"]
    /\ UNCHANGED <<guard, knownVars>>

\* _cleanup_uncertain_container compensates a start that failed, or, shielded, was cancelled.
Undo(r) ==
    /\ guard' = [guard EXCEPT !.at = "look"]
    /\ call' \in {[call EXCEPT ![r] = "undo"], [call EXCEPT ![r] = "undoShielded"]}
    /\ UNCHANGED knownVars

RunAnswers(r) ==
    /\ call[r] = "run" /\ box[r] = "up"
    /\ IF owned
       THEN /\ call' = [call EXCEPT ![r] = "confirm"]
            /\ UNCHANGED <<guard, knownVars>>
       ELSE Known(r)
    /\ UNCHANGED <<engineVars, record, wlock, run, phaseVars, countVars>>

RunFails(r) ==
    /\ call[r] = "run"
    /\ IF box[r] = "none" THEN UNCHANGED countVars ELSE Mishap
    /\ Undo(r)
    /\ UNCHANGED <<engineVars, record, wlock, run, phaseVars>>

\* SandboxOwner.confirm
ConfirmIdentity(r) ==
    /\ call[r] = "confirm"
    /\ \/ /\ box[r] = "up"
          /\ record' = [record EXCEPT ![r] = "confirmed"]
          /\ Known(r)
          /\ UNCHANGED countVars
       \/ /\ IF box[r] = "up" THEN Mishap ELSE UNCHANGED countVars
          /\ Undo(r)
          /\ UNCHANGED record
    /\ UNCHANGED <<engineVars, wlock, run, phaseVars>>

-------------------------------------------------------------------------------
(* DockerRuntime._exec *)

\* docker exec in a container that has gone starts nothing; if it cannot be started at all the
\* container is removed.
StartExec(r) ==
    /\ call[r] = "lock" /\ wlock = NoRun
    /\ \/ /\ wlock' = r
          /\ work' = [work EXCEPT ![r] = box[r] = "up"]
          /\ call' = [call EXCEPT ![r] = "exec"]
          /\ UNCHANGED countVars
       \/ /\ Mishap
          /\ wlock' = r
          /\ call' = [call EXCEPT ![r] = "drop"]
          /\ UNCHANGED work
       \/ /\ Mishap
          /\ call' = [call EXCEPT ![r] = "idle"]
          /\ UNCHANGED <<wlock, work>>
    /\ UNCHANGED <<box, record, knownVars, guard, run, phaseVars>>

\* A worker that an earlier call of the run left behind may go on.
ExecReturns(r) ==
    /\ call[r] = "exec" /\ box[r] = "up"
    /\ \E left \in IF r \in blocked THEN BOOLEAN ELSE {FALSE} : work' = [work EXCEPT ![r] = left]
    /\ wlock' = NoRun
    /\ call' = [call EXCEPT ![r] = "idle"]
    /\ UNCHANGED <<box, record, knownVars, guard, run, phaseVars, countVars>>

\* Defect: the workspace is released before the container is removed.
KeepsWorkspaceUntilKilled(r) == wlock' = NoRun

\* The worker may still be running: only the removal of its container stops it.
KeepsWorkspace(r) == UNCHANGED wlock

\* The container is removed: after a timeout or a broken worker by a plain await, after a
\* cancellation or another exception by _complete_cleanup_before_cancelling.
ExecBreaks(r) ==
    /\ call[r] = "exec"
    /\ IF box[r] = "up" THEN Mishap ELSE UNCHANGED countVars
    /\ call' \in {[call EXCEPT ![r] = "drop"], [call EXCEPT ![r] = "dropShielded"]}
    /\ KeepsWorkspace(r)
    /\ UNCHANGED <<engineVars, record, knownVars, guard, run, phaseVars>>

\* cleanup_run from inside _exec, with the workspace still locked.
Drop(r) ==
    /\ call[r] \in {"drop", "dropShielded"}
    /\ StartRemoval("call", r)
    /\ UNCHANGED <<engineVars, record, knownVars, call, wlock, run, phaseVars, countVars>>

\* A call that waits for the guard or for the workspace is cancelled.
CancelWaiting(r) ==
    /\ call[r] \in {"guard", "lock"}
    /\ call' = [call EXCEPT ![r] = "idle"]
    /\ Mishap
    /\ UNCHANGED <<engineVars, record, knownVars, guard, wlock, run, phaseVars>>

\* The shield of a cleanup stands one cancellation; then it is awaited without one.
LosesShield(r) ==
    /\ \/ call[r] = "dropShielded" /\ call' = [call EXCEPT ![r] = "drop"]
       \/ call[r] = "undoShielded" /\ call' = [call EXCEPT ![r] = "undo"]
    /\ Mishap
    /\ UNCHANGED <<engineVars, record, knownVars, guard, wlock, run, phaseVars>>

RemovesOwn(r) == guard.by = "call" /\ guard.run = r

(***************************************************************************)
(* A cancellation during an unshielded removal, or while it waits for the  *)
(* guard, ends the call: the workspace is released although the worker may *)
(* still run.                                                              *)
(***************************************************************************)
CutShort(r) ==
    /\ call[r] \in {"drop", "undo"}
    /\ Mishap
    /\ \/ /\ RemovesOwn(r)
          /\ \/ UNCHANGED engineVars
             \/ guard.at \in {"known", "rm"} /\ Removed(r)
          /\ Finish(r, FALSE)
       \/ /\ call[r] = "drop" /\ ~ RemovesOwn(r)
          /\ call' = [call EXCEPT ![r] = "idle"]
          /\ wlock' = NoRun
          /\ blocked' = blocked \union {r}
          /\ UNCHANGED <<engineVars, guard, run, phase, todo>>
    /\ UNCHANGED <<record, knownVars>>

Cancelled(r) == CancelWaiting(r) \/ LosesShield(r) \/ CutShort(r)

-------------------------------------------------------------------------------
(* Cleanup of a run whose task has ended, and shutdown *)

\* cleanup_run, called by the run and again by RuntimeService.
CleanupRun(r) ==
    /\ phase = "up" /\ run[r] \in {"open", "over"} /\ call[r] = "idle"
    /\ \/ /\ r \in Pending
          /\ StartRemoval("service", r)
          /\ run' = [run EXCEPT ![r] = "over"]
       \/ /\ r \notin Pending /\ guard = Nobody
          /\ run' = [run EXCEPT ![r] = "gone"]
          /\ UNCHANGED guard
    /\ UNCHANGED <<engineVars, record, knownVars, call, wlock, phaseVars, countVars>>

\* DockerRuntime.cleanup: every known and every uncertain container once,
Shutdown ==
    /\ phase = "up" /\ guard = Nobody
    /\ stops < Stops
    /\ \A r \in Runs : call[r] = "idle"
    /\ phase' = "stopping"
    /\ todo' = boxes \union unsure
    /\ UNCHANGED <<engineVars, record, knownVars, callVars, run, blocked, countVars>>

ReapsAll ==
    /\ box' = [r \in Runs |-> IF box[r] = "up" THEN "none" ELSE box[r]]
    /\ work' = [r \in Runs |-> FALSE]

\* then whatever else is left of this runtime instance (_reap_current_instance). Without an
\* owner docker ps or docker rm may fail, with or without effect, and nothing is tried again.
Reap ==
    /\ phase = "stopping" /\ todo = {} /\ guard = Nobody
    /\ phase' = "reaping"
    /\ todo' = IF owned /\ attempted THEN {r \in Runs : record[r] # "none"} ELSE {}
    /\ IF ~ owned /\ attempted
       THEN \/ /\ ReapsAll
               /\ boxes' = {r \in boxes : box[r] # "up"}
               /\ UNCHANGED countVars
            \/ /\ Mishap
               /\ ReapsAll \/ UNCHANGED engineVars
               /\ UNCHANGED boxes
       ELSE UNCHANGED <<engineVars, boxes, countVars>>
    /\ UNCHANGED <<record, managed, unsure, attempted, callVars, run, blocked>>

SweepNext(r) ==
    /\ phase \in {"stopping", "reaping", "recovering"}
    /\ r \in todo
    /\ StartRemoval("sweep", r)
    /\ UNCHANGED <<engineVars, record, knownVars, call, wlock, run, phaseVars, countVars>>

-------------------------------------------------------------------------------
(* The core process *)

\* What the runtime knew dies with its process; its runs cannot go on.
ProcessGone ==
    /\ phase' = "down" /\ todo' = {}
    /\ managed' = {} /\ boxes' = {} /\ unsure' = {} /\ attempted' = FALSE
    /\ guard' = Nobody /\ wlock' = NoRun
    /\ call' = [r \in Runs |-> "idle"]
    /\ run' = [r \in Runs |-> IF run[r] \in {"open", "over"} THEN "stale" ELSE run[r]]
    /\ UNCHANGED <<engineVars, record, blocked, mishaps, owned>>

Stopped ==
    /\ phase = "reaping" /\ todo = {} /\ guard = Nobody
    /\ stops' = stops + 1
    /\ ProcessGone

Crash ==
    /\ phase # "down"
    /\ stops < Stops
    /\ stops' = stops + 1
    /\ ProcessGone

\* Defect: only containers that were confirmed are looked for.
LeftBehindConfirmed == {r \in Runs : record[r] = "confirmed"}

LeftBehind == {r \in Runs : record[r] # "none"}

\* Every container of this HOME must have its record before anything is removed.
InventoryMatches == \A r \in Runs : box[r] = "up" => record[r] # "none"

\* recover_core_sandboxes: the core does not serve before everything is removed.
Recover ==
    /\ phase = "down" /\ owned
    /\ InventoryMatches
    /\ phase' = "recovering"
    /\ todo' = LeftBehind
    /\ UNCHANGED <<engineVars, record, knownVars, callVars, run, blocked, countVars>>

Serve ==
    /\ phase = "recovering" /\ todo = {} /\ guard = Nobody
    /\ phase' = "up"
    /\ run' = [r \in Runs |-> IF run[r] = "stale" THEN "gone" ELSE run[r]]
    /\ UNCHANGED <<engineVars, record, knownVars, callVars, todo, blocked, countVars>>

-------------------------------------------------------------------------------
(* Specification *)

CallStep(r) ==
    \/ EnterGuard(r) \/ CreateIntent(r) \/ RunAnswers(r) \/ RunFails(r) \/ ConfirmIdentity(r)
    \/ StartExec(r) \/ ExecReturns(r) \/ ExecBreaks(r) \/ Drop(r)

Next ==
    \/ \E r \in Runs :
          \/ DaemonCreates(r) \/ DaemonDrops(r) \/ ContainerDies(r)
          \/ Execute(r) \/ CallStep(r) \/ Cancelled(r) \/ Removal(r)
          \/ CleanupRun(r) \/ SweepNext(r)
    \/ Shutdown \/ Reap \/ Stopped \/ Crash \/ Recover \/ Serve

Spec == Init /\ [][Next]_vars

(***************************************************************************)
(* docker run answers, or is given up after 30 s; a tool ends, or is timed *)
(* out; the locks of asyncio are fair.  Nobody owes another tool call.     *)
(***************************************************************************)
Fairness ==
    /\ \A r \in Runs : WF_vars(Removal(r)) /\ SF_vars(CallStep(r)) /\ WF_vars(DaemonCreates(r))

FairSpec == Spec /\ Fairness

-------------------------------------------------------------------------------
(* Properties *)

BoxState    == {"none", "asked", "up"}
RecordState == {"none", "intent", "confirmed"}
CallState   == {"idle", "guard", "intent", "run", "confirm", "undo", "undoShielded",
                "lock", "exec", "drop", "dropShielded"}
RunState    == {"new", "open", "over", "stale", "gone"}
Phase       == {"down", "recovering", "up", "stopping", "reaping"}
Guard       == [by : {"nobody", "call", "service", "sweep"}, run : Runs \union {NoRun},
                at : {"-", "ensure", "known", "look", "rm", "verify"}]

TypeOK ==
    /\ owned \in BOOLEAN
    /\ box \in [Runs -> BoxState]
    /\ work \in [Runs -> BOOLEAN]
    /\ record \in [Runs -> RecordState]
    /\ managed \subseteq Runs /\ boxes \subseteq Runs /\ unsure \subseteq Runs
    /\ attempted \in BOOLEAN
    /\ guard \in Guard
    /\ wlock \in Runs \union {NoRun}
    /\ call \in [Runs -> CallState]
    /\ run \in [Runs -> RunState]
    /\ phase \in Phase
    /\ todo \subseteq Runs /\ blocked \subseteq Runs
    /\ mishaps \in 0..Mishaps /\ stops \in 0..Stops

Held == {r \in Runs : box[r] # "none"}
Gone == {r \in Runs : run[r] = "gone"}

(***************************************************************************)
(* Whatever fails or dies, a container the engine has, or may still make   *)
(* from a request under way, has a durable record: a later process finds   *)
(* it, and none is orphaned.                                               *)
(***************************************************************************)
ContainersAreRecorded == owned => \A r \in Held : record[r] # "none"

(***************************************************************************)
(* Two runs never change the workspace at the same time, across timeouts,  *)
(* cancellations, lost containers and restarts, unless the last removal of *)
(* one of them failed or was itself cut short by a cancellation: the await *)
(* of cleanup_run in _exec is shielded only after a cancellation, once.    *)
(***************************************************************************)
WritersAreExclusive ==
    \A q, r \in Runs : work[q] /\ work[r] /\ q # r => q \in blocked \/ r \in blocked

(***************************************************************************)
(* A cleanup that is confirmed, by the runtime of the run or by the        *)
(* recovery of a later process, leaves nothing in the container engine and *)
(* nothing that could still appear there: the contract RunLifecycle's      *)
(* settlement builds on.                                                   *)
(***************************************************************************)
Contract == INSTANCE SandboxContract WITH held <- Held, confirmed <- Gone

ContractSpec == Contract!Spec

(***************************************************************************)
(* A tool call always comes back: no path that fails waits for the guard   *)
(* it holds itself, and nobody keeps the workspace.                        *)
(***************************************************************************)
CallsReturn == \A r \in Runs : call[r] # "idle" ~> call[r] = "idle"
==============================================================================
