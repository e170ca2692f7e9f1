------------------------------- MODULE Campaign -------------------------------
(***************************************************************************)
(* The controller of a benchmark campaign (core/eval/appworld.py): one     *)
(* process that, for every task of a schedule, starts a world (a container *)
(* with its network), launches a worker process in it, publishes the       *)
(* output of the worker and counts the result in a checkpoint.  Several    *)
(* coroutines run tasks side by side.  The controller may be killed        *)
(* between any two durable writes; worker processes, containers and docker *)
(* commands survive it, and a restart on the same directory resumes the    *)
(* campaign.  An attempt failed for reasons of the infrastructure is       *)
(* repeated in a fresh world, at most Retries times.                       *)
(***************************************************************************)
EXTENDS Integers, FiniteSets

CONSTANTS Tasks,       \* keys of the schedule
          Lanes,       \* coroutines that run tasks (spec.workers)
          Retries,     \* spec.infrastructure_retries
          MaxCrashes,  \* bound: how often the controller is killed in a run
          MaxFaults    \* bound: failing commands, lost or failing workers, an interrupt,
                       \*        a kill while the controller resumes

None == "none"

ASSUME CampaignAssumption == /\ Retries \in Nat
                             /\ {MaxCrashes, MaxFaults} \subseteq Nat
                             /\ "recovery" \notin Lanes /\ None \notin Tasks

Last     == 1 + Retries
Attempts == 1..Last
NoWorld  == <<>>
NoRow    == [attempt |-> 0, world |-> NoWorld]
NoCommit == [at |-> None]

\* The first world of a lane, and the world it opens to repeat a task.
Base(l)     == <<l>>
Retry(l, t) == <<l, t>>
Worlds == {Base(l) : l \in Lanes} \cup {Retry(l, t) : l \in Lanes, t \in Tasks}

VARIABLES
  checkpoint,  \* checkpoint.json, durable: results, attempts, inflight, worlds
  job,         \* directory of an attempt, durable: process.json and result.json
  proc,        \* the worker process of an attempt
  container,   \* what docker has of a world: network, container, running container
  label,       \* container.json of a world, durable
  cmd,         \* the docker command under way for a world
  canonical,   \* the attempt whose output is published for a task, durable
  staging,     \* directory in which an output is prepared, durable
  ctl,         \* the controller: its phase, stop, interrupted, errors, its outcome
  lane,        \* what each coroutine does
  pending,     \* tasks no coroutine has taken
  todo,        \* what the recovery or the final cleanup has still to treat
  commit,      \* the commit under way: it blocks the event loop
  budget       \* what is left of the bounds

campaignVars == <<checkpoint, job, proc, container, label, cmd, canonical, staging, ctl, lane,
          pending, todo, commit, budget>>
docker  == <<container, label, cmd>>
outputs == <<canonical, staging>>
memory  == <<ctl, lane, pending, todo, commit>>

Row     == [attempt : Attempts, world : Worlds]
Raw     == {"good", "bad", "pause"}   \* scorable, not scorable, a reason to pause
EndedLane == [at |-> "ended", task |-> None, attempt |-> 0, world |-> NoWorld]
Idle(w) == [EndedLane EXCEPT !.at = "idle", !.world = w]
Down    == [phase |-> "down", stop |-> FALSE, interrupted |-> FALSE, errors |-> FALSE,
            outcome |-> None, opened |-> {}]

CampaignTypeOK ==
  /\ checkpoint \in [results : [Tasks -> 0..Last], attempts : [Tasks -> 0..Last],
                     inflight : [Tasks -> Row \cup {NoRow}], worlds : SUBSET Worlds]
  /\ job \in [Tasks -> [Attempts -> [record : {None, "starting", "running", "finished"},
                                     result : Raw \cup {None}, timedOut : BOOLEAN]]]
  /\ proc \in [Tasks -> [Attempts -> {None, "live", "adrift", "dead"}]]
  /\ container \in [Worlds -> {None, "network", "created", "running"}]
  /\ label \in [Worlds -> {None, "intent", "removed"}]
  /\ cmd \in [Worlds -> {None, "network", "create", "start"}]
  /\ canonical \in [Tasks -> 0..Last]
  /\ staging \in [Tasks -> [Attempts -> {None, "bare", "intent"}]]
  /\ ctl.phase \in {"down", "stop", "close", "commit", "run", "cleanup"}
  /\ lane \in [Lanes -> [at : {"idle", "register", "open", "network", "create", "start", "probe",
                               "undo", "enlist", "prepare", "spawn", "note", "wait",
                               "commit", "again", "removed", "ended"},
                         task : Tasks \cup {None}, attempt : 0..Last, world : Worlds \cup {NoWorld}]]
  /\ pending \subseteq Tasks

CampaignInit ==
  /\ checkpoint = [results |-> [t \in Tasks |-> 0], attempts |-> [t \in Tasks |-> 0],
                   inflight |-> [t \in Tasks |-> NoRow], worlds |-> {}]
  /\ job = [t \in Tasks |-> [a \in Attempts |->
              [record |-> None, result |-> None, timedOut |-> FALSE]]]
  /\ proc = [t \in Tasks |-> [a \in Attempts |-> None]]
  /\ container = [w \in Worlds |-> None] /\ label = container /\ cmd = container
  /\ canonical = [t \in Tasks |-> 0]
  /\ staging = proc
  /\ ctl = Down
  /\ lane = [l \in Lanes |-> EndedLane]
  /\ pending = {} /\ todo = {} /\ commit = NoCommit
  /\ budget = [crashes |-> MaxCrashes, faults |-> MaxFaults]

Fault == budget.faults > 0 /\ budget' = [budget EXCEPT !.faults = @ - 1]

-----------------------------------------------------------------------------
(* Worker processes and docker: what goes on whether the controller lives. *)

Live(t, a) == proc[t][a] = "live"

\* The coroutine that launched it could not note it or not kill it, and is over.
Adrift(t, a) == proc[t][a] = "adrift"

AtWork(t, a) == Live(t, a) \/ Adrift(t, a)

WriteResult(t, a) ==
  /\ AtWork(t, a) /\ job[t][a].result = None
  /\ \E raw \in Raw :
       /\ job' = [job EXCEPT ![t][a].result = raw]
       /\ IF raw = "good" THEN UNCHANGED budget ELSE Fault
  /\ UNCHANGED <<checkpoint, proc, docker, outputs, memory>>

\* After its result, or without one when it is lost.
Exit(t, a) ==
  /\ AtWork(t, a)
  /\ IF job[t][a].result # None THEN UNCHANGED budget ELSE Fault
  /\ proc' = [proc EXCEPT ![t][a] = "dead"]
  /\ UNCHANGED <<checkpoint, job, docker, outputs, memory>>

Grown(c) == CASE c = "network" -> "network" [] c = "create" -> "created" [] c = "start" -> "running"

\* A command whose controller was killed still takes effect, or does not.
Orphaned(w) == cmd[w] # None /\ \A l \in Lanes : lane[l].world # w

Docker(w) ==
  /\ Orphaned(w)
  /\ \E b \in {container[w], Grown(cmd[w])} : container' = [container EXCEPT ![w] = b]
  /\ cmd' = [cmd EXCEPT ![w] = None]
  /\ UNCHANGED <<checkpoint, job, proc, label, outputs, memory, budget>>

-----------------------------------------------------------------------------
(* Closing a world: its container, then its network, then the durable word *)
(* that nothing is left.  A command still under way belongs to a name that *)
(* is given up: what it creates later is never started.                    *)

Kept(w) == label[w] = "intent"

\* _record replaces the file that outlives the controller.
Notes(w, phase) == label' = [label EXCEPT ![w] = phase]

\* _find_container, by its identity or, when docker's answer was lost, by its name
Found(w) == container[w] \in {"created", "running"}

RemoveBox(w) ==
  /\ Kept(w) /\ Found(w)
  /\ container' = [container EXCEPT ![w] = "network"]
  /\ cmd' = [cmd EXCEPT ![w] = None]
  /\ UNCHANGED label

RemoveNetwork(w) ==
  /\ Kept(w) /\ ~Found(w)
  /\ container' = [container EXCEPT ![w] = None]
  /\ cmd' = [cmd EXCEPT ![w] = None]
  /\ Notes(w, "removed")

-----------------------------------------------------------------------------
(* Committing an attempt.  No await: only a crash can come between.        *)

Step(at) == commit' = [commit EXCEPT !.at = at]
Put(dir)  == staging' = [staging EXCEPT ![commit.task][commit.attempt] = dir]
Staged    == staging[commit.task][commit.attempt]

BeginCommit(by, t, a, raw) ==
  commit' = [by |-> by, task |-> t, attempt |-> a, raw |-> raw,
             at |-> IF raw = "good" THEN "check" ELSE "record"]

\* What exists already must belong to this attempt.
PublishRefused ==
  \/ canonical[commit.task] \notin {0, commit.attempt}
  \/ canonical[commit.task] = 0 /\ Staged = "bare"

Publish ==
  /\ commit # NoCommit
  /\ \/ /\ commit.at = "check" /\ ~PublishRefused
        /\ Step(IF canonical[commit.task] # 0 THEN "record"
                 ELSE IF Staged = None THEN "mkdir" ELSE "clear")
        /\ UNCHANGED outputs
     \/ commit.at = "clear"   /\ Step("cleared") /\ Put("bare")   /\ UNCHANGED canonical
     \/ commit.at = "cleared" /\ Step("mkdir")   /\ Put(None)     /\ UNCHANGED canonical
     \/ commit.at = "mkdir"   /\ Step("intent")  /\ Put("bare")   /\ UNCHANGED canonical
     \/ commit.at = "intent"  /\ Step("rename")  /\ Put("intent") /\ UNCHANGED canonical
     \/ /\ commit.at = "rename" /\ Step("record") /\ Put(None)
        /\ canonical' = [canonical EXCEPT ![commit.task] = commit.attempt]
  /\ UNCHANGED <<checkpoint, job, proc, docker, ctl, lane, pending, todo, budget>>

Counted(t, a, raw) ==
  [checkpoint EXCEPT !.results[t] = IF raw = "good" THEN a ELSE @,
                     !.attempts[t] = @ + 1, !.inflight[t] = NoRow]

\* The end of a commit and of what follows it in its coroutine.
Record ==
  /\ commit # NoCommit /\ commit.at = "record"
  /\ checkpoint' = Counted(commit.task, commit.attempt, commit.raw)
  /\ ctl' = [ctl EXCEPT !.stop = @ \/ commit.raw = "pause"]
  /\ commit' = NoCommit
  /\ IF commit.by \in Lanes
     THEN /\ lane' = [lane EXCEPT ![commit.by] =
                        IF commit.raw = "bad" THEN [@ EXCEPT !.at = "again"] ELSE Idle(@.world)]
          /\ UNCHANGED todo
     ELSE todo' = todo \ {commit.task} /\ UNCHANGED lane
  /\ UNCHANGED <<job, proc, docker, outputs, pending, budget>>

\* The exception ends the coroutine, or the recovery and with it the controller.
Refuse ==
  /\ commit # NoCommit /\ commit.at = "check" /\ PublishRefused
  /\ commit' = NoCommit
  /\ IF commit.by \in Lanes
     THEN /\ ctl' = [ctl EXCEPT !.stop = TRUE, !.errors = TRUE]
          /\ lane' = [lane EXCEPT ![commit.by] = EndedLane]
          /\ UNCHANGED todo
     ELSE ctl' = [Down EXCEPT !.outcome = "refused"] /\ todo' = {} /\ UNCHANGED lane
  /\ UNCHANGED <<checkpoint, job, proc, docker, outputs, pending, budget>>

-----------------------------------------------------------------------------
(* Starting the controller: old workers first, then old worlds, then the   *)
(* attempts that were under way.                                           *)

Inflight == {t \in Tasks : checkpoint.inflight[t] # NoRow}
RowOf(t) == checkpoint.inflight[t]

Start ==
  /\ ctl.phase = "down"
  /\ ctl' = [Down EXCEPT !.phase = "stop"]
  /\ todo' = Inflight
  /\ UNCHANGED <<checkpoint, job, proc, docker, outputs, lane, pending, commit, budget>>

\* A worker is found by the identity on record, or, when the controller died
\* before it could note one, by its command line.
HasRecord(t, a) == job[t][a].record \in {"starting", "running"}

StopWorker(t) ==
  /\ ctl.phase = "stop" /\ t \in todo
  /\ LET a == RowOf(t).attempt IN
     \/ /\ todo' = todo \ {t}
        /\ IF HasRecord(t, a) /\ AtWork(t, a)
           THEN /\ proc' = [proc EXCEPT ![t][a] = "dead"]
                /\ job' = [job EXCEPT ![t][a].record = "finished"]
           ELSE UNCHANGED <<proc, job>>
        /\ UNCHANGED <<ctl, budget>>
     \/ /\ HasRecord(t, a) /\ AtWork(t, a) /\ Fault   \* its exit is not confirmed
        /\ ctl' = [Down EXCEPT !.outcome = "refused"] /\ todo' = {}
        /\ UNCHANGED <<proc, job>>
  /\ UNCHANGED <<checkpoint, docker, outputs, lane, pending, commit>>

NextPhase ==
  /\ todo = {} /\ commit = NoCommit
  /\ \/ /\ ctl.phase = "stop" /\ ctl' = [ctl EXCEPT !.phase = "close"]
        /\ todo' = {w \in checkpoint.worlds : Kept(w)}
        /\ UNCHANGED <<lane, pending>>
     \/ /\ ctl.phase = "close" /\ ctl' = [ctl EXCEPT !.phase = "commit"]
        /\ todo' = Inflight
        /\ UNCHANGED <<lane, pending>>
     \/ /\ ctl.phase = "commit" /\ ctl' = [ctl EXCEPT !.phase = "run"]
        /\ pending' = {t \in Tasks : checkpoint.results[t] = 0}
        /\ lane' = [l \in Lanes |-> IF pending' = {} THEN EndedLane ELSE Idle(NoWorld)]
        /\ UNCHANGED todo
  /\ UNCHANGED <<checkpoint, job, proc, docker, outputs, commit, budget>>

\* world.close of the recovery, and of the cleanup that ends every run; a world whose
\* record says it was removed needs nothing.
CloseWorld(w) ==
  /\ ctl.phase \in {"close", "cleanup"} /\ w \in todo
  /\ \/ RemoveBox(w) /\ UNCHANGED <<todo, ctl, budget>>
     \/ RemoveNetwork(w) /\ todo' = todo \ {w} /\ UNCHANGED <<ctl, budget>>
     \/ /\ Fault                                 \* docker fails
        /\ IF ctl.phase = "close"
           THEN ctl' = [Down EXCEPT !.outcome = "refused"] /\ todo' = {}
           ELSE ctl' = [ctl EXCEPT !.errors = TRUE] /\ todo' = todo \ {w}
        /\ UNCHANGED docker
  /\ UNCHANGED <<checkpoint, job, proc, outputs, lane, pending, commit>>

\* Defect: an attempt whose controller died counts as failed.
LostWithController(t, a) == "bad"

\* The result a worker left behind counts although its controller died.
LeftBehind(t, a) == IF job[t][a].result = None THEN "bad" ELSE job[t][a].result

RecoverAttempt(t) ==
  /\ ctl.phase = "commit" /\ t \in todo /\ commit = NoCommit
  /\ BeginCommit("recovery", t, RowOf(t).attempt, LeftBehind(t, RowOf(t).attempt))
  /\ UNCHANGED <<checkpoint, job, proc, docker, outputs, ctl, lane, pending, todo, budget>>

-----------------------------------------------------------------------------
(* A coroutine.                                                            *)

Runs(l, at) == ctl.phase = "run" /\ commit = NoCommit /\ lane[l].at = at
Go(l, at)   == lane' = [lane EXCEPT ![l].at = at]
Fails(l)    == lane' = [lane EXCEPT ![l] = EndedLane] /\ ctl' = [ctl EXCEPT !.stop = TRUE, !.errors = TRUE]

Take(l) ==
  /\ Runs(l, "idle") /\ ~ctl.stop
  /\ \E t \in pending :
       /\ pending' = pending \ {t}
       /\ IF checkpoint.attempts[t] >= Last
          THEN Fails(l)                                     \* infrastructure retries exhausted
          ELSE /\ lane' = [lane EXCEPT ![l] =
                    [task |-> t, attempt |-> checkpoint.attempts[t] + 1,
                     at |-> IF @.world = NoWorld THEN "register" ELSE "enlist",
                     world |-> IF @.world = NoWorld THEN Base(l) ELSE @.world]]
               /\ UNCHANGED ctl
  /\ UNCHANGED <<checkpoint, job, proc, docker, outputs, todo, commit, budget>>

LaneEnds(l) ==
  /\ Runs(l, "idle") /\ (ctl.stop \/ pending = {})
  /\ lane' = [lane EXCEPT ![l] = EndedLane]
  /\ UNCHANGED <<checkpoint, job, proc, docker, outputs, ctl, pending, todo, commit, budget>>

\* Defect: the world is known to the running controller only.
RegisterInMemory(l) ==
  /\ Runs(l, "register")
  /\ ctl' = [ctl EXCEPT !.opened = @ \cup {lane[l].world}]
  /\ Go(l, "open")
  /\ UNCHANGED <<checkpoint, job, proc, docker, outputs, pending, todo, commit, budget>>

\* The world is in the checkpoint before docker hears of it.
Register(l) ==
  /\ Runs(l, "register")
  /\ checkpoint' = [checkpoint EXCEPT !.worlds = @ \cup {lane[l].world}]
  /\ ctl' = [ctl EXCEPT !.opened = @ \cup {lane[l].world}]
  /\ Go(l, "open")
  /\ UNCHANGED <<job, proc, docker, outputs, pending, todo, commit, budget>>

After(at) == CASE at = "open" -> "network" [] at = "network" -> "create"
               [] at = "create" -> "start" [] at = "start" -> "probe"
Ask(w, c) == cmd' = [cmd EXCEPT ![w] = IF c = "probe" THEN None ELSE c]

\* The names are on disk before the first command.
Open(l) ==
  /\ Runs(l, "open")
  /\ Notes(lane[l].world, "intent")
  /\ Ask(lane[l].world, "network") /\ Go(l, "network")
  /\ UNCHANGED <<checkpoint, job, proc, container, outputs, ctl, pending, todo, commit, budget>>

\* Each command has its answer before the next.
Commanding(l) == \E at \in {"network", "create", "start"} : Runs(l, at)

Build(l) ==
  /\ Commanding(l) /\ ~ctl.interrupted
  /\ LET w == lane[l].world IN
     /\ container' = [container EXCEPT ![w] = Grown(cmd[w])]
     /\ Ask(w, After(lane[l].at)) /\ Go(l, After(lane[l].at))
  /\ UNCHANGED <<checkpoint, job, proc, label, outputs, ctl, pending, todo, commit, budget>>

Ready(l) ==
  /\ Runs(l, "probe") /\ ~ctl.interrupted /\ Go(l, "enlist")
  /\ UNCHANGED <<checkpoint, job, proc, docker, outputs, ctl, pending, todo, commit, budget>>

\* A command fails, with or without its effect; a world does not answer; or an interrupt
\* is seen, once the command under way has its answer.  The world is closed then.
GiveUpWorld(l) ==
  /\ LET w == lane[l].world IN
     \/ /\ Commanding(l) /\ Fault /\ Ask(w, "probe")
        /\ \E b \in {container[w], Grown(cmd[w])} : container' = [container EXCEPT ![w] = b]
     \/ /\ Commanding(l) /\ ctl.interrupted /\ Ask(w, "probe") /\ UNCHANGED budget
        /\ container' = [container EXCEPT ![w] = Grown(cmd[w])]
     \/ Runs(l, "probe") /\ Fault /\ UNCHANGED <<container, cmd>>
     \/ Runs(l, "probe") /\ ctl.interrupted /\ UNCHANGED <<container, cmd, budget>>
  /\ Go(l, "undo")
  /\ UNCHANGED <<checkpoint, job, proc, label, outputs, ctl, pending, todo, commit>>

Undo(l) ==
  /\ Runs(l, "undo")
  /\ LET w == lane[l].world IN
     \/ RemoveBox(w) /\ UNCHANGED <<lane, ctl, budget>>
     \/ RemoveNetwork(w) /\ Fails(l) /\ UNCHANGED budget
     \/ Fails(l) /\ Fault /\ UNCHANGED docker               \* docker fails again
  /\ UNCHANGED <<checkpoint, job, proc, outputs, pending, todo, commit>>

\* The attempt is in the checkpoint before its directory and its process exist.
Enlist(l) ==
  /\ Runs(l, "enlist")
  /\ checkpoint' = [checkpoint EXCEPT !.inflight[lane[l].task] =
                      [attempt |-> lane[l].attempt, world |-> lane[l].world]]
  /\ Go(l, "prepare")
  /\ UNCHANGED <<job, proc, docker, outputs, ctl, pending, todo, commit, budget>>

Mark(l, phase) == job' = [job EXCEPT ![lane[l].task][lane[l].attempt].record = phase]
Mine(l)        == proc[lane[l].task][lane[l].attempt]

Prepare(l) ==
  /\ Runs(l, "prepare") /\ Mark(l, "starting") /\ Go(l, "spawn")
  /\ UNCHANGED <<checkpoint, proc, docker, outputs, ctl, pending, todo, commit, budget>>

Launch(l) ==
  /\ Runs(l, "spawn")
  /\ \/ /\ proc' = [proc EXCEPT ![lane[l].task][lane[l].attempt] = "live"]
        /\ Go(l, "note")
        /\ UNCHANGED <<ctl, budget>>
     \/ Fault /\ Fails(l) /\ UNCHANGED proc                 \* no process
  /\ UNCHANGED <<checkpoint, job, docker, outputs, pending, todo, commit>>

NoteIdentity(l) ==
  /\ Runs(l, "note") /\ Mark(l, "running") /\ Go(l, "wait")
  /\ UNCHANGED <<checkpoint, proc, docker, outputs, ctl, pending, todo, commit, budget>>

\* The identity of a worker cannot be told or not be written, at its time limit or at an
\* interrupt it cannot be killed, or its end cannot be noted: the coroutine ends without
\* waiting for it, and the attempt stays under way.
LosesWorker(l) ==
  /\ \E at \in {"note", "wait"} : Runs(l, at)
  /\ Fault /\ Fails(l)
  /\ proc' = [proc EXCEPT ![lane[l].task][lane[l].attempt] = IF @ = "live" THEN "adrift" ELSE @]
  /\ UNCHANGED <<checkpoint, job, docker, outputs, pending, todo, commit>>

WorkerDone(l) ==
  /\ Runs(l, "wait") /\ Mine(l) = "dead"
  /\ Mark(l, "finished") /\ Go(l, "commit")
  /\ BeginCommit(l, lane[l].task, lane[l].attempt, LeftBehind(lane[l].task, lane[l].attempt))
  /\ UNCHANGED <<checkpoint, proc, docker, outputs, ctl, pending, todo, budget>>

\* Defect: no time limit for a worker that lost its connection.
WorkerHangs(l) == FALSE

\* The time limit: the worker is killed and its attempt failed, whatever it wrote.
WorkerTimesOut(l) ==
  /\ Runs(l, "wait") /\ Mine(l) = "live"
  /\ proc' = [proc EXCEPT ![lane[l].task][lane[l].attempt] = "dead"]
  /\ job' = [job EXCEPT ![lane[l].task][lane[l].attempt] =
               [@ EXCEPT !.record = "finished", !.timedOut = TRUE]]
  /\ Go(l, "commit")
  /\ BeginCommit(l, lane[l].task, lane[l].attempt, "bad")
  /\ UNCHANGED <<checkpoint, docker, outputs, ctl, pending, todo, budget>>

\* An interrupt kills the worker and leaves its attempt for the next start.
WorkerInterrupted(l) ==
  /\ Runs(l, "wait") /\ ctl.interrupted
  /\ proc' = [proc EXCEPT ![lane[l].task][lane[l].attempt] = "dead"]
  /\ Mark(l, "finished") /\ Fails(l)
  /\ UNCHANGED <<checkpoint, docker, outputs, pending, todo, commit, budget>>

\* After a failed attempt: its world is closed, and the last one ends the campaign.
CloseOwn(l) ==
  /\ Runs(l, "again")
  /\ LET w == lane[l].world IN
     \/ RemoveBox(w) /\ UNCHANGED <<lane, ctl, budget>>
     \/ RemoveNetwork(w) /\ Go(l, "removed") /\ UNCHANGED <<ctl, budget>>
     \/ Fails(l) /\ Fault /\ UNCHANGED docker
  /\ UNCHANGED <<checkpoint, job, proc, outputs, pending, todo, commit>>

TryAgain(l) ==
  /\ Runs(l, "removed")
  /\ IF ctl.interrupted THEN Fails(l)
     ELSE IF lane[l].attempt > Retries
     THEN lane' = [lane EXCEPT ![l] = Idle(@.world)] /\ ctl' = [ctl EXCEPT !.stop = TRUE]
     ELSE /\ lane' = [lane EXCEPT ![l].at = "register", ![l].attempt = @ + 1,
                                  ![l].world = Retry(l, lane[l].task)]
          /\ UNCHANGED ctl
  /\ UNCHANGED <<checkpoint, job, proc, docker, outputs, pending, todo, commit, budget>>

-----------------------------------------------------------------------------
(* The end of a run.                                                       *)

InterruptController ==
  /\ ctl.phase = "run" /\ ~ctl.interrupted /\ commit = NoCommit
  /\ Fault
  /\ ctl' = [ctl EXCEPT !.interrupted = TRUE, !.stop = TRUE]
  /\ UNCHANGED <<checkpoint, job, proc, docker, outputs, lane, pending, todo, commit>>

LanesDone ==
  /\ ctl.phase = "run" /\ \A l \in Lanes : lane[l].at = "ended"
  /\ ctl' = [ctl EXCEPT !.phase = "cleanup"]
  /\ todo' = {w \in ctl.opened : Kept(w)}
  /\ UNCHANGED <<checkpoint, job, proc, docker, outputs, lane, pending, commit, budget>>

AllScored == \A t \in Tasks : checkpoint.results[t] # 0

\* score_outputs, in a container of its own, may fail.
Score ==
  \/ ctl' = [Down EXCEPT !.outcome = "complete"] /\ UNCHANGED budget
  \/ ctl' = [Down EXCEPT !.outcome = "incomplete"] /\ Fault

\* Official scoring runs only when every task has a result and nothing failed.
ReportCampaign ==
  /\ ctl.phase = "cleanup" /\ todo = {}
  /\ IF AllScored /\ ~ctl.errors /\ ~ctl.interrupted
     THEN Score
     ELSE ctl' = [Down EXCEPT !.outcome = "incomplete"] /\ UNCHANGED budget
  /\ lane' = [l \in Lanes |-> EndedLane]
  /\ pending' = {}
  /\ UNCHANGED <<checkpoint, job, proc, docker, outputs, todo, commit>>

Crash ==
  /\ \/ /\ ctl.phase \in {"run", "cleanup"} /\ budget.crashes > 0
        /\ budget' = [budget EXCEPT !.crashes = @ - 1]
     \/ ctl.phase \in {"stop", "close", "commit"} /\ Fault
  /\ ctl' = Down
  /\ lane' = [l \in Lanes |-> EndedLane]
  /\ pending' = {} /\ todo' = {} /\ commit' = NoCommit
  /\ UNCHANGED <<checkpoint, job, proc, docker, outputs>>

Environment == \/ \E t \in Tasks, a \in Attempts : WriteResult(t, a) \/ Exit(t, a)
               \/ \E w \in Worlds : Docker(w)

Recovery == \/ \E t \in Tasks : StopWorker(t) \/ RecoverAttempt(t)
            \/ NextPhase

Coroutine(l) ==
  \/ Take(l) \/ LaneEnds(l) \/ Register(l) \/ Open(l) \/ Build(l) \/ Ready(l) \/ GiveUpWorld(l) \/ Undo(l)
  \/ Enlist(l) \/ Prepare(l) \/ Launch(l) \/ NoteIdentity(l)
  \/ LosesWorker(l) \/ WorkerDone(l) \/ WorkerTimesOut(l) \/ WorkerInterrupted(l) \/ CloseOwn(l) \/ TryAgain(l)

Committing == Publish \/ Record \/ Refuse
Finishing  == LanesDone \/ ReportCampaign \/ \E w \in Worlds : CloseWorld(w)

CampaignNext ==
  \/ Environment \/ Start \/ Recovery \/ Committing \/ Finishing
  \/ InterruptController \/ Crash
  \/ \E l \in Lanes : Coroutine(l)

CampaignSpec == CampaignInit /\ [][CampaignNext]_campaignVars

-----------------------------------------------------------------------------
(* Properties.                                                             *)

\* A worker process at work is the attempt the checkpoint has under way for its task, and the
\* only worker of its world.  That world runs as long as the worker does, unless the coroutine
\* gave its worker up: the cleanup removes the world of such a worker under its feet, and only
\* the next start stops it.  (A restart stops the workers a killed controller left, also those
\* whose identity is not on record, before it touches their worlds.)
WorkersKeepTheirWorld ==
  \A t \in Tasks, a \in Attempts : AtWork(t, a) =>
    /\ RowOf(t) # NoRow /\ RowOf(t).attempt = a
    /\ Live(t, a) => container[RowOf(t).world] = "running"
    /\ \A u \in Tasks \ {t} : (\E b \in Attempts : AtWork(u, b)) => RowOf(u).world # RowOf(t).world

\* The work of a worker that wrote a scorable result in time is counted, whenever the controller
\* was killed: no later attempt of the task is launched, and the result that the checkpoint counts
\* is the one published.  (The result file outlives the controller, and publishing comes before
\* counting and can be repeated.)
ScoredWorkIsKept ==
  \A t \in Tasks :
    /\ checkpoint.results[t] # 0 => canonical[t] = checkpoint.results[t]
    /\ \A a, b \in Attempts :
         job[t][a].result = "good" /\ ~job[t][a].timedOut /\ a < b => job[t][b].record = None

\* When a campaign reports that it is complete, no worker process and no running world is left,
\* whatever earlier runs on the same directory were killed in the middle of.
CompleteRunsLeaveNothing ==
  ctl.outcome = "complete" =>
    /\ \A t \in Tasks, a \in Attempts : ~AtWork(t, a)
    /\ \A w \in Worlds : container[w] # "running"

\* Workers are at work only where the records say, and not at all once the campaign is complete.
WorkersAreKnown == CampaignTypeOK /\ WorkersKeepTheirWorld /\ CompleteRunsLeaveNothing

\* A controller that is started never waits for ever: also when a worker hangs, docker fails or
\* the user interrupts it, one of its own steps leads on.  (No step goes
\* back, so this is what brings every run to its end.)
ControllerGoesOn ==
  ctl.phase # "down" =>
    ENABLED (Recovery \/ Committing \/ Finishing \/ (\E l \in Lanes : Coroutine(l)))

=============================================================================
