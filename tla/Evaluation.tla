----------------------------- MODULE Evaluation -----------------------------
(***************************************************************************)
(* The internal evaluation harness: EvaluationRunner plays the attempts of *)
(* a suite one after the other, each under a guard timer.  An attempt is   *)
(* either an agent task, run by a private RuntimeService in a temporary    *)
(* workspace whose files become evidence, or a runtime case, one pytest    *)
(* process.  The timers, Ctrl-C, an agent that is still at work and every  *)
(* step that may fail meet the closing of the attempt, which must neither  *)
(* be cut short nor certify what did not happen.  Each step of the         *)
(* synchronous ending is an action of its own: the process may be killed   *)
(* between two of them, and the invariants say what is on disk then.       *)
(***************************************************************************)
EXTENDS Verdicts, FiniteSets

CONSTANTS
    MaxKids,       \* sub-agents of an attempt
    Suites         \* manifests: [kind, attempts], attempts being tasks times repetitions

ASSUME EvaluationAssumption ==
    /\ MaxKids \in Nat
    /\ Suites \subseteq [kind : {"case", "single", "orchestrated"}, attempts : Nat \ {0}]

VARIABLES
    suite,         \* the manifest under way; never changes
    stage,         \* where the runner is
    results,       \* EvaluationRunner.run's attempts: verdict and attempt.json on disk
    guard,         \* the runner's timer around the attempt: "off", "armed" or "fired"
    interrupted,   \* Ctrl-C was pressed
    att,           \* run_attempt's local variables
    tree, box, work, meter,   \* the runs of the attempt, their container, files and model calls
    disk,          \* the temporary directory, the evidence directory and its attempt.json
    context,       \* whose working directory and TARS_HOME the process has
    test,          \* the pytest process, its descendants, and whether one holds its output
    exit           \* the exit code of `tars eval run`

evaluationVars == <<suite, stage, results, guard, interrupted, att, tree, box, work, meter, disk, context,
          test, exit>>
ledger == <<suite, results, exit>>
agents == <<tree, box, work, meter>>
signals == <<guard, interrupted>>

NoTest == [process |-> "none", child |-> "none", holds |-> FALSE]
Fresh == [status |-> "error", cancelled |-> FALSE, built |-> "none", cleanup |-> "unknown",
          rows |-> FALSE, usage |-> "unknown", graded |-> FALSE, copied |-> FALSE]
Result(verdict, record) == [verdict |-> verdict, record |-> record]

Started == att.built = "service"
Closing == {"close runs", "close boxes", "close rows"}
AwaitingAgent == {"prepare", "run", "read"} \cup Closing
AwaitingTest == {"test", "drain"}
Orchestrated == suite.kind = "orchestrated"

-----------------------------------------------------------------------------
(* The suite                                                               *)

EvaluationInit ==
    /\ suite \in Suites
    /\ stage = "setup" /\ results = <<>> /\ guard = "off" /\ interrupted = FALSE
    /\ att = Fresh /\ tree = NoTree /\ box = FALSE /\ work = "wrong" /\ meter = "whole"
    /\ disk = [temporary |-> "gone", evidence |-> "none", record |-> "none"]
    /\ context = "own" /\ test = NoTest /\ exit = "none"

\* prepare_tasks: the pre-flight of the sandbox or the list of allowed cases.
PrepareTasks ==
    /\ stage = "setup"
    /\ \/ stage' = "idle" /\ UNCHANGED results
       \/ \E verdict \in {"skipped", "error"} :
             results' = <<Result(verdict, "none")>> /\ stage' = "report"
    /\ UNCHANGED <<suite, signals, att, agents, disk, context, test, exit>>

\* Defect: only agents are thought to need a guard around their own timer.
GuardsAgents(k) == k # "case"

\* The guard gives a case ten and an agent task two minutes more than its own timer.
Guards(k) == k \in {"case", "single", "orchestrated"}

\* _isolated_process_context: working directory and TARS_HOME belong to the whole process.
Enters == context' = "isolated"
Leaves == context' = "own"

\* The runner arms the guard and calls the adapter; an agent attempt makes its directories and
\* moves the process into the workspace.
Begin ==
    /\ stage = "idle" /\ Len(results) < suite.attempts
    /\ att' = Fresh /\ tree' = NoTree /\ box' = FALSE /\ work' = "wrong" /\ meter' = "whole"
    /\ test' = NoTest
    /\ guard' = IF Guards(suite.kind) THEN "armed" ELSE "off"
    /\ IF suite.kind = "case"
       THEN stage' = "spawn" /\ UNCHANGED <<disk, context>>
       ELSE /\ stage' = "prepare" /\ Enters
            /\ disk' = [temporary |-> "whole", evidence |-> "empty", record |-> "none"]
    /\ UNCHANGED <<ledger, interrupted>>

\* What the runner appends when the adapter returns or raises.
Recorded(verdict, record) ==
    /\ results' = IF interrupted /\ att.cancelled THEN results
                  ELSE Append(results, Result(verdict, record))
    /\ IF interrupted /\ att.cancelled
       THEN stage' = "ended" /\ exit' = "interrupted"
       ELSE stage' = "idle" /\ UNCHANGED exit
    /\ guard' = "off"

\* The last attempt is over.
AllDone == stage = "idle" /\ Len(results) = suite.attempts /\ stage' = "report"
           /\ UNCHANGED <<ledger, signals, att, agents, disk, context, test>>

\* summarize_attempts as cmd_eval_run reads it.
Clean(rs) == \A i \in DOMAIN rs : rs[i].verdict = "passed"

\* manifest.json, schema.json and result.json, each replaced atomically; without them the command
\* fails.
WriteArtifacts ==
    /\ stage = "report"
    /\ \/ stage' = "written" /\ UNCHANGED exit
       \/ stage' = "ended" /\ exit' = "broken"
    /\ UNCHANGED <<suite, results, signals, att, agents, disk, context, test>>

Report ==
    /\ stage = "written" /\ stage' = "ended"
    /\ exit' = IF Clean(results) THEN "clean" ELSE "unclean"
    /\ UNCHANGED <<suite, results, signals, att, agents, disk, context, test>>

-----------------------------------------------------------------------------
(* The agents of an attempt                                                *)

\* Agents that outlive a failed shutdown only go on writing (Work): nobody looks at their rows.
AgentsMayAct == stage = "run"

\* A run asks for a sub-agent; its calls are sequential, and the root's are stages.
Spawn(by) ==
    /\ AgentsMayAct /\ Orchestrated /\ by \in ActiveRuns(tree) /\ Len(tree.kids) < MaxKids
    /\ \A i \in Kids(tree) : tree.kids[i].by = by => ~tree.kids[i].open
    /\ \E fits \in BOOLEAN :
          tree' = [tree EXCEPT !.kids = Append(@, Kid(by)),
                               !.ordered = @ /\ (by = 0 => fits /\ StagesAreOver(tree))]
    /\ UNCHANGED <<ledger, stage, signals, att, box, work, meter, disk, context, test>>

KidStarts(i) ==
    /\ AgentsMayAct
    /\ tree.kids[i].st = "none" /\ tree.kids[i].open
    /\ tree.kids[i].by \in ActiveRuns(tree)
    /\ tree' = [tree EXCEPT !.kids[i].st = "running"]
    /\ UNCHANGED <<ledger, stage, signals, att, box, work, meter, disk, context, test>>

\* A background spawn answers at once, a foreground one with the sub-agent's end.
CallEnds(i, ok) ==
    /\ AgentsMayAct
    /\ tree.kids[i].open /\ tree.kids[i].by \in ActiveRuns(tree)
    /\ ok => tree.kids[i].st # "none"
    /\ tree' = [tree EXCEPT !.kids[i].open = FALSE, !.ordered = @ /\ (i \in Stages(tree) => ok)]
    /\ UNCHANGED <<ledger, stage, signals, att, box, work, meter, disk, context, test>>

KidEnds(i, st) ==
    /\ AgentsMayAct
    /\ tree.kids[i].st = "running"
    /\ tree' = [tree EXCEPT !.kids[i].st = st]
    /\ UNCHANGED <<ledger, stage, signals, att, box, work, meter, disk, context, test>>

RootEnds(st) ==
    /\ AgentsMayAct /\ tree.root = "running"
    /\ \A i \in Stages(tree) : ~tree.kids[i].open
    /\ tree' = [tree EXCEPT !.root = st, !.ordered = @ /\ StagesAreOver(tree)]
    /\ UNCHANGED <<ledger, stage, signals, att, box, work, meter, disk, context, test>>

\* Nobody looks at files, container and model calls before the closing, so what the agents did
\* until then is chosen at its start.  Runs and containers that survive the closing go on writing.
Work ==
    /\ \/ stage = "close runs" /\ Started
       \/ stage \notin AwaitingAgent /\ (ActiveRuns(tree) # {} \/ box)
    /\ work' \in Works /\ box' \in IF stage = "close runs" THEN BOOLEAN ELSE {box}
    /\ UNCHANGED <<ledger, stage, signals, att, tree, meter, disk, context, test>>

\* A model call whose consumption stays unknown, in the way given.
Unmetered(how) ==
    /\ stage = "close runs" /\ Started /\ meter = "whole" /\ meter' = how
    /\ UNCHANGED <<ledger, stage, signals, att, tree, box, work, disk, context, test>>

Agents ==
    \/ \E by \in ActiveRuns(tree) : Spawn(by)
    \/ \E i \in Kids(tree) : KidStarts(i) \/ (\E ok \in BOOLEAN : CallEnds(i, ok))
    \/ \E i \in Kids(tree), st \in {"succeeded", "failed"} : KidEnds(i, st)
    \/ \E st \in {"succeeded", "failed"} : RootEnds(st)
    \/ Work
    \/ \E how \in Meters \ {"whole"} : Unmetered(how)

-----------------------------------------------------------------------------
(* An agent attempt: up to the verdict of its root                         *)

\* Fixtures, protected paths and the Skill are checked and written.
RefuseInputs ==
    /\ stage = "prepare" /\ att.built = "none" /\ stage' = "close runs"
    /\ UNCHANGED <<ledger, signals, att, agents, disk, context, test>>

\* Without credentials no model is called.
SkipAttempt ==
    /\ stage = "prepare" /\ att.built = "none" /\ stage' = "close runs"
    /\ att' = [att EXCEPT !.status = "skipped"]
    /\ UNCHANGED <<ledger, signals, agents, disk, context, test>>

\* The private runtime is put together: first the container runtime and its pre-flight, then the
\* database, the event hub, the service and the session.  Any of it may fail.
Assembled(built) ==
    /\ stage = "prepare"
    /\ built = (IF att.built = "none" THEN "runtime" ELSE "service")
    /\ \/ att' = [att EXCEPT !.built = built]
          /\ stage' = IF built = "service" THEN "run" ELSE "prepare"
       \/ att' = att /\ stage' = "close runs"
    /\ UNCHANGED <<ledger, signals, agents, disk, context, test>>

Submit ==
    /\ stage = "run" /\ tree.root = "none"
    /\ tree' = [tree EXCEPT !.root = "running"]
    /\ UNCHANGED <<ledger, stage, signals, att, box, work, meter, disk, context, test>>

\* _wait_for_tree: the root, then whatever sub-agents are still at work.
TreeIsOver(t) == t.root \in Settled /\ ActiveRuns(t) = {}

WaitEnds ==
    /\ stage = "run" /\ TreeIsOver(tree) /\ stage' = "read"
    /\ UNCHANGED <<ledger, signals, att, agents, disk, context, test>>

\* The root's row gives the candidate verdict.
ReadOutcome ==
    /\ stage = "read" /\ stage' = "close runs"
    /\ \/ att' = att
       \/ \E reason \in Reasons :
             att' = [att EXCEPT !.status = StatusFromOutcome(tree.root, reason)]
    /\ UNCHANGED <<ledger, signals, agents, disk, context, test>>

\* The task's own timer, around the submission and the wait.
TaskTimesOut ==
    /\ stage = "run" /\ stage' = "close runs"
    /\ UNCHANGED <<ledger, signals, att, agents, disk, context, test>>

-----------------------------------------------------------------------------
(* Closing: it goes on whatever is cancelled meanwhile                     *)

\* Defect: a failed step of the closing leaves the verdict alone.
KeepsVerdict(status, cleanup) == status

\* A pass does not survive a step of the closing that failed.
AfterClosing(status, cleanup) ==
    IF cleanup = "failed" /\ status = "passed" THEN "error" ELSE status

Stopped(t) ==
    LET Cut(st) == IF st = "running" THEN "cancelled" ELSE st
    IN [t EXCEPT !.root = Cut(@), !.kids = [i \in Kids(t) |-> [t.kids[i] EXCEPT !.st = Cut(@)]]]

\* service.shutdown: every run is cancelled and settled, unless the shutdown itself fails.
CloseRuns ==
    /\ stage = "close runs" /\ stage' = "close boxes"
    /\ \/ tree' = Stopped(tree) /\ att' = att
       \/ /\ Started /\ tree' \in {tree, Stopped(tree)}
          /\ att' = [att EXCEPT !.cleanup = "failed"]
    /\ UNCHANGED <<ledger, signals, box, work, meter, disk, context, test>>

\* runtime.cleanup and confirm_cleanup: docker says that nothing of the scope is left.
CloseBoxes ==
    /\ stage = "close boxes" /\ stage' = "close rows"
    /\ \/ /\ att.built # "none" => box' = FALSE
          /\ att.built = "none" => box' = box
          /\ att' = IF att.built = "none" \/ att.cleanup = "failed" THEN att
                    ELSE [att EXCEPT !.cleanup = "confirmed"]
       \/ /\ att.built # "none" /\ box' = box
          /\ att' = [att EXCEPT !.cleanup = "failed"]
    /\ UNCHANGED <<ledger, signals, tree, work, meter, disk, context, test>>

\* hub.stop, then the rows of the session are read and the database closed.  A failed hub counts
\* as a failed closing; unreadable rows end the attempt with an error.
CloseRows ==
    /\ stage = "close rows" /\ stage' = "judge" /\ Leaves
    /\ \E hub \in {"stopped"} \cup (IF Started THEN {"failed", "unreadable"} ELSE {}) :
          LET cleanup == IF hub = "stopped" THEN att.cleanup ELSE "failed"
          IN att' = [att EXCEPT
                 !.cleanup = cleanup, !.rows = Started /\ hub # "unreadable",
                 !.status = IF hub = "unreadable" THEN "error" ELSE AfterClosing(@, cleanup)]
    /\ UNCHANGED <<ledger, signals, agents, disk, test>>

-----------------------------------------------------------------------------
(* The end of an attempt: synchronous, and interrupted only by a kill      *)

\* The tree, the usage, the workflow and the grade, in this order.
Judge ==
    LET status == AfterTree(att.status, Orchestrated, att.rows, tree, meter)
        grades == MayGrade(status, att.rows, tree, att.cleanup)
        judged == IF Started THEN status ELSE att.status
    IN /\ stage = "judge" /\ stage' = "copy"
       /\ \E readable \in BOOLEAN, usage \in IF Started THEN Reported(meter) ELSE {"unknown"} :
             att' = [att EXCEPT
                 !.usage = usage,
                 !.graded = grades /\ readable,
                 !.status = IF ~grades THEN judged
                            ELSE IF readable THEN Graded(judged, work) ELSE "error"]
       /\ UNCHANGED <<ledger, signals, agents, disk, context, test>>

\* Evidence the harness calls complete: everything ("whole"), or every file its walk came to that
\* is no link ("listed").
Copies == {"whole", "listed"}

(***************************************************************************)
(* _copy_evidence walks the temporary directory.  It follows no link and   *)
(* lists those it met; a directory that cannot be listed is passed over    *)
(* without a word, since os.walk is given no onerror.  Only a file that    *)
(* cannot be copied makes it fail, with a part of the evidence on disk.    *)
(***************************************************************************)
CopyEvidence ==
    /\ stage = "copy" /\ stage' = "pending"
    /\ \/ /\ \E evidence \in Copies : disk' = [disk EXCEPT !.evidence = evidence]
          /\ att' = [att EXCEPT !.copied = TRUE]
       \/ disk' = [disk EXCEPT !.evidence = "part"] /\ att' = [att EXCEPT !.status = "error"]
    /\ UNCHANGED <<ledger, signals, agents, context, test>>

\* An explicitly unfinished attempt.json precedes any removal; without it the attempt ends here.
WritePending ==
    /\ stage = "pending"
    /\ \/ /\ disk' = [disk EXCEPT !.record = "pending"] /\ stage' = "remove" /\ UNCHANGED att
       \/ /\ att' = [att EXCEPT !.status = "error"] /\ stage' = "return" /\ UNCHANGED disk
    /\ UNCHANGED <<ledger, signals, agents, context, test>>

\* Defect: the files are removed although their evidence is incomplete.
MayRemoveUncopied(a) == a.built # "service" \/ a.cleanup = "confirmed"

\* Originals go only when they were copied and nothing that could write them is left.
MayRemove(a) == a.copied /\ (a.built # "service" \/ a.cleanup = "confirmed")

\* shutil.rmtree: all of it, or a part, or nothing.
RemoveTemporary ==
    /\ stage = "remove" /\ stage' = "final"
    /\ \/ /\ ~MayRemove(att) /\ UNCHANGED <<att, disk>>
       \/ /\ MayRemove(att)
          /\ disk' = [disk EXCEPT !.temporary = "gone"] /\ att' = att
       \/ /\ MayRemove(att)
          /\ \E left \in {"whole", "part"} : disk' = [disk EXCEPT !.temporary = left]
          /\ att' = [att EXCEPT !.status = IF @ = "passed" THEN "error" ELSE @]
    /\ UNCHANGED <<ledger, signals, agents, context, test>>

\* The final attempt.json replaces the pending one; if that fails the pending one stays.
WriteFinal ==
    /\ stage = "final" /\ stage' = "return"
    /\ \/ disk' = [disk EXCEPT !.record = att.status] /\ att' = att
       \/ disk' = disk /\ att' = [att EXCEPT !.status = "error"]
    /\ UNCHANGED <<ledger, signals, agents, context, test>>

\* A cancelled attempt raises once its record is written; the guard turns that into a timeout.
Return ==
    /\ stage = "return"
    /\ Recorded(IF att.cancelled THEN "error" ELSE att.status, disk.record)
    /\ UNCHANGED <<suite, interrupted, att, agents, disk, context, test>>

-----------------------------------------------------------------------------
(* A runtime case                                                          *)

\* pytest starts in a process group of its own; a test may leave descendants, in the group or
\* out of it, and they may hold its output.
StartTest ==
    /\ stage = "spawn"
    /\ \/ test' = [NoTest EXCEPT !.process = "running"] /\ stage' = "test" /\ UNCHANGED att
       \/ test' = test /\ stage' = "case over" /\ UNCHANGED att
    /\ UNCHANGED <<ledger, signals, agents, disk, context>>

Forks ==
    /\ test.process = "running" /\ test.child = "none"
    /\ \E child \in {"group", "away"}, holds \in BOOLEAN :
          test' = [test EXCEPT !.child = child, !.holds = holds]
    /\ UNCHANGED <<ledger, stage, signals, att, agents, disk, context>>

TestExits ==
    /\ test.process = "running" /\ test' = [test EXCEPT !.process = "over"]
    /\ UNCHANGED <<ledger, stage, signals, att, agents, disk, context>>

ChildExits ==
    /\ test.child # "none" /\ test' = [test EXCEPT !.child = "none", !.holds = FALSE]
    /\ UNCHANGED <<ledger, stage, signals, att, agents, disk, context>>

\* communicate() ends when the process is over and nobody holds its output any more; the JUnit
\* file tells what became of the one test.
TestEnds ==
    /\ stage = "test" /\ test.process = "over" /\ ~test.holds
    /\ \E verdict \in EvalStatus : att' = [att EXCEPT !.status = verdict]
    /\ stage' = "case over"
    /\ UNCHANGED <<ledger, signals, agents, disk, context, test>>

\* _terminate_process_tree: the group of a process that has not ended yet, and nothing otherwise.
TreeKilled(t) ==
    IF t.process # "running" THEN t
    ELSE [t EXCEPT !.process = "killed",
                   !.child = IF @ = "group" THEN "none" ELSE @,
                   !.holds = @ /\ t.child # "group"]

\* The case's own timer: the tree is killed and the rest of the output read, with no limit.
TestTimesOut ==
    /\ stage = "test" /\ stage' = "drain" /\ test' = TreeKilled(test)
    /\ UNCHANGED <<ledger, signals, att, agents, disk, context>>

Drained ==
    /\ stage = "drain" /\ ~test.holds /\ stage' = "case over"
    /\ UNCHANGED <<ledger, signals, att, agents, disk, context, test>>

CaseReturns ==
    /\ stage = "case over"
    /\ Recorded(IF att.cancelled THEN "error" ELSE att.status, "none")
    /\ UNCHANGED <<suite, interrupted, att, agents, disk, context, test>>

-----------------------------------------------------------------------------
(* Cancellation: by the guard timer and by Ctrl-C                          *)

\* Where a cancellation takes the attempt: to its closing, which it never cuts short.
CancelledTo(s) ==
    CASE s \in Closing -> s
      [] s \in AwaitingTest -> "case over"
      [] OTHER -> "close runs"

Cancelled ==
    /\ att' = [att EXCEPT !.cancelled = TRUE, !.status = IF stage \in Closing THEN @ ELSE "error"]
    /\ stage' = CancelledTo(stage)
    /\ test' = IF stage = "test" THEN TreeKilled(test) ELSE test

GuardFires ==
    /\ guard = "armed" /\ stage \in AwaitingAgent \cup AwaitingTest
    /\ guard' = "fired" /\ Cancelled
    /\ UNCHANGED <<ledger, interrupted, agents, disk, context>>

Interrupt ==
    /\ ~interrupted /\ interrupted' = TRUE
    /\ \/ stage \in AwaitingAgent \cup AwaitingTest /\ Cancelled /\ UNCHANGED exit
       \/ stage = "setup" /\ stage' = "ended" /\ exit' = "interrupted" /\ UNCHANGED <<att, test>>
    /\ UNCHANGED <<suite, results, guard, agents, disk, context>>

-----------------------------------------------------------------------------

Attempt ==
    \/ RefuseInputs \/ SkipAttempt \/ (\E built \in {"runtime", "service"} : Assembled(built))
    \/ Submit \/ WaitEnds \/ ReadOutcome \/ CloseRuns \/ CloseBoxes \/ CloseRows
    \/ Judge \/ CopyEvidence \/ WritePending \/ RemoveTemporary \/ WriteFinal \/ Return
Case == StartTest \/ TestEnds \/ Drained \/ CaseReturns
Timers == TaskTimesOut \/ TestTimesOut \/ GuardFires
Runner == PrepareTasks \/ Begin \/ AllDone \/ WriteArtifacts \/ Report

EvaluationNext ==
    Runner \/ Attempt \/ Case \/ Timers \/ Agents \/ Forks \/ TestExits \/ ChildExits \/ Interrupt

\* The event loop runs what is ready and its timers expire; nothing is assumed of agents and tests.
EvaluationSpec ==
    /\ EvaluationInit /\ [][EvaluationNext]_evaluationVars
    /\ WF_evaluationVars(Runner \/ Attempt \/ Case \/ Timers)

-----------------------------------------------------------------------------
(* Properties                                                              *)

EvaluationTypeOK ==
    /\ suite \in Suites /\ guard \in {"off", "armed", "fired"}
    /\ results \in Seq([verdict : EvalStatus, record : EvalStatus \cup {"none", "pending"}])
    /\ interrupted \in BOOLEAN /\ box \in BOOLEAN /\ work \in Works /\ meter \in Meters
    /\ att.status \in EvalStatus /\ tree.root \in RunStatus

\* What a pass promises: the root and every sub-agent that had a row succeeded and have stopped, the
\* workflow was followed, no container is left, and the grader found the files it expects in a
\* workspace nobody wrote any more, with every regular file that could be listed in the evidence.
Earned ==
    /\ tree.root = "succeeded" /\ ActiveRuns(tree) = {} /\ ~box
    /\ RowsSucceeded(tree)
    /\ Orchestrated => WorkflowFollowed(tree)
    /\ work = "right" /\ att.graded /\ disk.evidence \in Copies

\* Reports are earned: neither attempt.json nor the suite's results call an attempt passed that
\* does not deserve it, a known consumption leaves no model call out, and the command exits with 0
\* only when every planned attempt passed.
ReportsAreEarned ==
    /\ disk.record = "passed" => Earned
    /\ suite.kind # "case" =>
          \A i \in DOMAIN results : results[i].verdict = "passed" => results[i].record = "passed"
    /\ att.usage # "unknown" /\ att.cleanup = "confirmed" => meter = "whole"
    /\ exit = "clean" => Len(results) = suite.attempts /\ \A i \in DOMAIN results :
                                                       results[i].verdict = "passed"

\* Evidence outlives the originals: files of an attempt are missing only after a copy that failed at
\* none of the regular files it could list (links, and what lies in a directory that could not be
\* listed, may be gone for good), an attempt.json says so, and no agent or container could write
\* them any more, at every point where the harness may be killed.
EvidenceOutlivesOriginals ==
    suite.kind # "case" /\ disk.evidence # "none" /\ disk.temporary # "whole" =>
        /\ disk.evidence \in Copies /\ disk.record # "none"
        /\ ActiveRuns(tree) = {} /\ ~box

\* Attempts leave nothing behind unreported: once the runner has gone on, the process has its own
\* directory and home again, pytest has ended by itself or was killed with its group, and runs or
\* containers remain only if the attempt said that its cleanup failed.
AttemptsLeaveNothing ==
    stage \in {"idle", "report", "written", "ended"} =>
        /\ context = "own"
        /\ test.process # "running" /\ (test.process = "killed" => test.child # "group")
        /\ att.cleanup = "confirmed" => ActiveRuns(tree) = {} /\ ~box
        /\ (ActiveRuns(tree) # {} \/ box) => att.cleanup = "failed"

\* Whenever the harness is killed: no file is lost that the copy should have kept, and nothing is
\* left that is not reported.
AttemptsAreClean == EvaluationTypeOK /\ EvidenceOutlivesOriginals /\ AttemptsLeaveNothing

\* The suite ends, whatever agents and tests do: a timer unblocks every wait for them. Closing an
\* attempt has no timer of its own: that its steps end is assumed of the fairness.
SuiteEnds == <>(stage = "ended")
=============================================================================
