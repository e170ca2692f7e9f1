------------------------------ MODULE Verdicts ------------------------------
(***************************************************************************)
(* How the evaluation harness judges one attempt of an agent task          *)
(* (core/eval/internal.py): what it makes of the tree of runs, of the      *)
(* metered model calls and of the files the agents left, and the order in  *)
(* which these verdicts may only lower the first one.                      *)
(*                                                                         *)
(* A tree is [root, kids, ordered]: the root's row, the sub-agents in the  *)
(* order of their spawn calls, and whether every stage the root asked for  *)
(* had the role expected at its place, was asked for after the stage       *)
(* before had finished, has not failed as a call, and finished before the  *)
(* root.  A kid is [by, open, st]: who asked for it (0 is the root, else   *)
(* its place in kids), whether its spawn call is under way, and its row.   *)
(***************************************************************************)
EXTENDS Naturals, Sequences

CONSTANT Roles     \* stages of the workflow: planner, executor and reviewer are three
ASSUME VerdictsAssumption == Roles \in Nat \ {0}

EvalStatus == {"passed", "failed", "skipped", "error"}
Settled == {"succeeded", "failed", "cancelled"}
RunStatus == {"none", "running"} \cup Settled

\* What the agents left in the workspace: the files the grader expects, with every protected file
\* as it was, or anything else.
Works == {"wrong", "right"}

\* A model call the harness cannot account for: one whose events lack a usage (a compaction, too),
\* a request that only the ledger saw, a call to another model.
Meters == {"whole", "unreported", "retried", "mixed"}

NoTree == [root |-> "none", kids |-> <<>>, ordered |-> TRUE]
Kid(by) == [by |-> by, open |-> TRUE, st |-> "none"]

Kids(t) == DOMAIN t.kids
Stages(t) == {i \in Kids(t) : t.kids[i].by = 0}
Over(t, i) == t.kids[i].st \in Settled
StagesAreOver(t) == \A i \in Stages(t) : Over(t, i)
ActiveRuns(t) == {i \in Kids(t) : t.kids[i].st = "running"} \cup {i \in {0} : t.root = "running"}

\* _EventAccumulator.workflow_followed: the expected roles, each asked for after the one before
\* had finished, all of them successful, the last one finished before the root.
WorkflowFollowed(t) ==
    /\ t.ordered
    /\ Len(SelectSeq(t.kids, LAMBDA k : k.by = 0)) = Roles
    /\ \A i \in Stages(t) : t.kids[i].st = "succeeded"

\* The reason a row gives with its status: none, an error of the model (llm_*), or anything else.
Reasons == {"none", "model", "other"}

\* The candidate verdict of a root that ended by itself (_status_from_outcome).
StatusFromOutcome(root, reason) ==
    IF root = "succeeded" /\ reason = "none" THEN "passed"
    ELSE IF reason = "model" THEN "error" ELSE "failed"

\* Every row is terminal and the registry holds no sub-agent any more.
Terminal(rows, t) == rows /\ t.root \in Settled /\ ActiveRuns(t) = {}

\* The consumption is reported only when every call is accounted for.
UsageKnown(meter) == meter \notin {"unreported", "retried", "mixed"}

\* _apply_pricing: a cost is estimated only from a known consumption, and only if the price list
\* has the model and every rate it needs.
Reported(meter) == IF UsageKnown(meter) THEN {"known", "priced"} ELSE {"unknown"}

\* The rows of the sub-agents; a call that failed before it had one leaves none.
RowsSucceeded(t) == \A i \in Kids(t) : t.kids[i].st \in {"none", "succeeded"}

\* What the rows, the models and the workflow leave of a candidate verdict.
AfterTree(status, orchestrated, rows, t, meter) ==
    LET complete == /\ Terminal(rows, t)
                    /\ RowsSucceeded(t)
                    /\ orchestrated => WorkflowFollowed(t)    \* which takes at least one row
    IN IF status # "passed" THEN status
       ELSE IF meter = "mixed" THEN "error"
       ELSE IF complete THEN "passed" ELSE "failed"

\* _grade and the protected files: the grader looks at a workspace nobody writes any more.
MayGrade(status, rows, t, cleanup) ==
    Terminal(rows, t) /\ cleanup = "confirmed" /\ status \in {"passed", "failed"}
Graded(status, work) == IF status = "passed" /\ work # "right" THEN "failed" ELSE status
=============================================================================
