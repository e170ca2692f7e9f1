---------------------------- MODULE Harness_proofs ----------------------------
(***************************************************************************)
(* What holds of the two programs that run tasks by the hundred and report *)
(* on them: Evaluation, for any cases, agents, sandboxes and copies (what  *)
(* a report counts was earned, and an attempt leaves nothing behind);      *)
(* Campaign, for any tasks, coroutines, retries, crashes and faults (live  *)
(* workers are known, and scored work is kept).                            *)
(***************************************************************************)
EXTENDS Evaluation, Campaign, SequenceTheorems, TLAPS

-------------------------------------------------------------------------------
(* Evaluation: the inductive invariant                                        *)

RunningStages == {"prepare", "run", "read"}
OpenStages == RunningStages \cup {"close runs"}
EndStages  == {"judge", "copy", "pending", "remove", "final", "return"}
AgentStages == OpenStages \cup {"close boxes", "close rows"} \cup EndStages
CaseStages  == {"spawn", "test", "drain", "case over"}
RunnerStages == {"setup", "idle", "report", "written", "ended"}
OverStages   == {"idle", "report", "written", "ended"}

KidType  == [by : Nat, open : BOOLEAN, st : RunStatus]
TreeType == [root : RunStatus, kids : Seq(KidType), ordered : BOOLEAN]
AttemptType ==
  [status : EvalStatus, cancelled : BOOLEAN, built : {"none", "runtime", "service"},
   cleanup : {"unknown", "confirmed", "failed"}, rows : BOOLEAN,
   usage : {"unknown", "known", "priced"}, graded : BOOLEAN, copied : BOOLEAN]
DiskType ==
  [temporary : {"whole", "part", "gone"}, evidence : {"none", "empty", "part", "listed", "whole"},
   record : EvalStatus \cup {"none", "pending"}]
TestType ==
  [process : {"none", "running", "over", "killed"}, child : {"none", "group", "away"}, holds : BOOLEAN]
NoDisk == [temporary |-> "gone", evidence |-> "none", record |-> "none"]

\* The variables EvaluationTypeOK does not type.
EvaluationShape ==
  /\ EvaluationTypeOK
  /\ stage \in AgentStages \cup CaseStages \cup RunnerStages
  /\ att \in AttemptType /\ tree \in TreeType /\ disk \in DiskType /\ test \in TestType
  /\ context \in {"own", "isolated"}
  /\ exit \in {"none", "interrupted", "broken", "clean", "unclean"}

\* A suite has attempts of one kind, and those of a case touch neither agents nor directories.
KindsKeepApart ==
  /\ stage \in AgentStages => suite.kind # "case"
  /\ stage \in CaseStages => suite.kind = "case"
  /\ suite.kind = "case" => disk = NoDisk

\* Agents and containers are at work for a service only.
OnlyServicesWork ==
  /\ stage \in {"run", "read"} => Started
  /\ ~Started => ActiveRuns(tree) = {} /\ ~box

\* What the closing has confirmed by each of its stages.
ClosingIsHonest ==
  /\ stage \in OpenStages => att.cleanup = "unknown"
  /\ stage = "close boxes" => att.cleanup # "confirmed" /\ (att.cleanup = "unknown" => ActiveRuns(tree) = {})
  /\ stage \notin OpenStages \cup {"close boxes"} =>
        /\ att.cleanup # "failed" => ActiveRuns(tree) = {} /\ ~box
        /\ Started => att.cleanup # "unknown"

\* What a passing status stands for, from the root's row to the record.
PassesAreKept ==
  suite.kind # "case" /\ att.status = "passed" =>
    /\ stage \notin RunningStages /\ Started /\ tree.root = "succeeded"
    /\ stage \notin OpenStages \cup {"close boxes", "close rows"} => att.cleanup = "confirmed"
    /\ stage \in EndStages \ {"judge"} =>
          /\ att.graded /\ work = "right" /\ (Orchestrated => WorkflowFollowed(tree))
          /\ RowsSucceeded(tree)
    /\ stage \in {"pending", "remove", "final", "return"} => disk.evidence \in Copies
    /\ stage = "return" => disk.record = "passed"

\* A record calls nothing passed before the end, and stands for a pass that was earned.
RecordsAreLate ==
  /\ stage \in AgentStages \ {"remove", "final", "return"} => disk.record = "none"
  /\ stage \in {"remove", "final"} => disk.record = "pending"
  /\ disk.record = "passed" => Earned

\* Originals are whole until they may go.
OriginalsStay ==
  /\ stage \in AgentStages \ {"final", "return"} => disk.temporary = "whole"
  /\ att.copied => disk.evidence \in Copies
         /\ stage \notin OpenStages \cup {"close boxes", "close rows", "judge", "copy"}
  /\ stage = "setup" => disk.evidence = "none"
  /\ EvidenceOutlivesOriginals

\* Consumption is reported by the judge, when no model call can be added any more.
UsageIsWhole ==
  /\ stage \in OpenStages \cup {"close boxes", "close rows", "judge"} => att.usage = "unknown"
  /\ att.usage # "unknown" => meter = "whole"

\* The process goes home before the attempt is judged, and pytest ends before its case.
NothingIsLeft ==
  /\ stage \notin AwaitingAgent => context = "own"
  /\ test.process = "running" => stage = "test"
  /\ test.process = "killed" => test.child # "group"

\* What the report will say.
ResultsAreEarned ==
  /\ suite.kind # "case" => \A i \in DOMAIN results : results[i].verdict = "passed"
         => results[i].record = "passed"
  /\ stage = "setup" => results = <<>>
  /\ stage \in {"report", "written"} => Len(results) = suite.attempts \/ ~Clean(results)
  /\ exit # "none" => stage = "ended"
  /\ exit = "clean" => Len(results) = suite.attempts /\ Clean(results)

EvaluationInv ==
  /\ EvaluationShape /\ KindsKeepApart /\ OnlyServicesWork /\ ClosingIsHonest /\ PassesAreKept
  /\ RecordsAreLate /\ OriginalsStay /\ UsageIsWhole /\ NothingIsLeft /\ ResultsAreEarned

-------------------------------------------------------------------------------
(* Evaluation: what the trees, the verdicts and the records of the model are. *)

LEMMA StatusIs == /\ EvalStatus = {"passed", "failed", "skipped", "error"}
                  /\ RunStatus = {"none", "running", "succeeded", "failed", "cancelled"}
                  /\ Works = {"wrong", "right"}
                  /\ Meters = {"whole", "unreported", "retried", "mixed"}
  BY DEF EvalStatus, RunStatus, Settled, Works, Meters

LEMMA NothingRunsIs ==
  ASSUME NEW t \in TreeType
  PROVE  /\ Kids(t) = 1..Len(t.kids)
         /\ ActiveRuns(t) = {} <=> t.root # "running" /\ \A i \in Kids(t) : t.kids[i].st # "running"
  BY DEF TreeType, Kids, ActiveRuns

LEMMA NoTreeIs == NoTree \in TreeType /\ ActiveRuns(NoTree) = {}
  <1>1. << >> \in Seq(KidType)
    OBVIOUS
  <1>2. NoTree \in TreeType
    BY <1>1, StatusIs DEF NoTree, TreeType
  <1> QED BY <1>2, NothingRunsIs DEF NoTree, Kids

LEMMA StoppedIs ==
  ASSUME NEW t \in TreeType
  PROVE  /\ Stopped(t) \in TreeType /\ ActiveRuns(Stopped(t)) = {}
         /\ t.root = "succeeded" => Stopped(t).root = "succeeded"
  <1> DEFINE Cut(st) == IF st = "running" THEN "cancelled" ELSE st
             kids == [i \in Kids(t) |-> [t.kids[i] EXCEPT !.st = Cut(@)]]
  <1>1. Kids(t) = 1..Len(t.kids) /\ Len(t.kids) \in Nat /\ \A i \in Kids(t) : t.kids[i] \in KidType
    BY NothingRunsIs DEF TreeType
  <1>2. \A st \in RunStatus : Cut(st) \in RunStatus /\ Cut(st) # "running"
    BY StatusIs
  <1>3. \A i \in Kids(t) : kids[i] \in KidType /\ kids[i].st # "running"
    BY <1>1, <1>2 DEF KidType
  <1>4. kids \in Seq(KidType) /\ Len(kids) = Len(t.kids)
    <2>1. kids \in [1..Len(t.kids) -> KidType]
      BY <1>1, <1>3
    <2> HIDE DEF kids
    <2>2. kids \in Seq(KidType)
      BY <1>1, <2>1, SeqDef
    <2>3. Len(kids) = Len(t.kids)
      BY <1>1, <2>1, <2>2, LenProperties
    <2> QED BY <2>2, <2>3
  <1>5. Stopped(t) = [root |-> Cut(t.root), kids |-> kids, ordered |-> t.ordered]
    <2>1. t = [root |-> t.root, kids |-> t.kids, ordered |-> t.ordered]
      BY DEF TreeType
    <2>2. Stopped(t) = [t EXCEPT !.root = Cut(t.root), !.kids = kids]
      BY <1>1 DEF Stopped
    <2> QED BY <2>1, <2>2
  <1>6. Stopped(t) \in TreeType
    BY <1>2, <1>4, <1>5 DEF TreeType
  <1>7. Stopped(t).root # "running" /\ \A i \in Kids(Stopped(t)) : Stopped(t).kids[i].st # "running"
    BY <1>1, <1>2, <1>3, <1>4, <1>5, <1>6, NothingRunsIs DEF TreeType
  <1>8. t.root = "succeeded" => Stopped(t).root = "succeeded"
    BY <1>5
  <1> QED BY <1>6, <1>7, <1>8, NothingRunsIs

-------------------------------------------------------------------------------
(* Evaluation: agents at work, and the way to the closing.                    *)

\* What agents and the stages before the closing leave alone.
Outside == <<suite, results, exit, guard, interrupted, box, work, meter, disk, context, test>>

LEMMA GrowsTheTree ==
  ASSUME EvaluationInv, stage = "run", tree' \in TreeType, UNCHANGED <<Outside, stage, att>>
  PROVE  EvaluationInv'
  <1> USE DEF EvaluationInv, Outside
  <1>1. EvaluationShape' /\ KindsKeepApart' /\ ResultsAreEarned' /\ UsageIsWhole' /\ NothingIsLeft'
    BY DEF EvaluationShape, EvaluationTypeOK, KindsKeepApart, ResultsAreEarned, UsageIsWhole,
           NothingIsLeft, TreeType
  <1>2. OnlyServicesWork' /\ ClosingIsHonest' /\ PassesAreKept'
    BY DEF OnlyServicesWork, ClosingIsHonest, PassesAreKept, Started, OpenStages, EndStages, RunningStages
  <1>3. RecordsAreLate' /\ OriginalsStay'
    BY DEF RecordsAreLate, OriginalsStay, EvidenceOutlivesOriginals, AgentStages, OpenStages, RunningStages,
       EndStages
  <1> QED BY <1>1, <1>2, <1>3

LEMMA KidChanges ==
  ASSUME NEW i \in Kids(tree), tree \in TreeType, NEW k \in KidType, NEW ordered \in BOOLEAN,
         tree' = [tree EXCEPT !.kids[i] = k, !.ordered = ordered]
  PROVE  tree' \in TreeType
  <1>1. Kids(tree) = 1..Len(tree.kids) /\ tree.kids \in Seq(KidType)
    BY NothingRunsIs DEF TreeType
  <1>2. [tree.kids EXCEPT ![i] = k] \in Seq(KidType)
    BY <1>1
  <1> QED BY <1>2 DEF TreeType

LEMMA AgentKeepsInv ==
  ASSUME EvaluationInv,
         \/ \E by \in ActiveRuns(tree) : Spawn(by)
         \/ \E i \in Kids(tree) : KidStarts(i) \/ (\E ok \in BOOLEAN : CallEnds(i, ok))
         \/ \E i \in Kids(tree), st \in {"succeeded", "failed"} : KidEnds(i, st)
         \/ \E st \in {"succeeded", "failed"} : RootEnds(st)
         \/ Submit
  PROVE  EvaluationInv'
  <1> USE DEF AgentsMayAct
  <1>1. tree \in TreeType
    BY DEF EvaluationInv, EvaluationShape
  <1>2. Kids(tree) = 1..Len(tree.kids) /\ \A i \in Kids(tree) : tree.kids[i] \in KidType
    BY <1>1, NothingRunsIs DEF TreeType
  <1>3. stage = "run" /\ UNCHANGED <<Outside, stage, att>>
    BY DEF Spawn, KidStarts, CallEnds, KidEnds, RootEnds, Submit, Outside, ledger, signals
  <1>4. tree' \in TreeType
    <2>1. ASSUME NEW by \in ActiveRuns(tree), Spawn(by)  PROVE tree' \in TreeType
      <3>1. Kid(by) \in KidType
        BY <1>1, <1>2, StatusIs DEF Kid, KidType, ActiveRuns, TreeType
      <3>2. Append(tree.kids, Kid(by)) \in Seq(KidType)
        BY <1>1, <3>1 DEF TreeType
      <3>3. PICK ordered \in BOOLEAN :
               tree' = [tree EXCEPT !.kids = Append(tree.kids, Kid(by)), !.ordered = ordered]
        <4>1. PICK fits \in BOOLEAN :
                 tree' = [tree EXCEPT !.kids = Append(@, Kid(by)),
                                      !.ordered = @ /\ (by = 0 => fits /\ StagesAreOver(tree))]
          BY <2>1 DEF Spawn
        <4> WITNESS (tree.ordered /\ (by = 0 => fits /\ StagesAreOver(tree))) \in BOOLEAN
        <4> QED BY <4>1
      <3> QED BY <1>1, <3>2, <3>3 DEF TreeType
    <2>2. ASSUME NEW i \in Kids(tree), KidStarts(i)  PROVE tree' \in TreeType
      <3>1. tree' = [tree EXCEPT !.kids[i] = [tree.kids[i] EXCEPT !.st = "running"],
                                 !.ordered = tree.ordered]
        BY <1>1, <2>2 DEF KidStarts, TreeType
      <3>2. [tree.kids[i] EXCEPT !.st = "running"] \in KidType /\ tree.ordered \in BOOLEAN
        BY <1>1, <1>2, StatusIs DEF KidType, TreeType
      <3> QED BY <1>1, <3>1, <3>2, KidChanges
    <2>3. ASSUME NEW i \in Kids(tree), NEW ok \in BOOLEAN, CallEnds(i, ok)  PROVE tree' \in TreeType
      <3> DEFINE ordered == tree.ordered /\ (i \in Stages(tree) => ok)
      <3>1. tree' = [tree EXCEPT !.kids[i] = [tree.kids[i] EXCEPT !.open = FALSE], !.ordered = ordered]
        BY <1>1, <2>3 DEF CallEnds, TreeType
      <3>2. [tree.kids[i] EXCEPT !.open = FALSE] \in KidType
        BY <1>2 DEF KidType
      <3>3. ordered \in BOOLEAN
        OBVIOUS
      <3> QED BY <1>1, <3>1, <3>2, <3>3, KidChanges
    <2>4. ASSUME NEW i \in Kids(tree), NEW st \in {"succeeded", "failed"}, KidEnds(i, st)
          PROVE  tree' \in TreeType
      <3>1. tree' = [tree EXCEPT !.kids[i] = [tree.kids[i] EXCEPT !.st = st], !.ordered = tree.ordered]
        BY <1>1, <2>4 DEF KidEnds, TreeType
      <3>2. [tree.kids[i] EXCEPT !.st = st] \in KidType /\ tree.ordered \in BOOLEAN
        BY <1>1, <1>2, StatusIs DEF KidType, TreeType
      <3> QED BY <1>1, <3>1, <3>2, KidChanges
    <2>5. ASSUME NEW st \in {"succeeded", "failed"}, RootEnds(st)  PROVE tree' \in TreeType
      <3> DEFINE ordered == tree.ordered /\ StagesAreOver(tree)
      <3>1. tree' = [tree EXCEPT !.root = st, !.ordered = ordered]
        BY <2>5 DEF RootEnds
      <3>2. ordered \in BOOLEAN
        OBVIOUS
      <3> HIDE DEF ordered
      <3> QED BY <1>1, <3>1, <3>2, StatusIs DEF TreeType
    <2>6. ASSUME Submit  PROVE tree' \in TreeType
      BY <1>1, <2>6, StatusIs DEF Submit, TreeType
    <2> QED BY <2>1, <2>2, <2>3, <2>4, <2>5, <2>6
  <1> QED BY <1>3, <1>4, GrowsTheTree

LEMMA OpeningKeepsInv ==
  ASSUME EvaluationInv,
         \/ RefuseInputs \/ SkipAttempt \/ (\E built \in {"runtime", "service"} : Assembled(built))
         \/ WaitEnds \/ ReadOutcome \/ TaskTimesOut
  PROVE  EvaluationInv'
  <1> USE DEF EvaluationInv
  <1>1. /\ stage \in RunningStages /\ stage' \in OpenStages /\ UNCHANGED <<Outside, tree>>
        /\ att' \in AttemptType
        /\ att'.cleanup = att.cleanup /\ att'.usage = att.usage /\ att'.copied = att.copied
        /\ att'.built # "service" => att.built # "service"
        /\ stage' \in {"run", "read"} => Started'
        /\ att'.status = "passed" => stage' = "close runs" /\ Started' /\ tree.root = "succeeded"
    <2> USE DEF Outside, ledger, signals, agents, RunningStages, OpenStages, EvaluationShape, AttemptType,
                Started, OnlyServicesWork, PassesAreKept, KindsKeepApart
    <2>0. stage \in RunningStages => att.status # "passed"
      BY DEF AgentStages
    <2>1. CASE RefuseInputs
      BY <2>0, <2>1 DEF RefuseInputs
    <2>2. CASE SkipAttempt
      BY <2>0, <2>2, StatusIs DEF SkipAttempt
    <2>3. ASSUME NEW built \in {"runtime", "service"}, Assembled(built)
          PROVE  <1>1!:
      BY <2>0, <2>3 DEF Assembled
    <2>4. CASE WaitEnds
      BY <2>0, <2>4 DEF WaitEnds
    <2>5. CASE ReadOutcome
      BY <2>0, <2>5, StatusIs DEF ReadOutcome, StatusFromOutcome, Reasons
    <2>6. CASE TaskTimesOut
      BY <2>0, <2>6 DEF TaskTimesOut
    <2> QED BY <2>1, <2>2, <2>3, <2>4, <2>5, <2>6
  <1>2. EvaluationShape' /\ KindsKeepApart' /\ ResultsAreEarned' /\ UsageIsWhole' /\ NothingIsLeft'
    BY <1>1 DEF EvaluationShape, EvaluationTypeOK, KindsKeepApart, ResultsAreEarned, UsageIsWhole,
           NothingIsLeft, AttemptType, Outside, RunningStages, OpenStages, AgentStages, CaseStages, AwaitingAgent,
           Closing, Clean
  <1>3. OnlyServicesWork' /\ ClosingIsHonest'
    BY <1>1 DEF OnlyServicesWork, ClosingIsHonest, Started, Outside, OpenStages, RunningStages
  <1>4. PassesAreKept'
    BY <1>1 DEF PassesAreKept, RunningStages, OpenStages, EndStages, Outside, Started
  <1>5. RecordsAreLate' /\ OriginalsStay'
    BY <1>1 DEF RecordsAreLate, OriginalsStay, EvidenceOutlivesOriginals, AgentStages, OpenStages,
       RunningStages,
                EndStages, Outside
  <1> QED BY <1>2, <1>3, <1>4, <1>5

-------------------------------------------------------------------------------
(* Evaluation: the closing of an attempt, and its end.                        *)

LEMMA WritingOnKeepsInv ==
  ASSUME EvaluationInv, Work \/ \E how \in Meters \ {"whole"} : Unmetered(how)
  PROVE  EvaluationInv'
  <1> USE DEF EvaluationInv
  <1>1. /\ UNCHANGED <<suite, results, exit, stage, guard, interrupted, att, tree, disk, context, test>>
        /\ box' \in BOOLEAN /\ work' \in Works /\ meter' \in Meters
        /\ \/ stage = "close runs" /\ Started
           \/ UNCHANGED <<box, meter>> /\ stage \notin AwaitingAgent /\ (ActiveRuns(tree) # {} \/ box)
    <2>1. box \in BOOLEAN /\ work \in Works /\ meter \in Meters
      BY DEF EvaluationShape, EvaluationTypeOK
    <2>2. CASE Work
      <3>1. \/ stage = "close runs" /\ Started
            \/ stage \notin AwaitingAgent /\ (ActiveRuns(tree) # {} \/ box)
        BY <2>2 DEF Work
      <3>2. stage # "close runs" => box' = box
        BY <2>2 DEF Work
      <3>3. box' \in BOOLEAN
        BY <2>1, <2>2 DEF Work
      <3>4. /\ UNCHANGED <<suite, results, exit, stage, guard, interrupted, att, tree, disk, context, test>>
            /\ UNCHANGED meter /\ work' \in Works
        BY <2>2 DEF Work, ledger, signals
      <3>5. CASE stage = "close runs" /\ Started
        BY <2>1, <3>3, <3>4, <3>5
      <3>6. CASE stage \notin AwaitingAgent /\ (ActiveRuns(tree) # {} \/ box)
        <4>1. box' = box
          BY <3>2, <3>6 DEF AwaitingAgent, Closing
        <4> QED BY <2>1, <3>3, <3>4, <3>6, <4>1
      <3> QED BY <3>1, <3>5, <3>6
    <2>3. ASSUME NEW how \in Meters \ {"whole"}, Unmetered(how)  PROVE <1>1!:
      BY <2>1, <2>3 DEF Unmetered, ledger, signals
    <2> QED BY <2>2, <2>3
  <1>2. EvaluationShape' /\ KindsKeepApart' /\ NothingIsLeft' /\ ResultsAreEarned'
    BY <1>1 DEF EvaluationShape, EvaluationTypeOK, KindsKeepApart, NothingIsLeft, ResultsAreEarned
  <1>3. OnlyServicesWork' /\ ClosingIsHonest' /\ UsageIsWhole'
    BY <1>1 DEF OnlyServicesWork, ClosingIsHonest, UsageIsWhole, Started, OpenStages
  <1>4. ~(stage = "close runs") => att.cleanup = "failed" /\ disk.record # "passed"
    BY <1>1 DEF ClosingIsHonest, OpenStages, AwaitingAgent, Closing, RunningStages, RecordsAreLate, Earned
  <1>5. PassesAreKept'
    BY <1>1, <1>4 DEF PassesAreKept, Started, RunningStages, OpenStages, EndStages
  <1>6. RecordsAreLate' /\ OriginalsStay'
    BY <1>1, <1>4 DEF RecordsAreLate, OriginalsStay, EvidenceOutlivesOriginals, AgentStages, OpenStages,
                      EndStages
  <1> QED BY <1>2, <1>3, <1>5, <1>6

LEMMA CloseRunsKeepsInv ==
  ASSUME EvaluationInv, CloseRuns
  PROVE  EvaluationInv'
  <1> USE DEF EvaluationInv
  <1>1. /\ stage = "close runs" /\ stage' = "close boxes"
        /\ UNCHANGED <<suite, results, exit, guard, interrupted, box, work, meter, disk, context, test>>
    BY DEF CloseRuns, ledger, signals
  <1>2. /\ att' \in AttemptType /\ tree' \in TreeType
        /\ att'.built = att.built /\ att'.status = att.status /\ att'.usage = att.usage
               /\ att'.copied = att.copied
        /\ att'.cleanup # "confirmed"
        /\ att'.cleanup = "unknown" => ActiveRuns(tree') = {}
        /\ tree.root = "succeeded" => tree'.root = "succeeded"
        /\ ~Started => ActiveRuns(tree') = {}
    <2>1. tree \in TreeType /\ att \in AttemptType /\ att.cleanup = "unknown"
      BY <1>1 DEF EvaluationShape, ClosingIsHonest, OpenStages
    <2> QED BY <2>1, StoppedIs DEF CloseRuns, AttemptType
  <1>3. EvaluationShape' /\ KindsKeepApart' /\ NothingIsLeft' /\ ResultsAreEarned' /\ UsageIsWhole'
    <2>1. EvaluationShape'
      <3>1. att'.status \in EvalStatus /\ tree'.root \in RunStatus
        BY <1>1, <1>2 DEF AttemptType, TreeType, EvaluationShape, EvaluationTypeOK
      <3> QED BY <1>1, <1>2, <3>1 DEF EvaluationShape, EvaluationTypeOK, AgentStages
    <2>2. KindsKeepApart' /\ NothingIsLeft' /\ ResultsAreEarned'
      BY <1>1 DEF KindsKeepApart, NothingIsLeft, ResultsAreEarned, AgentStages, CaseStages, OpenStages,
                  AwaitingAgent, Closing, Clean
    <2>3. UsageIsWhole'
      BY <1>1, <1>2 DEF UsageIsWhole, OpenStages
    <2> QED BY <2>1, <2>2, <2>3
  <1>4. OnlyServicesWork' /\ ClosingIsHonest'
    BY <1>1, <1>2 DEF OnlyServicesWork, ClosingIsHonest, Started, OpenStages, RunningStages
  <1>5. PassesAreKept'
    BY <1>1, <1>2 DEF PassesAreKept, Started, RunningStages, OpenStages, EndStages
  <1>6. RecordsAreLate' /\ OriginalsStay'
    BY <1>1, <1>2 DEF RecordsAreLate, OriginalsStay, EvidenceOutlivesOriginals, AgentStages, OpenStages,
       EndStages
  <1> QED BY <1>3, <1>4, <1>5, <1>6

LEMMA CloseBoxesKeepsInv ==
  ASSUME EvaluationInv, CloseBoxes
  PROVE  EvaluationInv'
  <1> USE DEF EvaluationInv
  <1>1. /\ stage = "close boxes" /\ stage' = "close rows"
        /\ UNCHANGED <<suite, results, exit, guard, interrupted, tree, work, meter, disk, context, test>>
        /\ box' \in BOOLEAN /\ (box' = FALSE \/ box' = box)
    <2>1. box \in BOOLEAN
      BY DEF EvaluationShape, EvaluationTypeOK
    <2>2. box' = FALSE \/ box' = box
      BY DEF CloseBoxes
    <2> QED BY <2>1, <2>2 DEF CloseBoxes, ledger, signals
  <1>2. /\ att' \in AttemptType
        /\ att'.built = att.built /\ att'.status = att.status /\ att'.usage = att.usage
               /\ att'.copied = att.copied
        /\ att'.cleanup # "failed" => ActiveRuns(tree) = {} /\ ~box'
        /\ Started => att'.cleanup # "unknown"
    <2>1. att \in AttemptType /\ att.cleanup # "confirmed" /\ (att.cleanup = "unknown" => ActiveRuns(tree) = {})
      BY <1>1 DEF EvaluationShape, ClosingIsHonest
    <2>2. ~Started => ActiveRuns(tree) = {} /\ ~box
      BY DEF OnlyServicesWork
    <2>3. CASE att.built = "none"
      <3>1. ~Started /\ att' = att /\ box' = box
        BY <2>3 DEF CloseBoxes, Started
      <3> QED BY <2>1, <2>2, <3>1
    <2>4. CASE att.built # "none" /\ box' = FALSE /\ att' = (IF att.cleanup = "failed" THEN att
                                                           ELSE [att EXCEPT !.cleanup = "confirmed"])
      BY <2>1, <2>2, <2>4 DEF AttemptType, Started
    <2>5. CASE att.built # "none" /\ att' = [att EXCEPT !.cleanup = "failed"]
      BY <2>1, <2>2, <2>5 DEF AttemptType, Started
    <2> QED BY <2>3, <2>4, <2>5 DEF CloseBoxes
  <1>3. EvaluationShape' /\ KindsKeepApart' /\ NothingIsLeft' /\ ResultsAreEarned' /\ UsageIsWhole'
    <2>1. EvaluationShape'
      <3>1. att'.status \in EvalStatus /\ tree'.root \in RunStatus
        BY <1>1, <1>2 DEF AttemptType, TreeType, EvaluationShape, EvaluationTypeOK
      <3> QED BY <1>1, <1>2, <3>1 DEF EvaluationShape, EvaluationTypeOK, AgentStages
    <2>2. KindsKeepApart' /\ NothingIsLeft' /\ ResultsAreEarned'
      BY <1>1 DEF KindsKeepApart, NothingIsLeft, ResultsAreEarned, AgentStages, CaseStages, OpenStages,
                  AwaitingAgent, Closing, Clean
    <2>3. UsageIsWhole'
      BY <1>1, <1>2 DEF UsageIsWhole, OpenStages
    <2> QED BY <2>1, <2>2, <2>3
  <1>4. OnlyServicesWork' /\ ClosingIsHonest'
    BY <1>1, <1>2 DEF OnlyServicesWork, ClosingIsHonest, Started, OpenStages, RunningStages
  <1>5. PassesAreKept'
    BY <1>1, <1>2 DEF PassesAreKept, Started, RunningStages, OpenStages, EndStages
  <1>6. RecordsAreLate' /\ OriginalsStay'
    BY <1>1, <1>2 DEF RecordsAreLate, OriginalsStay, EvidenceOutlivesOriginals, AgentStages, OpenStages,
       EndStages
  <1> QED BY <1>3, <1>4, <1>5, <1>6

LEMMA CloseRowsKeepsInv ==
  ASSUME EvaluationInv, CloseRows
  PROVE  EvaluationInv'
  <1> USE DEF EvaluationInv
  <1>1. /\ stage = "close rows" /\ stage' = "judge" /\ context' = "own"
        /\ UNCHANGED <<suite, results, exit, guard, interrupted, tree, box, work, meter, disk, test>>
    BY DEF CloseRows, Leaves, ledger, signals, agents
  <1>2. /\ att \in AttemptType
        /\ att.cleanup # "failed" => ActiveRuns(tree) = {} /\ ~box
        /\ Started => att.cleanup # "unknown"
    BY <1>1 DEF EvaluationShape, ClosingIsHonest, OpenStages, RunningStages
  <1>3. /\ att' \in AttemptType
        /\ att'.built = att.built /\ att'.usage = att.usage /\ att'.copied = att.copied
        /\ att'.cleanup # "failed" => att.cleanup # "failed"
        /\ Started => att'.cleanup # "unknown"
        /\ att'.status = "passed" => att.status = "passed" /\ att'.cleanup # "failed"
    <2>1. PICK hub \in {"stopped"} \cup (IF Started THEN {"failed", "unreadable"} ELSE {}) :
             LET cleanup == IF hub = "stopped" THEN att.cleanup ELSE "failed"
             IN att' = [att EXCEPT
                    !.cleanup = cleanup, !.rows = Started /\ hub # "unreadable",
                    !.status = IF hub = "unreadable" THEN "error" ELSE AfterClosing(@, cleanup)]
      BY DEF CloseRows
    <2> DEFINE rows == Started /\ hub # "unreadable"
               cleanup == IF hub = "stopped" THEN att.cleanup ELSE "failed"
               status == IF hub = "unreadable" THEN "error" ELSE AfterClosing(att.status, cleanup)
    <2>2. att' = [att EXCEPT !.cleanup = cleanup, !.rows = rows, !.status = status]
      BY <2>1
    <2>3. rows \in BOOLEAN
      OBVIOUS
    <2>4. /\ status \in EvalStatus
          /\ status = "passed" => att.status = "passed" /\ cleanup # "failed"
      <3>1. att.status \in EvalStatus
        BY <1>2 DEF AttemptType
      <3> HIDE DEF cleanup
      <3>2. CASE status = "error"
        BY <3>2, StatusIs
      <3>3. CASE status = att.status
        BY <3>1, <3>3, StatusIs DEF AfterClosing
      <3> QED BY <3>2, <3>3 DEF AfterClosing
    <2>5. cleanup \in {att.cleanup, "failed"}
      OBVIOUS
    <2> HIDE DEF rows, cleanup, status
    <2> QED BY <1>2, <2>2, <2>3, <2>4, <2>5 DEF AttemptType
  <1>4. EvaluationShape' /\ KindsKeepApart' /\ NothingIsLeft' /\ ResultsAreEarned' /\ UsageIsWhole'
    BY <1>1, <1>3 DEF EvaluationShape, EvaluationTypeOK, KindsKeepApart, NothingIsLeft, ResultsAreEarned,
        UsageIsWhole, AttemptType, AgentStages, CaseStages, EndStages, OpenStages, Clean
  <1>5. OnlyServicesWork' /\ ClosingIsHonest'
    BY <1>1, <1>2, <1>3 DEF OnlyServicesWork, ClosingIsHonest, Started, OpenStages, RunningStages
  <1>6. PassesAreKept'
    BY <1>1, <1>2, <1>3 DEF PassesAreKept, Started, RunningStages, OpenStages, EndStages, AttemptType
  <1>7. RecordsAreLate' /\ OriginalsStay'
    BY <1>1, <1>3 DEF RecordsAreLate, OriginalsStay, EvidenceOutlivesOriginals, AgentStages, OpenStages,
       EndStages
  <1> QED BY <1>4, <1>5, <1>6, <1>7

\* A verdict passes the tree, the models and the workflow only when they are as they should be.
LEMMA AfterTreeIs ==
  ASSUME NEW status \in EvalStatus, NEW orchestrated \in BOOLEAN, NEW rows \in BOOLEAN, NEW t, NEW m,
         NEW s, s = AfterTree(status, orchestrated, rows, t, m)
  PROVE  /\ s \in EvalStatus
         /\ s = "passed" => /\ status = "passed" /\ Terminal(rows, t)
                            /\ RowsSucceeded(t)
                            /\ orchestrated => WorkflowFollowed(t)
  BY StatusIs DEF AfterTree

LEMMA JudgeKeepsInv ==
  ASSUME EvaluationInv, Judge
  PROVE  EvaluationInv'
  <1> USE DEF EvaluationInv
  <1>1. /\ stage = "judge" /\ stage' = "copy"
        /\ UNCHANGED <<suite, results, exit, guard, interrupted, tree, box, work, meter, disk, context, test>>
    BY DEF Judge, ledger, signals, agents
  <1>2. /\ att \in AttemptType /\ att.status \in EvalStatus /\ att.rows \in BOOLEAN
        /\ meter \in Meters
        /\ att.status = "passed" => Started /\ att.cleanup = "confirmed"
    <2>1. att \in AttemptType /\ meter \in Meters
      BY DEF EvaluationShape, EvaluationTypeOK
    <2>2. suite.kind # "case"
      BY <1>1 DEF KindsKeepApart, AgentStages, EndStages
    <2>3. att.status = "passed" => Started /\ att.cleanup = "confirmed"
      BY <1>1, <2>2 DEF PassesAreKept, OpenStages, RunningStages
    <2> QED BY <2>1, <2>3 DEF AttemptType
  <1>3. /\ att' \in AttemptType
        /\ att'.built = att.built /\ att'.copied = att.copied /\ att'.cleanup = att.cleanup
        /\ att'.usage # "unknown" => meter = "whole"
        /\ att'.status = "passed" => /\ att.status = "passed" /\ att'.graded /\ work = "right"
                                     /\ Orchestrated => WorkflowFollowed(tree)
                                     /\ RowsSucceeded(tree)
    <2> DEFINE status == AfterTree(att.status, Orchestrated, att.rows, tree, meter)
               grades == MayGrade(status, att.rows, tree, att.cleanup)
               judged == IF Started THEN status ELSE att.status
    <2>1. PICK readable \in BOOLEAN, usage \in IF Started THEN Reported(meter) ELSE {"unknown"} :
             att' = [att EXCEPT
                 !.usage = usage,
                 !.graded = grades /\ readable,
                 !.status = IF ~grades THEN judged
                            ELSE IF readable THEN Graded(judged, work) ELSE "error"]
      BY DEF Judge
    <2>2. /\ usage \in {"unknown", "known", "priced"}
          /\ usage # "unknown" => meter = "whole"
      BY <1>2, <2>1, StatusIs DEF Reported, UsageKnown
    <2>3. Orchestrated \in BOOLEAN
      BY DEF Orchestrated
    <2>4. /\ status \in EvalStatus
          /\ status = "passed" => /\ att.status = "passed" /\ Terminal(att.rows, tree)
                                  /\ RowsSucceeded(tree)
                                  /\ Orchestrated => WorkflowFollowed(tree)
      <3> HIDE DEF status
      <3>1. status = AfterTree(att.status, Orchestrated, att.rows, tree, meter)
        BY DEF status
      <3> QED BY <1>2, <2>3, <3>1, AfterTreeIs
    <2> HIDE DEF status
    <2>5. judged \in EvalStatus /\ (judged = "passed" => status = "passed")
      BY <1>2, <2>4
    <2>6. status = "passed" => grades
      BY <1>2, <2>4 DEF MayGrade
    <2>7. att'.status \in EvalStatus /\ (att'.status = "passed" => status = "passed" /\ readable
              /\ work = "right")
      <3>1. CASE ~grades
        <4> HIDE DEF judged, grades
        <4>1. att'.status = judged
          BY <1>2, <2>1, <3>1 DEF AttemptType
        <4> QED BY <2>5, <2>6, <3>1, <4>1
      <3>2. CASE grades /\ ~readable
        <4>1. att'.status = "error"
          BY <1>2, <2>1, <3>2 DEF AttemptType
        <4> QED BY <4>1, StatusIs
      <3>3. CASE grades /\ readable
        <4>1. att'.status = Graded(judged, work)
          BY <1>2, <2>1, <3>3 DEF AttemptType
        <4> HIDE DEF judged
        <4> QED BY <2>5, <3>3, <4>1, StatusIs DEF Graded
      <3> QED BY <3>1, <3>2, <3>3
    <2>8. /\ att'.graded = (grades /\ readable) /\ att'.usage = usage
          /\ att' = [att EXCEPT !.usage = usage, !.graded = (grades /\ readable), !.status = att'.status]
      BY <1>2, <2>1 DEF AttemptType
    <2>9. /\ att' \in AttemptType
          /\ att'.built = att.built /\ att'.copied = att.copied /\ att'.cleanup = att.cleanup
      <3>1. (grades /\ readable) \in BOOLEAN
        OBVIOUS
      <3> QED BY <1>2, <2>2, <2>7, <2>8, <3>1 DEF AttemptType
    <2> QED BY <2>2, <2>4, <2>6, <2>7, <2>8, <2>9
  <1>4. EvaluationShape'
    <2>1. att'.status \in EvalStatus
      BY <1>3 DEF AttemptType
    <2> QED BY <1>1, <1>3, <2>1 DEF EvaluationShape, EvaluationTypeOK, AgentStages, EndStages
  <1>5. KindsKeepApart' /\ NothingIsLeft' /\ ResultsAreEarned'
    BY <1>1 DEF KindsKeepApart, NothingIsLeft, ResultsAreEarned, AgentStages, CaseStages, EndStages, OpenStages,
                AwaitingAgent, Closing, Clean
  <1>6. UsageIsWhole' /\ OnlyServicesWork' /\ ClosingIsHonest'
    BY <1>1, <1>3 DEF UsageIsWhole, OnlyServicesWork, ClosingIsHonest, Started, OpenStages, RunningStages
  <1>7. PassesAreKept'
    BY <1>1, <1>2, <1>3 DEF PassesAreKept, Started, Orchestrated, RunningStages, OpenStages, EndStages
  <1>8. RecordsAreLate' /\ OriginalsStay'
    <2>1. disk.record = "none" /\ disk.temporary = "whole"
      BY <1>1 DEF RecordsAreLate, OriginalsStay, AgentStages, EndStages
    <2> QED BY <1>1, <1>3, <2>1 DEF RecordsAreLate, OriginalsStay, EvidenceOutlivesOriginals, OpenStages,
               EndStages, RunningStages
  <1> QED BY <1>4, <1>5, <1>6, <1>7, <1>8

\* Once an attempt is judged, its agents, its ledger and its cleanup stay as they are.
Judged ==
  /\ UNCHANGED <<suite, results, exit, guard, interrupted, tree, box, work, meter, context, test>>
  /\ stage \in EndStages \ {"judge"} /\ stage' \in EndStages \ {"judge"}
  /\ att' \in AttemptType /\ disk' \in DiskType
  /\ att'.built = att.built /\ att'.cleanup = att.cleanup /\ att'.usage = att.usage /\ att'.graded = att.graded
  /\ att'.status = "passed" => att.status = "passed"

LEMMA JudgedKeeps ==
  ASSUME EvaluationInv, Judged
  PROVE  /\ EvaluationShape' /\ KindsKeepApart' /\ NothingIsLeft' /\ ResultsAreEarned'
         /\ UsageIsWhole' /\ OnlyServicesWork' /\ ClosingIsHonest'
         /\ att'.status = "passed" =>
              /\ Started' /\ tree'.root = "succeeded" /\ att'.cleanup = "confirmed"
              /\ att'.graded /\ work' = "right" /\ (Orchestrated => WorkflowFollowed(tree))'
              /\ RowsSucceeded(tree)'
              /\ (ActiveRuns(tree) = {})' /\ box' = FALSE
  <1> USE DEF EvaluationInv, Judged
  <1>1. suite.kind # "case"
    BY DEF KindsKeepApart, AgentStages
  <1>2. EvaluationShape'
    <2>1. att'.status \in EvalStatus
      BY DEF AttemptType
    <2> QED BY <2>1 DEF EvaluationShape, EvaluationTypeOK, AgentStages
  <1>3. KindsKeepApart' /\ NothingIsLeft' /\ ResultsAreEarned'
    BY <1>1 DEF KindsKeepApart, NothingIsLeft, ResultsAreEarned, AgentStages, CaseStages, EndStages, OpenStages,
                AwaitingAgent, Closing, Clean
  <1>4. UsageIsWhole' /\ OnlyServicesWork' /\ ClosingIsHonest'
    BY DEF UsageIsWhole, OnlyServicesWork, ClosingIsHonest, Started, OpenStages, RunningStages, EndStages
  <1>5. (ActiveRuns(tree) = {} /\ ~box) \/ att.cleanup = "failed"
    BY DEF ClosingIsHonest, EndStages, OpenStages, RunningStages
  <1>6. box \in BOOLEAN
    BY DEF EvaluationShape, EvaluationTypeOK
  <1>7. att.status = "passed" =>
          /\ Started /\ tree.root = "succeeded" /\ att.cleanup = "confirmed"
          /\ att.graded /\ work = "right" /\ (Orchestrated => WorkflowFollowed(tree))
          /\ RowsSucceeded(tree)
          /\ (ActiveRuns(tree) = {}) /\ box = FALSE
    BY <1>1, <1>5, <1>6 DEF PassesAreKept, EndStages, OpenStages, RunningStages
  <1>8. UNCHANGED <<Started, Orchestrated>>
    BY DEF Started, Orchestrated
  <1> QED BY <1>2, <1>3, <1>4, <1>7, <1>8

LEMMA CopyEvidenceKeepsInv ==
  ASSUME EvaluationInv, CopyEvidence
  PROVE  EvaluationInv'
  <1> USE DEF EvaluationInv
  <1>1. /\ stage = "copy" /\ stage' = "pending" /\ att \in AttemptType /\ disk \in DiskType
        /\ disk.record = "none" /\ disk.temporary = "whole"
    BY DEF CopyEvidence, EvaluationShape, RecordsAreLate, OriginalsStay, AgentStages, EndStages
  <1>2. /\ disk'.record = disk.record /\ disk'.temporary = disk.temporary
        /\ att'.status = "passed" => att.status = "passed"
        /\ att'.status = "passed" \/ att'.copied => disk'.evidence \in Copies
    <2>1. CASE /\ \E evidence \in Copies : disk' = [disk EXCEPT !.evidence = evidence]
               /\ att' = [att EXCEPT !.copied = TRUE]
      BY <1>1, <2>1 DEF AttemptType, DiskType
    <2>2. CASE disk' = [disk EXCEPT !.evidence = "part"] /\ att' = [att EXCEPT !.status = "error"]
      <3>1. ~att.copied
        BY <1>1 DEF OriginalsStay
      <3> QED BY <1>1, <2>2, <3>1, StatusIs DEF AttemptType, DiskType
    <2> QED BY <2>1, <2>2 DEF CopyEvidence
  <1>3. Judged
    BY <1>1, <1>2, StatusIs DEF CopyEvidence, Copies, Judged, ledger, signals, agents, AttemptType, DiskType,
       EndStages
  <1>4. /\ EvaluationShape' /\ KindsKeepApart' /\ NothingIsLeft' /\ ResultsAreEarned'
        /\ UsageIsWhole' /\ OnlyServicesWork' /\ ClosingIsHonest'
        /\ att'.status = "passed" =>
             /\ Started' /\ tree'.root = "succeeded" /\ att'.cleanup = "confirmed"
             /\ att'.graded /\ work' = "right" /\ (Orchestrated => WorkflowFollowed(tree))'
             /\ RowsSucceeded(tree)'
    BY <1>3, JudgedKeeps
  <1>5. PassesAreKept'
    BY <1>1, <1>2, <1>4 DEF PassesAreKept, RunningStages
  <1>6. RecordsAreLate' /\ OriginalsStay'
    BY <1>1, <1>2 DEF RecordsAreLate, OriginalsStay, EvidenceOutlivesOriginals, AgentStages, OpenStages,
                      EndStages, RunningStages
  <1> QED BY <1>4, <1>5, <1>6

LEMMA WritePendingKeepsInv ==
  ASSUME EvaluationInv, WritePending
  PROVE  EvaluationInv'
  <1> USE DEF EvaluationInv
  <1>1. /\ stage = "pending" /\ stage' \in {"remove", "return"} /\ att \in AttemptType /\ disk \in DiskType
        /\ disk.record = "none" /\ disk.temporary = "whole"
    BY DEF WritePending, EvaluationShape, RecordsAreLate, OriginalsStay, AgentStages, EndStages
  <1>2. /\ disk'.record # "passed" /\ disk'.temporary = "whole" /\ disk'.evidence = disk.evidence
        /\ stage' = "remove" => disk'.record = "pending"
        /\ att'.copied = att.copied
        /\ att'.status = "passed" => att.status = "passed" /\ stage' = "remove"
    BY <1>1, StatusIs DEF WritePending, AttemptType, DiskType
  <1>3. Judged
    BY <1>1, <1>2, StatusIs DEF WritePending, Judged, ledger, signals, agents, AttemptType, DiskType, EndStages
  <1>4. /\ EvaluationShape' /\ KindsKeepApart' /\ NothingIsLeft' /\ ResultsAreEarned'
        /\ UsageIsWhole' /\ OnlyServicesWork' /\ ClosingIsHonest'
        /\ att'.status = "passed" =>
             /\ Started' /\ tree'.root = "succeeded" /\ att'.cleanup = "confirmed"
             /\ att'.graded /\ work' = "right" /\ (Orchestrated => WorkflowFollowed(tree))'
             /\ RowsSucceeded(tree)'
    BY <1>3, JudgedKeeps
  <1>5. PassesAreKept'
    <2>1. suite' = suite
      BY <1>3 DEF Judged
    <2> QED BY <1>1, <1>2, <1>4, <2>1 DEF PassesAreKept, RunningStages
  <1>6. RecordsAreLate' /\ OriginalsStay'
    BY <1>1, <1>2 DEF RecordsAreLate, OriginalsStay, EvidenceOutlivesOriginals, AgentStages, OpenStages,
                      EndStages, RunningStages
  <1> QED BY <1>4, <1>5, <1>6

LEMMA RemoveTemporaryKeepsInv ==
  ASSUME EvaluationInv, RemoveTemporary
  PROVE  EvaluationInv'
  <1> USE DEF EvaluationInv
  <1>1. /\ stage = "remove" /\ stage' = "final" /\ att \in AttemptType /\ disk \in DiskType
        /\ disk.record = "pending" /\ disk.temporary = "whole"
    BY DEF RemoveTemporary, EvaluationShape, RecordsAreLate, OriginalsStay, AgentStages, EndStages
  <1>2. /\ disk'.record = "pending" /\ disk'.evidence = disk.evidence
        /\ att'.copied = att.copied
        /\ att'.status = "passed" => att.status = "passed"
        /\ disk'.temporary = "whole" \/ MayRemove(att)
    BY <1>1, StatusIs DEF RemoveTemporary, AttemptType, DiskType
  <1>3. Judged
    <2>1. disk' \in DiskType
      BY <1>1 DEF RemoveTemporary, DiskType
    <2>2. att' \in AttemptType
      BY <1>1, StatusIs DEF RemoveTemporary, AttemptType
    <2>3. att'.built = att.built /\ att'.cleanup = att.cleanup /\ att'.usage = att.usage
              /\ att'.graded = att.graded
      BY <1>1 DEF RemoveTemporary, AttemptType
    <2> QED BY <1>1, <1>2, <2>1, <2>2, <2>3 DEF RemoveTemporary, Judged, ledger, signals, agents, EndStages
  <1>4. /\ EvaluationShape' /\ KindsKeepApart' /\ NothingIsLeft' /\ ResultsAreEarned'
        /\ UsageIsWhole' /\ OnlyServicesWork' /\ ClosingIsHonest'
        /\ att'.status = "passed" =>
             /\ Started' /\ tree'.root = "succeeded" /\ att'.cleanup = "confirmed"
             /\ att'.graded /\ work' = "right" /\ (Orchestrated => WorkflowFollowed(tree))'
             /\ RowsSucceeded(tree)'
    BY <1>3, JudgedKeeps
  <1>5. PassesAreKept'
    <2>1. suite' = suite
      BY <1>3 DEF Judged
    <2> QED BY <1>1, <1>2, <1>4, <2>1 DEF PassesAreKept, RunningStages
  <1>6. EvidenceOutlivesOriginals'
    <2>1. CASE disk'.temporary = "whole"
      BY <2>1 DEF EvidenceOutlivesOriginals
    <2>2. CASE MayRemove(att)
      <3>1. disk'.evidence \in Copies /\ disk'.record # "none"
        BY <1>2, <2>2 DEF MayRemove, OriginalsStay
      <3>2. ActiveRuns(tree) = {} /\ ~box
        BY <1>1, <2>2 DEF MayRemove, OnlyServicesWork, Started, ClosingIsHonest, OpenStages, RunningStages
      <3>3. UNCHANGED <<tree, box>>
        BY <1>3 DEF Judged
      <3> QED BY <3>1, <3>2, <3>3 DEF EvidenceOutlivesOriginals
    <2> QED BY <1>2, <2>1, <2>2
  <1>7. RecordsAreLate' /\ OriginalsStay'
    BY <1>1, <1>2, <1>6 DEF RecordsAreLate, OriginalsStay, AgentStages, OpenStages, EndStages, RunningStages
  <1> QED BY <1>4, <1>5, <1>7

LEMMA WriteFinalKeepsInv ==
  ASSUME EvaluationInv, WriteFinal
  PROVE  EvaluationInv'
  <1> USE DEF EvaluationInv
  <1>1. /\ stage = "final" /\ stage' = "return" /\ att \in AttemptType /\ disk \in DiskType
        /\ disk.record = "pending" /\ suite.kind # "case"
    BY DEF WriteFinal, EvaluationShape, RecordsAreLate, KindsKeepApart, AgentStages, EndStages
  <1>2. /\ disk'.temporary = disk.temporary /\ disk'.evidence = disk.evidence
        /\ att'.copied = att.copied /\ disk'.record # "none"
        /\ att'.status = "passed" => att.status = "passed" /\ disk'.record = "passed"
        /\ disk'.record = "passed" => att'.status = "passed"
    BY <1>1, StatusIs DEF WriteFinal, AttemptType, DiskType
  <1>3. Judged
    <2>1. disk' \in DiskType
      BY <1>1 DEF WriteFinal, DiskType, AttemptType
    <2>2. att' \in AttemptType
      BY <1>1, StatusIs DEF WriteFinal, AttemptType
    <2>3. att'.built = att.built /\ att'.cleanup = att.cleanup /\ att'.usage = att.usage
              /\ att'.graded = att.graded
      BY <1>1 DEF WriteFinal, AttemptType
    <2> QED BY <1>1, <1>2, <2>1, <2>2, <2>3 DEF WriteFinal, Judged, ledger, signals, agents, EndStages
  <1>4. /\ EvaluationShape' /\ KindsKeepApart' /\ NothingIsLeft' /\ ResultsAreEarned'
        /\ UsageIsWhole' /\ OnlyServicesWork' /\ ClosingIsHonest'
        /\ att'.status = "passed" =>
             /\ Started' /\ tree'.root = "succeeded" /\ att'.cleanup = "confirmed"
             /\ att'.graded /\ work' = "right" /\ (Orchestrated => WorkflowFollowed(tree))'
             /\ RowsSucceeded(tree)'
             /\ (ActiveRuns(tree) = {})' /\ box' = FALSE
    BY <1>3, JudgedKeeps
  <1>5. UNCHANGED <<suite, tree, box>>
    BY <1>3 DEF Judged
  <1>6. att.status = "passed" => disk'.evidence \in Copies
    BY <1>1, <1>2 DEF PassesAreKept
  <1>7. PassesAreKept'
    BY <1>1, <1>2, <1>4, <1>5, <1>6 DEF PassesAreKept, RunningStages
  <1>8. RecordsAreLate'
    <2>1. disk'.record = "passed" => Earned'
      BY <1>2, <1>4, <1>6 DEF Earned
    <2> QED BY <1>1, <2>1 DEF RecordsAreLate
  <1>9. OriginalsStay'
    BY <1>1, <1>2, <1>5 DEF OriginalsStay, EvidenceOutlivesOriginals, OpenStages, RunningStages
  <1> QED BY <1>4, <1>7, <1>8, <1>9

-------------------------------------------------------------------------------
(* Evaluation: the suite, its cases, and who interrupts them.                 *)

\* A step of the runner between attempts, or of a case, in which no agent takes part.
Aside == <<suite, interrupted, att, tree, box, work, meter, disk>>

LEMMA AsideKeeps ==
  ASSUME EvaluationInv, UNCHANGED <<tree, box, work, meter, disk, suite>>,
         att' \in AttemptType, att'.built = att.built, att'.cleanup = att.cleanup, att'.usage = att.usage,
         att'.copied = att.copied, att'.graded = att.graded,
         att'.status = "passed" => att.status = "passed" \/ suite.kind = "case",
         stage \in RunnerStages \cup CaseStages \cup {"return"}, stage' \in OverStages \cup CaseStages,
         stage \in RunnerStages \cup {"return"} => stage' \in OverStages \/ stage = "idle",
         stage' \in CaseStages => suite.kind = "case"
  PROVE  /\ KindsKeepApart' /\ OnlyServicesWork' /\ ClosingIsHonest' /\ PassesAreKept'
         /\ RecordsAreLate' /\ OriginalsStay' /\ UsageIsWhole'
  <1> USE DEF EvaluationInv
  <1>1. stage' \notin AgentStages
    BY DEF AgentStages, OpenStages, RunningStages, EndStages, OverStages, CaseStages
  <1>2. stage \notin OpenStages \cup {"close boxes", "close rows"}
    BY DEF RunnerStages, CaseStages, OpenStages, RunningStages
  <1>3. KindsKeepApart'
    BY <1>1 DEF KindsKeepApart
  <1>4. OnlyServicesWork' /\ ClosingIsHonest' /\ UsageIsWhole'
    BY <1>1, <1>2 DEF OnlyServicesWork, ClosingIsHonest, UsageIsWhole, Started, AgentStages, OpenStages,
       RunningStages,
       EndStages
  <1>5. PassesAreKept'
    BY <1>1, <1>2 DEF PassesAreKept, Started, AgentStages, OpenStages, RunningStages, EndStages
  <1>6. RecordsAreLate'
    <2>1. disk.record = "passed" => att'.graded = att.graded /\ Earned
      BY DEF RecordsAreLate
    <2>2. Earned => Earned'
      BY DEF Earned, Orchestrated
    <2> QED BY <1>1, <2>1, <2>2 DEF RecordsAreLate, AgentStages, OpenStages, RunningStages, EndStages
  <1>7. OriginalsStay'
    BY <1>1, <1>2 DEF OriginalsStay, EvidenceOutlivesOriginals, AgentStages, OverStages, CaseStages, OpenStages,
       RunningStages, EndStages
  <1> QED BY <1>3, <1>4, <1>5, <1>6, <1>7

LEMMA RunnerStepKeepsInv ==
  ASSUME EvaluationInv, PrepareTasks \/ AllDone \/ WriteArtifacts \/ Report
  PROVE  EvaluationInv'
  <1>1. /\ UNCHANGED <<suite, guard, interrupted, att, tree, box, work, meter, disk, context, test>>
        /\ stage \in {"setup", "idle", "report", "written"} /\ stage' \in OverStages
        /\ stage' \in {"idle", "report"} => exit' = exit
    BY DEF PrepareTasks, AllDone, WriteArtifacts, Report, ledger, signals, agents, OverStages
  <1>2. /\ KindsKeepApart' /\ OnlyServicesWork' /\ ClosingIsHonest' /\ PassesAreKept'
        /\ RecordsAreLate' /\ OriginalsStay' /\ UsageIsWhole'
    BY <1>1, AsideKeeps DEF EvaluationInv, EvaluationShape, RunnerStages, OverStages, CaseStages
  <1>3. EvaluationShape' /\ ResultsAreEarned'
    <2> USE DEF EvaluationInv
    <2>1. exit = "none"
      BY <1>1 DEF ResultsAreEarned
    <2>2. CASE PrepareTasks
      <3>1. CASE UNCHANGED results /\ stage' = "idle"
        BY <1>1, <2>1, <2>2, <3>1 DEF EvaluationShape, EvaluationTypeOK, ResultsAreEarned, RunnerStages,
           PrepareTasks, ledger
      <3>2. CASE stage' = "report" /\ \E verdict \in {"skipped", "error"} :
                     results' = <<Result(verdict, "none")>>
        <4>1. PICK verdict \in {"skipped", "error"} : results' = <<Result(verdict, "none")>>
          BY <3>2
        <4>2. Result(verdict, "none") \in [verdict : EvalStatus, record : EvalStatus \cup {"none", "pending"}]
          BY StatusIs DEF Result
        <4>3. /\ results' \in Seq([verdict : EvalStatus, record : EvalStatus \cup {"none", "pending"}])
              /\ DOMAIN results' = {1} /\ results'[1].verdict = verdict
          BY <4>1, <4>2 DEF Result
        <4> QED BY <1>1, <2>1, <2>2, <3>2, <4>3 DEF EvaluationShape, EvaluationTypeOK, ResultsAreEarned,
                   RunnerStages,
                 Clean, PrepareTasks
      <3> QED BY <2>2, <3>1, <3>2 DEF PrepareTasks
    <2>3. CASE AllDone
      BY <1>1, <2>1, <2>3 DEF EvaluationShape, EvaluationTypeOK, ResultsAreEarned, RunnerStages, AllDone, ledger
    <2>4. CASE WriteArtifacts
      BY <1>1, <2>1, <2>4 DEF EvaluationShape, EvaluationTypeOK, ResultsAreEarned, RunnerStages,
         WriteArtifacts, Clean
    <2>5. CASE Report
      BY <1>1, <2>1, <2>5 DEF EvaluationShape, EvaluationTypeOK, ResultsAreEarned, RunnerStages, Report, Clean
    <2> QED BY <2>2, <2>3, <2>4, <2>5
  <1>4. NothingIsLeft'
    BY <1>1 DEF EvaluationInv, NothingIsLeft, OverStages, AwaitingAgent, Closing
  <1> QED BY <1>2, <1>3, <1>4 DEF EvaluationInv

LEMMA BeginKeepsInv ==
  ASSUME EvaluationInv, Begin
  PROVE  EvaluationInv'
  <1> USE DEF EvaluationInv
  <1>1. /\ stage = "idle" /\ att' = Fresh /\ tree' = NoTree /\ box' = FALSE /\ work' = "wrong"
               /\ meter' = "whole"
        /\ test' = NoTest /\ guard' \in {"armed", "off"}
        /\ UNCHANGED <<suite, results, exit, interrupted>>
        /\ \/ suite.kind = "case" /\ stage' = "spawn" /\ UNCHANGED <<disk, context>>
           \/ /\ suite.kind # "case" /\ stage' = "prepare" /\ context' = "isolated"
              /\ disk' = [temporary |-> "whole", evidence |-> "empty", record |-> "none"]
    BY DEF Begin, Enters, ledger
  <1>2. /\ Fresh \in AttemptType /\ NoTest \in TestType /\ NoTree \in TreeType /\ ActiveRuns(NoTree) = {}
        /\ "wrong" \in Works /\ "whole" \in Meters /\ disk' \in DiskType
        /\ Fresh.status = "error" /\ Fresh.built = "none" /\ Fresh.cleanup = "unknown" /\ ~Fresh.copied
        /\ Fresh.usage = "unknown" /\ NoTree.root = "none"
    <2>1. disk' \in DiskType
      BY <1>1 DEF EvaluationShape, DiskType
    <2> QED BY <2>1, StatusIs, NoTreeIs DEF Fresh, AttemptType, NoTest, TestType, NoTree
  <1>3. EvaluationShape'
    BY <1>1, <1>2, StatusIs DEF EvaluationShape, EvaluationTypeOK, AgentStages, OpenStages, RunningStages,
       CaseStages
  <1>4. KindsKeepApart' /\ OnlyServicesWork' /\ ClosingIsHonest' /\ UsageIsWhole'
    BY <1>1, <1>2 DEF KindsKeepApart, OnlyServicesWork, ClosingIsHonest, UsageIsWhole, Started, AgentStages,
       CaseStages, OpenStages, RunningStages, EndStages
  <1>5. PassesAreKept'
    BY <1>1, <1>2 DEF PassesAreKept
  <1>6. disk'.record # "passed"
    BY <1>1 DEF KindsKeepApart, NoDisk
  <1>7. RecordsAreLate' /\ OriginalsStay'
    <2>1. EvidenceOutlivesOriginals'
      BY <1>1 DEF EvidenceOutlivesOriginals
    <2>2. CASE stage' = "spawn"
      BY <1>1, <1>2, <1>6, <2>1, <2>2 DEF RecordsAreLate, OriginalsStay, AgentStages, OpenStages, RunningStages,
         EndStages
    <2>3. CASE stage' = "prepare"
      BY <1>1, <1>2, <1>6, <2>1, <2>3 DEF RecordsAreLate, OriginalsStay
    <2> QED BY <1>1, <2>2, <2>3
  <1>8. NothingIsLeft'
    BY <1>1 DEF NothingIsLeft, NoTest, AwaitingAgent, Closing
  <1>9. ResultsAreEarned'
    BY <1>1 DEF ResultsAreEarned, Clean
  <1> QED BY <1>3, <1>4, <1>5, <1>7, <1>8, <1>9

LEMMA RecordedKeepsInv ==
  ASSUME EvaluationInv, Return \/ CaseReturns
  PROVE  EvaluationInv'
  <1> USE DEF EvaluationInv
  <1>1. /\ UNCHANGED <<suite, interrupted, att, tree, box, work, meter, disk, context, test>>
        /\ stage \in {"return", "case over"} /\ stage' \in {"idle", "ended"} /\ guard' = "off"
    BY DEF Return, CaseReturns, Recorded, agents
  <1>2. PICK verdict \in EvalStatus, record \in EvalStatus \cup {"none", "pending"} :
           /\ Recorded(verdict, record)
           /\ suite.kind # "case" /\ verdict = "passed" => record = "passed"
    <2>1. att.status \in EvalStatus /\ disk.record \in EvalStatus \cup {"none", "pending"}
      BY DEF EvaluationShape, AttemptType, DiskType
    <2>2. CASE Return
      <3>1. suite.kind # "case" /\ att.status = "passed" => disk.record = "passed"
        BY <2>2 DEF Return, PassesAreKept
      <3>2. (IF att.cancelled THEN "error" ELSE att.status) \in EvalStatus
        BY <2>1, StatusIs
      <3> QED BY <2>1, <2>2, <3>1, <3>2 DEF Return
    <2>3. CASE CaseReturns
      <3>1. suite.kind = "case"
        BY <2>3 DEF CaseReturns, KindsKeepApart, CaseStages
      <3>2. (IF att.cancelled THEN "error" ELSE att.status) \in EvalStatus
        BY <2>1, StatusIs
      <3> QED BY <2>1, <2>3, <3>1, <3>2 DEF CaseReturns
    <2> QED BY <2>2, <2>3
  <1>3. /\ KindsKeepApart' /\ OnlyServicesWork' /\ ClosingIsHonest' /\ PassesAreKept'
        /\ RecordsAreLate' /\ OriginalsStay' /\ UsageIsWhole'
    BY <1>1, AsideKeeps DEF EvaluationShape, RunnerStages, OverStages, CaseStages
  <1>4. exit = "none"
    BY <1>1 DEF ResultsAreEarned
  <1>5. EvaluationShape' /\ ResultsAreEarned'
    <2> DEFINE R == [verdict : EvalStatus, record : EvalStatus \cup {"none", "pending"}]
    <2>1. results \in Seq(R)
      BY DEF EvaluationShape, EvaluationTypeOK
    <2>2. CASE UNCHANGED results /\ stage' = "ended" /\ exit' = "interrupted"
      BY <1>1, <2>2 DEF EvaluationShape, EvaluationTypeOK, ResultsAreEarned, RunnerStages
    <2>3. CASE results' = Append(results, Result(verdict, record)) /\ stage' = "idle" /\ UNCHANGED exit
      <3>1. Result(verdict, record) \in R /\ Result(verdict, record).verdict = verdict
            /\ Result(verdict, record).record = record
        BY DEF Result
      <3>2. results' \in Seq(R)
        BY <2>1, <2>3, <3>1
      <3>3. \A i \in DOMAIN results' : results'[i] = Result(verdict, record)
                                       \/ (i \in DOMAIN results /\ results'[i] = results[i])
        BY <2>1, <2>3, <3>1
      <3>4. suite.kind # "case" => \A i \in DOMAIN results' : results'[i].verdict = "passed"
                => results'[i].record = "passed"
        BY <1>2, <3>1, <3>3 DEF ResultsAreEarned
      <3>5. EvaluationShape'
        BY <1>1, <2>3, <3>2 DEF EvaluationShape, EvaluationTypeOK, RunnerStages
      <3> QED BY <1>1, <1>4, <2>3, <3>4, <3>5 DEF ResultsAreEarned
    <2> QED BY <1>2, <2>2, <2>3 DEF Recorded
  <1>6. NothingIsLeft'
    BY <1>1 DEF NothingIsLeft, AwaitingAgent, Closing
  <1> QED BY <1>3, <1>5, <1>6

LEMMA TreeKilledIs ==
  ASSUME NEW t \in TestType
  PROVE  /\ TreeKilled(t) \in TestType /\ TreeKilled(t).process # "running"
         /\ t.process # "killed" \/ t.child # "group" =>
               (TreeKilled(t).process = "killed" => TreeKilled(t).child # "group")
  BY DEF TreeKilled, TestType

\* Nothing of an attempt depends on the process that plays a case.
LEMMA AttemptStands ==
  ASSUME EvaluationInv, test' \in TestType,
         UNCHANGED <<suite, stage, results, exit, guard, interrupted, att, tree, box, work, meter, disk, context>>
  PROVE  /\ EvaluationShape' /\ KindsKeepApart' /\ OnlyServicesWork' /\ ClosingIsHonest' /\ PassesAreKept'
         /\ RecordsAreLate' /\ OriginalsStay' /\ UsageIsWhole' /\ ResultsAreEarned'
  <1> USE DEF EvaluationInv
  <1>1. EvaluationShape'
    BY DEF EvaluationShape, EvaluationTypeOK
  <1>2. KindsKeepApart' /\ OnlyServicesWork' /\ ClosingIsHonest'
    BY DEF KindsKeepApart, OnlyServicesWork, ClosingIsHonest, Started
  <1>3. PassesAreKept'
    BY DEF PassesAreKept, Started, Orchestrated
  <1>4. RecordsAreLate'
    BY DEF RecordsAreLate, Earned, Orchestrated
  <1>5. OriginalsStay'
    BY DEF OriginalsStay, EvidenceOutlivesOriginals
  <1>6. UsageIsWhole' /\ ResultsAreEarned'
    BY DEF UsageIsWhole, ResultsAreEarned, Clean
  <1> QED BY <1>1, <1>2, <1>3, <1>4, <1>5, <1>6

\* What happens to a case, and around it, while the suite stands still.
LEMMA CaseKeepsInv ==
  ASSUME EvaluationInv, StartTest \/ TestEnds \/ Drained \/ TestTimesOut \/ Forks \/ TestExits \/ ChildExits
  PROVE  EvaluationInv'
  <1> USE DEF EvaluationInv
  <1>1. test \in TestType /\ att \in AttemptType
    BY DEF EvaluationShape
  <1>2. /\ UNCHANGED <<suite, results, exit, guard, interrupted, tree, box, work, meter, disk, context>>
        /\ test' \in TestType /\ att' \in AttemptType
        /\ stage' = "test" \/ test'.process # "running"
        /\ test'.process = "killed" => test'.child # "group"
        /\ \/ UNCHANGED <<stage, att>>
           \/ /\ stage \in CaseStages /\ stage' \in CaseStages
              /\ att'.built = att.built /\ att'.cleanup = att.cleanup /\ att'.usage = att.usage
              /\ att'.copied = att.copied /\ att'.graded = att.graded
    <2> USE <1>1 DEF NothingIsLeft, ledger, signals, agents, CaseStages
    <2>1. CASE StartTest
      BY <2>1 DEF StartTest, NoTest, TestType
    <2>2. CASE TestEnds
      BY <2>2 DEF TestEnds, TestType, AttemptType
    <2>3. CASE Drained
      BY <2>3 DEF Drained, TestType
    <2>4. CASE TestTimesOut
      BY <2>4, TreeKilledIs DEF TestTimesOut
    <2>5. CASE Forks
      BY <2>5 DEF Forks, TestType
    <2>6. CASE TestExits
      BY <2>6 DEF TestExits, TestType
    <2>7. CASE ChildExits
      BY <2>7 DEF ChildExits, TestType
    <2> QED BY <2>1, <2>2, <2>3, <2>4, <2>5, <2>6, <2>7
  <1>3. NothingIsLeft'
    BY <1>2 DEF NothingIsLeft, CaseStages, AwaitingAgent, Closing
  <1>4. CASE UNCHANGED <<stage, att>>
    BY <1>2, <1>3, <1>4, AttemptStands
  <1>5. CASE stage \in CaseStages /\ stage' \in CaseStages /\ att'.built = att.built
                 /\ att'.cleanup = att.cleanup
             /\ att'.usage = att.usage /\ att'.copied = att.copied /\ att'.graded = att.graded
    <2>1. suite.kind = "case"
      BY <1>5 DEF KindsKeepApart
    <2>2. /\ KindsKeepApart' /\ OnlyServicesWork' /\ ClosingIsHonest' /\ PassesAreKept'
          /\ RecordsAreLate' /\ OriginalsStay' /\ UsageIsWhole'
      BY <1>2, <1>5, <2>1, AsideKeeps DEF RunnerStages, CaseStages
    <2>3. EvaluationShape'
      <3>1. att'.status \in EvalStatus
        BY <1>2 DEF AttemptType
      <3> QED BY <1>2, <1>5, <3>1 DEF EvaluationShape, EvaluationTypeOK
    <2>4. ResultsAreEarned'
      BY <1>2, <1>5 DEF ResultsAreEarned, CaseStages, Clean
    <2> QED BY <1>3, <2>2, <2>3, <2>4
  <1> QED BY <1>2, <1>4, <1>5

\* A cancellation leads an attempt to its closing, or a case to its end.
LEMMA CancelledKeepsInv ==
  ASSUME EvaluationInv, stage \in AwaitingAgent \cup AwaitingTest, Cancelled,
         UNCHANGED <<suite, results, exit, agents, disk, context>>, guard' \in {"off", "armed", "fired"},
         interrupted' \in BOOLEAN
  PROVE  EvaluationInv'
  <1> USE DEF EvaluationInv, agents
  <1>1. test \in TestType /\ att \in AttemptType
    BY DEF EvaluationShape
  <1>2. /\ att' \in AttemptType /\ att'.built = att.built /\ att'.cleanup = att.cleanup
        /\ att'.usage = att.usage /\ att'.copied = att.copied /\ att'.graded = att.graded
        /\ att'.status = "passed" => att.status = "passed" /\ stage \in Closing
    BY <1>1, StatusIs DEF Cancelled, AttemptType
  <1>3. /\ test' \in TestType /\ test'.process # "running"
        /\ test'.process = "killed" => test'.child # "group"
    BY <1>1, TreeKilledIs DEF Cancelled, NothingIsLeft
  <1>4. /\ stage \in Closing => stage' = stage
        /\ stage \in AwaitingTest => stage' = "case over"
        /\ stage \in RunningStages => stage' = "close runs"
    BY DEF Cancelled, CancelledTo, Closing, AwaitingTest, RunningStages
  <1>5. NothingIsLeft'
    BY <1>3, <1>4 DEF NothingIsLeft, AwaitingAgent, AwaitingTest, Closing, RunningStages
  <1>6. EvaluationShape'
    <2>1. att'.status \in EvalStatus
      BY <1>2 DEF AttemptType
    <2> QED BY <1>2, <1>3, <1>4, <2>1 DEF EvaluationShape, EvaluationTypeOK, AwaitingAgent, AwaitingTest,
               Closing,
               RunningStages, AgentStages, OpenStages, CaseStages
  <1>7. ResultsAreEarned'
    BY <1>4 DEF ResultsAreEarned, AwaitingAgent, AwaitingTest, Closing, RunningStages, Clean
  <1>8. CASE stage \in AwaitingTest
    <2>1. /\ stage \in CaseStages /\ stage' \in CaseStages /\ suite.kind = "case"
      BY <1>4, <1>8 DEF AwaitingTest, CaseStages, KindsKeepApart
    <2>2. /\ KindsKeepApart' /\ OnlyServicesWork' /\ ClosingIsHonest' /\ PassesAreKept'
          /\ RecordsAreLate' /\ OriginalsStay' /\ UsageIsWhole'
      BY <1>2, <2>1, AsideKeeps DEF RunnerStages, CaseStages
    <2> QED BY <1>5, <1>6, <1>7, <2>2
  <1>9. CASE stage \in AwaitingAgent
    <2>1. KindsKeepApart' /\ OnlyServicesWork' /\ UsageIsWhole'
      BY <1>2, <1>4, <1>9 DEF KindsKeepApart, OnlyServicesWork, UsageIsWhole, Started, AwaitingAgent, Closing,
         RunningStages, AgentStages, CaseStages, OpenStages
    <2>2. ClosingIsHonest' /\ PassesAreKept'
      BY <1>2, <1>4, <1>9 DEF ClosingIsHonest, PassesAreKept, Started, AwaitingAgent, Closing, RunningStages,
         OpenStages,
         EndStages
    <2>3. RecordsAreLate' /\ OriginalsStay'
      BY <1>2, <1>4, <1>9 DEF RecordsAreLate, OriginalsStay, EvidenceOutlivesOriginals, AwaitingAgent, Closing,
         RunningStages,
         AgentStages, OpenStages, EndStages
    <2> QED BY <1>5, <1>6, <1>7, <2>1, <2>2, <2>3
  <1> QED BY <1>8, <1>9

LEMMA InterruptKeepsInv ==
  ASSUME EvaluationInv, GuardFires \/ Interrupt
  PROVE  EvaluationInv'
  <1>1. CASE stage \in AwaitingAgent \cup AwaitingTest /\ Cancelled
    <2>1. /\ UNCHANGED <<suite, results, exit, agents, disk, context>>
          /\ guard' \in {"off", "armed", "fired"} /\ interrupted' \in BOOLEAN
      <3>1. stage # "setup"
        BY <1>1 DEF AwaitingAgent, AwaitingTest, Closing
      <3> QED BY <3>1 DEF GuardFires, Interrupt, ledger, EvaluationInv, EvaluationShape, EvaluationTypeOK
    <2> QED BY <1>1, <2>1, CancelledKeepsInv
  <1>2. CASE /\ stage = "setup" /\ stage' = "ended" /\ exit' = "interrupted" /\ interrupted' = TRUE
             /\ UNCHANGED <<att, test, suite, results, guard, agents, disk, context>>
    <2>1. /\ KindsKeepApart' /\ OnlyServicesWork' /\ ClosingIsHonest' /\ PassesAreKept'
          /\ RecordsAreLate' /\ OriginalsStay' /\ UsageIsWhole'
      BY <1>2, AsideKeeps DEF agents, EvaluationInv, EvaluationShape, RunnerStages, OverStages, CaseStages
    <2>2. EvaluationShape' /\ ResultsAreEarned' /\ NothingIsLeft'
      BY <1>2 DEF agents, EvaluationInv, EvaluationShape, EvaluationTypeOK, ResultsAreEarned, NothingIsLeft,
                  RunnerStages, AwaitingAgent, Closing, Clean
    <2> QED BY <2>1, <2>2 DEF EvaluationInv
  <1> QED BY <1>1, <1>2 DEF GuardFires, Interrupt

-------------------------------------------------------------------------------
(* Evaluation: the specification.                                             *)

LEMMA EvaluationInitInv ==
  ASSUME EvaluationInit
  PROVE  EvaluationInv
  <1>1. Fresh \in AttemptType /\ NoTest \in TestType /\ NoDisk \in DiskType
    BY StatusIs DEF Fresh, AttemptType, NoTest, TestType, NoDisk, DiskType
  <1>2. EvaluationShape
    <2>1. Fresh.status \in EvalStatus /\ NoTree.root \in RunStatus
      BY StatusIs DEF Fresh, NoTree
    <2>2. << >> \in Seq([verdict : EvalStatus, record : EvalStatus \cup {"none", "pending"}])
      OBVIOUS
    <2>3. EvaluationTypeOK
      BY <2>1, <2>2, StatusIs DEF EvaluationInit, EvaluationTypeOK
    <2> QED BY <1>1, <2>3, NoTreeIs DEF EvaluationInit, EvaluationShape, RunnerStages, NoDisk
  <1>3. KindsKeepApart /\ OnlyServicesWork /\ ClosingIsHonest /\ PassesAreKept
    BY NoTreeIs DEF EvaluationInit, KindsKeepApart, OnlyServicesWork, ClosingIsHonest, PassesAreKept, Started,
       Fresh,
       AgentStages, CaseStages, OpenStages, RunningStages, EndStages, NoDisk
  <1>4. RecordsAreLate /\ OriginalsStay /\ UsageIsWhole /\ NothingIsLeft /\ ResultsAreEarned
    BY DEF EvaluationInit, RecordsAreLate, OriginalsStay, EvidenceOutlivesOriginals, UsageIsWhole,
       NothingIsLeft,
           ResultsAreEarned, Fresh, NoTest, AgentStages, OpenStages, RunningStages, EndStages, AwaitingAgent, Closing
  <1> QED BY <1>2, <1>3, <1>4 DEF EvaluationInv

\* What the closing, the records and the ledger say of an attempt is true in every reachable state,
\* for every suite, number of sub-agents and workflow.
THEOREM EvaluationInvHolds == EvaluationSpec => []EvaluationInv
  <1>1. EvaluationInit => EvaluationInv
    BY EvaluationInitInv
  <1>2. EvaluationInv /\ [EvaluationNext]_evaluationVars => EvaluationInv'
    <2> SUFFICES ASSUME EvaluationInv, [EvaluationNext]_evaluationVars  PROVE EvaluationInv'
      OBVIOUS
    <2>1. CASE Runner
      BY <2>1, RunnerStepKeepsInv, BeginKeepsInv DEF Runner
    <2>2. CASE Attempt
      BY <2>2, OpeningKeepsInv, AgentKeepsInv, CloseRunsKeepsInv, CloseBoxesKeepsInv, CloseRowsKeepsInv,
         JudgeKeepsInv,
         CopyEvidenceKeepsInv, WritePendingKeepsInv, RemoveTemporaryKeepsInv, WriteFinalKeepsInv, RecordedKeepsInv
         DEF Attempt
    <2>3. CASE Case \/ Forks \/ TestExits \/ ChildExits
      BY <2>3, CaseKeepsInv, RecordedKeepsInv DEF Case
    <2>4. CASE Timers \/ Interrupt
      BY <2>4, OpeningKeepsInv, CaseKeepsInv, InterruptKeepsInv DEF Timers
    <2>5. CASE Agents
      BY <2>5, AgentKeepsInv, WritingOnKeepsInv DEF Agents
    <2>6. CASE UNCHANGED evaluationVars
      <3>1. UNCHANGED <<suite, stage, results, exit, guard, interrupted, att, tree, box, work, meter, disk, context, test>>
        BY <2>6 DEF evaluationVars
      <3>2. test \in TestType
        BY DEF EvaluationInv, EvaluationShape
      <3>3. NothingIsLeft'
        BY <3>1 DEF EvaluationInv, NothingIsLeft
      <3> QED BY <3>1, <3>2, <3>3, AttemptStands DEF EvaluationInv
    <2> QED BY <2>1, <2>2, <2>3, <2>4, <2>5, <2>6 DEF EvaluationNext
  <1> QED BY <1>1, <1>2, PTL DEF EvaluationSpec

\* ReportsAreEarned: attempt.json, the results and the exit code call nothing passed that the agents,
\* their files and the closing did not earn.
THEOREM ReportsAlwaysEarned == EvaluationSpec => []ReportsAreEarned
  <1>1. EvaluationInv => ReportsAreEarned
    BY DEF EvaluationInv, ReportsAreEarned, RecordsAreLate, ResultsAreEarned, UsageIsWhole, Clean
  <1> QED BY <1>1, EvaluationInvHolds, PTL

\* AttemptsAreClean: whenever the harness is killed, evidence is on disk before originals go, and what
\* is left of an attempt is reported.
THEOREM AttemptsAlwaysClean == EvaluationSpec => []AttemptsAreClean
  <1>1. EvaluationInv => AttemptsAreClean
    <2> SUFFICES ASSUME EvaluationInv  PROVE AttemptsAreClean
      OBVIOUS
    <2>1. EvaluationTypeOK /\ EvidenceOutlivesOriginals
      BY DEF EvaluationInv, EvaluationShape, OriginalsStay
    <2>2. AttemptsLeaveNothing
      <3> SUFFICES ASSUME stage \in {"idle", "report", "written", "ended"}
                   PROVE  /\ context = "own"
                          /\ test.process # "running" /\ (test.process = "killed" => test.child # "group")
                          /\ att.cleanup = "confirmed" => ActiveRuns(tree) = {} /\ ~box
                          /\ (ActiveRuns(tree) # {} \/ box) => att.cleanup = "failed"
        BY DEF AttemptsLeaveNothing
      <3>1. context = "own" /\ test.process # "running" /\ (test.process = "killed" => test.child # "group")
        BY DEF EvaluationInv, NothingIsLeft, AwaitingAgent, Closing
      <3>2. att.cleanup # "failed" => ActiveRuns(tree) = {} /\ ~box
        BY DEF EvaluationInv, ClosingIsHonest, OpenStages, RunningStages
      <3> QED BY <3>1, <3>2
    <2> QED BY <2>1, <2>2 DEF AttemptsAreClean
  <1> QED BY <1>1, EvaluationInvHolds, PTL

-------------------------------------------------------------------------------
(* Campaign: the inductive invariant                                          *)

Closed(w)   == container[w] = None /\ cmd[w] = None
WorldsOf(l) == {Base(l)} \cup {Retry(l, t) : t \in Tasks}

\* Where a coroutine has a task, where its world runs, and where its attempt is in the checkpoint.
BuildingPlaces == {"network", "create", "start"}
InWorldPlaces  == {"probe", "enlist", "prepare", "spawn", "note", "wait", "commit"}
EnlistedPlaces == {"prepare", "spawn", "note", "wait", "commit"}
AttemptPlaces  == {"register", "open", "undo"} \cup BuildingPlaces \cup InWorldPlaces
TaskPlaces     == AttemptPlaces \cup {"again", "removed"}

CommitPlaces == {"check", "clear", "cleared", "mkdir", "intent", "rename", "record"}
CommitType == [by : Lanes \cup {"recovery"}, task : Tasks, attempt : Attempts, raw : Raw, at : CommitPlaces]
ControllerType ==
  [phase : {"down", "stop", "close", "commit", "run", "cleanup"}, stop : BOOLEAN, interrupted : BOOLEAN,
   errors : BOOLEAN, outcome : {None, "refused", "complete", "incomplete"}, opened : SUBSET Worlds]

\* The variables CampaignTypeOK does not type.
CampaignShape ==
  /\ CampaignTypeOK
  /\ ctl \in ControllerType
  /\ commit = NoCommit \/ commit \in CommitType

\* Coroutines exist and tasks wait while the controller runs, commits while it runs or recovers.
PhasesAreKept ==
  /\ ctl.phase # "run" => \A l \in Lanes : lane[l] = EndedLane
  /\ ctl.phase \notin {"run", "commit"} => commit = NoCommit
  /\ ctl.phase # "down" => ctl.outcome = None
  /\ ctl.phase \notin {"run", "cleanup"} => pending = {}

\* A coroutine and the task it has taken.
HoldsTask(l) ==
  /\ lane[l].at = "ended" => lane[l] = EndedLane
  /\ lane[l].at = "idle" => lane[l].task = None
  /\ lane[l].at \in TaskPlaces =>
       /\ lane[l].task \in Tasks \ pending
       /\ checkpoint.results[lane[l].task] = 0
       /\ lane[l].at \in AttemptPlaces => lane[l].attempt = checkpoint.attempts[lane[l].task] + 1
       /\ lane[l].at \notin AttemptPlaces => lane[l].attempt = checkpoint.attempts[lane[l].task]

\* No task is held twice, and only tasks without a result are waiting.
TasksAreHeld ==
  /\ \A l \in Lanes : HoldsTask(l)
  /\ \A l, m \in Lanes : l # m /\ lane[l].at \in TaskPlaces /\ lane[m].at \in TaskPlaces
                           => lane[l].task # lane[m].task
  /\ \A t \in pending : checkpoint.results[t] = 0

\* What docker has is in the checkpoint and on disk, and known to the running controller.
WorldsAreRegistered ==
  \A w \in Worlds : ~Closed(w) =>
    /\ w \in checkpoint.worlds /\ Kept(w)
    /\ ctl.phase \in {"run", "cleanup"} => w \in ctl.opened

\* A coroutine and the world it works in; its other worlds are closed.
KeepsWorld(l) ==
  /\ lane[l].world # NoWorld => lane[l].world \in WorldsOf(l)
  /\ lane[l].at \in TaskPlaces => lane[l].world # NoWorld
  /\ lane[l].at # "ended" => \A w \in WorldsOf(l) : w # lane[l].world => Closed(w)
  /\ lane[l].at \in {"register", "open", "removed"} => Closed(lane[l].world)
  /\ lane[l].at = "open" => lane[l].world \in checkpoint.worlds /\ lane[l].world \in ctl.opened
  /\ lane[l].at \in BuildingPlaces => cmd[lane[l].world] = lane[l].at
  /\ \/ lane[l].at \in InWorldPlaces
     \/ lane[l].at = "idle" /\ lane[l].world # NoWorld /\ ~ctl.stop
     => container[lane[l].world] = "running" /\ cmd[lane[l].world] = None

\* A coroutine and the attempt it has enlisted.
IsEnlisted(l) ==
  /\ lane[l].at \in EnlistedPlaces => RowOf(lane[l].task) = [attempt |-> lane[l].attempt, world |-> lane[l].world]
  /\ lane[l].at \in {"spawn", "note", "wait"} => HasRecord(lane[l].task, lane[l].attempt)

LanesKeepTheirWorld == \A l \in Lanes : KeepsWorld(l)
AttemptsAreEnlisted == \A l \in Lanes : IsEnlisted(l)

\* The attempt under way follows those that are counted, and none is counted twice.
RowsAreNext ==
  /\ \A t \in Tasks : RowOf(t) # NoRow => checkpoint.results[t] = 0
         /\ RowOf(t).attempt = checkpoint.attempts[t] + 1
  /\ \A t \in Tasks, a \in Attempts :
       a > checkpoint.attempts[t] /\ job[t][a].record # None => RowOf(t) # NoRow /\ RowOf(t).attempt = a
  /\ \A t \in Tasks, a \in Attempts :
       a <= checkpoint.attempts[t] /\ job[t][a].result = "good" /\ ~job[t][a].timedOut
         => checkpoint.results[t] # 0 /\ a = checkpoint.attempts[t]
  /\ \A t \in Tasks : checkpoint.results[t] # 0 => canonical[t] = checkpoint.results[t]

\* A worker nobody gave up is alone in a world that runs.
LiveKeepTheirWorld ==
  \A t \in Tasks, a \in Attempts : Live(t, a) =>
    /\ RowOf(t) # NoRow /\ RowOf(t).attempt = a
    /\ container[RowOf(t).world] = "running"
    /\ \A u \in Tasks \ {t} : (\E b \in Attempts : Live(u, b)) => RowOf(u).world # RowOf(t).world

\* Where live workers are, from their launch to the recovery that stops them.
LiveAreKnown ==
  /\ \A t \in Tasks, a \in Attempts : Live(t, a) => HasRecord(t, a) /\ cmd[RowOf(t).world] = None
  /\ LiveKeepTheirWorld
  /\ ctl.phase = "run" => \A t \in Tasks, a \in Attempts : Live(t, a) =>
        \E l \in Lanes : lane[l].at \in {"note", "wait"} /\ lane[l].task = t /\ lane[l].attempt = a
  /\ ctl.phase = "stop" => \A t \in Tasks, a \in Attempts : Live(t, a) => t \in todo
  /\ ctl.phase \in {"close", "commit", "cleanup"} \/ ctl.outcome = "complete" =>
        \A t \in Tasks, a \in Attempts : ~Live(t, a)

\* What a commit knows of the attempt it counts.
CommitsAreSound ==
  /\ ctl.phase = "commit" => \A t \in todo : t \in Tasks /\ RowOf(t) # NoRow
  /\ commit # NoCommit =>
       /\ checkpoint.results[commit.task] = 0
       /\ commit.attempt = checkpoint.attempts[commit.task] + 1
       /\ \A a \in Attempts : ~Live(commit.task, a)
       /\ job[commit.task][commit.attempt].result = "good" /\ ~job[commit.task][commit.attempt].timedOut
            => commit.raw = "good"
       /\ commit.raw # "good" => commit.at = "record"
       /\ commit.raw = "good" /\ commit.at = "record" => canonical[commit.task] = commit.attempt
       /\ IF ctl.phase = "run"
          THEN /\ commit.by \in Lanes
               /\ lane[commit.by].at = "commit" /\ lane[commit.by].task = commit.task
          ELSE commit.by = "recovery"

\* What the recovery and the final cleanup have closed.
ClosedByPhases ==
  /\ ctl.phase = "close" => \A w \in Worlds : Closed(w) \/ w \in todo
  /\ ctl.phase = "commit" \/ ctl.outcome = "complete" => \A w \in Worlds : Closed(w)
  /\ ctl.phase = "cleanup" /\ ~ctl.errors => \A w \in Worlds : Closed(w) \/ w \in todo

CampaignCore ==
  /\ CampaignShape /\ PhasesAreKept /\ TasksAreHeld /\ WorldsAreRegistered /\ LanesKeepTheirWorld
  /\ AttemptsAreEnlisted /\ RowsAreNext /\ LiveAreKnown /\ CommitsAreSound /\ ClosedByPhases

\* A task whose coroutine gave its worker up: no coroutine has it or can take it in this run,
\* and its world belongs to a coroutine that is over.
LeftAlone(t) ==
  /\ ctl.errors /\ t \notin pending
  /\ \A l \in Lanes : lane[l].at \in TaskPlaces => lane[l].task # t
  /\ \E m \in Lanes : lane[m].at = "ended" /\ RowOf(t).world \in WorldsOf(m)

\* What a controller that is not running its coroutines does about it.
Pursued(t) ==
  /\ ctl.phase \notin {"close", "commit"} /\ ctl.outcome # "complete"
  /\ ctl.phase = "stop" => t \in todo
  /\ ctl.phase = "cleanup" => ctl.errors

\* Workers that were given up, until the next start stops them.
AdriftAreKnown ==
  \A t \in Tasks, a \in Attempts : Adrift(t, a) =>
    /\ HasRecord(t, a) /\ RowOf(t) # NoRow /\ RowOf(t).attempt = a
    /\ \A u \in Tasks \ {t} : (\E b \in Attempts : AtWork(u, b)) => RowOf(u).world # RowOf(t).world
    /\ ctl.phase = "run" => LeftAlone(t)
    /\ Pursued(t)

CampaignInv == CampaignCore /\ AdriftAreKnown

-------------------------------------------------------------------------------
(* Campaign: places, worlds and rows.                                         *)

LEMMA PlacesAre ==
  /\ BuildingPlaces \cup InWorldPlaces \cup EnlistedPlaces \subseteq AttemptPlaces
  /\ AttemptPlaces \subseteq TaskPlaces
  /\ EnlistedPlaces \subseteq InWorldPlaces
  /\ {"note", "wait", "spawn"} \subseteq EnlistedPlaces
  /\ "idle" \notin TaskPlaces /\ "ended" \notin TaskPlaces
  BY DEF BuildingPlaces, InWorldPlaces, EnlistedPlaces, AttemptPlaces, TaskPlaces

LEMMA WorldsAre ==
  /\ NoWorld \notin Worlds
  /\ \A l \in Lanes : WorldsOf(l) \subseteq Worlds
  /\ \A l, m \in Lanes : l # m => \A v \in WorldsOf(l), w \in WorldsOf(m) : v # w
  /\ \A w \in Worlds : \E l \in Lanes : w \in WorldsOf(l)
  <1>1. \A l, m : <<l>> # << >> /\ <<l, m>> # << >>
    OBVIOUS
  <1>2. \A l, m, t, u : l # m => <<l>> # <<m>> /\ <<l>> # <<m, t>> /\ <<l, t>> # <<m>> /\ <<l, t>> # <<m, u>>
    OBVIOUS
  <1> QED BY <1>1, <1>2 DEF NoWorld, Worlds, WorldsOf, Base, Retry

LEMMA RowsAre ==
  /\ Last \in Nat /\ Last = 1 + Retries /\ Attempts \subseteq Nat
  /\ \A a : a \in Attempts <=> a \in Nat /\ 1 <= a /\ a <= Last
  /\ NoRow \notin Row /\ NoRow.attempt = 0
  /\ \A r \in Row : r.attempt \in Attempts /\ r.world \in Worlds
  BY CampaignAssumption DEF Last, Attempts, NoRow, Row

LEMMA NoCommitIs == NoCommit \notin CommitType /\ NoCommit.at = None /\ None \notin CommitPlaces
  <1>1. NoCommit.at = None /\ None \notin CommitPlaces
    BY DEF NoCommit, None, CommitPlaces
  <1> QED BY <1>1 DEF CommitType

\* What is left alone by a step of coroutine l: whatever belongs to another task or another world.
LaneType ==
  [at : {"idle", "register", "open", "network", "create", "start", "probe",
         "undo", "enlist", "prepare", "spawn", "note", "wait", "commit", "again", "removed", "ended"},
   task : Tasks \cup {None}, attempt : 0..Last, world : Worlds \cup {NoWorld}]

CoroutineFrame(l) ==
  /\ ctl.phase = "run" /\ ctl'.phase = "run" /\ ctl' \in ControllerType /\ ctl'.outcome = ctl.outcome
  /\ (ctl.stop => ctl'.stop) /\ ctl.opened \subseteq ctl'.opened
  /\ lane' \in [Lanes -> LaneType] /\ \A m \in Lanes \ {l} : lane'[m] = lane[m]
  /\ checkpoint'.results = checkpoint.results /\ checkpoint'.attempts = checkpoint.attempts
  /\ checkpoint.worlds \subseteq checkpoint'.worlds
  /\ UNCHANGED <<canonical, staging>>
  /\ \A t \in Tasks : t # lane[l].task => RowOf(t)' = RowOf(t) /\ job'[t] = job[t] /\ proc'[t] = proc[t]
  /\ \A w \in Worlds : w # lane[l].world => container'[w] = container[w] /\ cmd'[w] = cmd[w]
         /\ label'[w] = label[w]
  /\ pending' \subseteq pending

LEMMA OthersKeepTheirs ==
  ASSUME CampaignCore, NEW l \in Lanes, CoroutineFrame(l), NEW m \in Lanes \ {l}
  PROVE  HoldsTask(m)' /\ KeepsWorld(m)' /\ IsEnlisted(m)'
  <1> USE DEF CampaignCore
  <1>1. lane'[m] = lane[m] /\ HoldsTask(m) /\ KeepsWorld(m) /\ IsEnlisted(m)
    BY DEF CoroutineFrame, TasksAreHeld, LanesKeepTheirWorld, AttemptsAreEnlisted
  <1>2. HoldsTask(m)'
    BY <1>1 DEF HoldsTask, CoroutineFrame
  <1>3. \A w \in WorldsOf(m) : container'[w] = container[w] /\ cmd'[w] = cmd[w]
    <2>1. \A w \in WorldsOf(m) : w \in Worlds /\ w # lane[l].world
      <3>1. lane[l].world = NoWorld \/ lane[l].world \in WorldsOf(l)
        BY DEF LanesKeepTheirWorld, KeepsWorld
      <3> QED BY <3>1, WorldsAre
    <2> QED BY <2>1 DEF CoroutineFrame
  <1>4. KeepsWorld(m)'
    <2>1. /\ lane[m].world # NoWorld => lane[m].world \in WorldsOf(m)
          /\ \A w \in WorldsOf(m) : Closed(w)' = Closed(w)
      BY <1>1, <1>3 DEF KeepsWorld, Closed
    <2>2. lane[m].at \in TaskPlaces => lane[m].world # NoWorld /\ lane[m].world \in WorldsOf(m)
      BY <1>1 DEF KeepsWorld
    <2>3. ~ctl'.stop => ~ctl.stop
      BY DEF CoroutineFrame
    <2>4. /\ lane[m].at \in {"register", "open", "removed"} => Closed(lane[m].world)'
          /\ lane[m].at = "open" => lane[m].world \in checkpoint'.worlds /\ lane[m].world \in ctl'.opened
      BY <1>1, <2>1, <2>2 DEF KeepsWorld, CoroutineFrame, TaskPlaces, AttemptPlaces
    <2>5. lane[m].at \in BuildingPlaces => cmd'[lane[m].world] = lane[m].at
      BY <1>1, <1>3, <2>2, PlacesAre DEF KeepsWorld
    <2>6. \/ lane[m].at \in InWorldPlaces
          \/ lane[m].at = "idle" /\ lane[m].world # NoWorld /\ ~ctl'.stop
          => container'[lane[m].world] = "running" /\ cmd'[lane[m].world] = None
      <3> SUFFICES ASSUME \/ lane[m].at \in InWorldPlaces
                          \/ lane[m].at = "idle" /\ lane[m].world # NoWorld /\ ~ctl'.stop
                   PROVE  container'[lane[m].world] = "running" /\ cmd'[lane[m].world] = None
        OBVIOUS
      <3>1. lane[m].world \in WorldsOf(m)
        BY <2>1, <2>2, PlacesAre
      <3>2. container[lane[m].world] = "running" /\ cmd[lane[m].world] = None
        BY <1>1, <2>3 DEF KeepsWorld
      <3> QED BY <1>3, <3>1, <3>2
    <2>7. lane[m].at # "ended" => \A w \in WorldsOf(m) : w # lane[m].world => Closed(w)'
      BY <1>1, <2>1 DEF KeepsWorld
    <2> HIDE DEF CampaignCore
    <2> QED BY <1>1, <2>1, <2>2, <2>4, <2>5, <2>6, <2>7 DEF KeepsWorld
  <1>5. lane[m].at \in EnlistedPlaces =>
          /\ lane[m].task \in Tasks
          /\ RowOf(lane[m].task)' = RowOf(lane[m].task) /\ job'[lane[m].task] = job[lane[m].task]
    <2> SUFFICES ASSUME lane[m].at \in EnlistedPlaces
                 PROVE  lane[m].task \in Tasks /\ lane[m].task # lane[l].task
      BY DEF CoroutineFrame
    <2>1. lane[m].at \in TaskPlaces /\ lane[m].task \in Tasks
      BY <1>1, PlacesAre DEF HoldsTask
    <2>2. lane[l].at \in TaskPlaces \/ lane[l].task = None
      BY DEF TasksAreHeld, HoldsTask, EndedLane, CampaignShape, CampaignTypeOK, TaskPlaces, AttemptPlaces,
             BuildingPlaces, InWorldPlaces
    <2>3. None \notin Tasks
      BY CampaignAssumption
    <2> QED BY <2>1, <2>2, <2>3 DEF TasksAreHeld
  <1>6. IsEnlisted(m)'
    BY <1>1, <1>5, PlacesAre DEF IsEnlisted, HasRecord, RowOf
  <1> QED BY <1>2, <1>4, <1>6

\* A step of coroutine l that leaves its own part in order keeps what is said of all coroutines.
LEMMA CoroutineKeeps ==
  ASSUME CampaignCore, NEW l \in Lanes, CoroutineFrame(l),
         HoldsTask(l)', KeepsWorld(l)', IsEnlisted(l)',
         lane'[l].at \in TaskPlaces => \A m \in Lanes \ {l} : lane[m].at \in TaskPlaces
             => lane[m].task # lane'[l].task,
         \A w \in Worlds : w = lane[l].world /\ ~Closed(w)' =>
            w \in checkpoint'.worlds /\ Kept(w)' /\ w \in ctl'.opened
  PROVE  /\ PhasesAreKept' /\ TasksAreHeld' /\ WorldsAreRegistered' /\ LanesKeepTheirWorld'
         /\ AttemptsAreEnlisted' /\ ClosedByPhases'
  <1> USE DEF CampaignCore
  <1>1. \A m \in Lanes \ {l} : lane'[m] = lane[m] /\ HoldsTask(m)' /\ KeepsWorld(m)' /\ IsEnlisted(m)'
    BY OthersKeepTheirs DEF CoroutineFrame
  <1>2. ctl.phase = "run" /\ ctl'.phase = "run" /\ ctl'.outcome = None
    BY DEF CoroutineFrame, PhasesAreKept
  <1>3. PhasesAreKept' /\ ClosedByPhases'
    <2>1. None # "complete"
      BY DEF None
    <2> QED BY <1>2, <2>1 DEF PhasesAreKept, ClosedByPhases
  <1>4. TasksAreHeld'
    <2>1. \A k, m \in Lanes : k # m /\ lane'[k].at \in TaskPlaces /\ lane'[m].at \in TaskPlaces
                              => lane'[k].task # lane'[m].task
      <3> SUFFICES ASSUME NEW k \in Lanes, NEW m \in Lanes, k # m, lane'[k].at \in TaskPlaces, lane'[m].at \in TaskPlaces
                   PROVE  lane'[k].task # lane'[m].task
        OBVIOUS
      <3>1. CASE k = l
        BY <1>1, <3>1
      <3>2. CASE m = l
        BY <1>1, <3>2
      <3>3. CASE k # l /\ m # l
        BY <1>1, <3>3 DEF TasksAreHeld
      <3> QED BY <3>1, <3>2, <3>3
    <2>2. \A t \in pending' : checkpoint'.results[t] = 0
      BY DEF CoroutineFrame, TasksAreHeld
    <2>3. \A m \in Lanes : HoldsTask(m)'
      BY <1>1
    <2> QED BY <2>1, <2>2, <2>3 DEF TasksAreHeld
  <1>5. LanesKeepTheirWorld' /\ AttemptsAreEnlisted'
    <2>1. \A m \in Lanes : KeepsWorld(m)' /\ IsEnlisted(m)'
      BY <1>1
    <2> QED BY <2>1 DEF LanesKeepTheirWorld, AttemptsAreEnlisted
  <1>6. WorldsAreRegistered'
    <2> SUFFICES ASSUME NEW w \in Worlds, ~Closed(w)'
                 PROVE  w \in checkpoint'.worlds /\ Kept(w)' /\ w \in ctl'.opened
      BY DEF WorldsAreRegistered
    <2>1. CASE w = lane[l].world
      BY <2>1, WorldsAre
    <2>2. CASE w # lane[l].world
      <3>1. container'[w] = container[w] /\ cmd'[w] = cmd[w] /\ label'[w] = label[w]
        BY <2>2 DEF CoroutineFrame
      <3>2. ~Closed(w)
        BY <3>1 DEF Closed
      <3>3. w \in checkpoint.worlds /\ Kept(w) /\ w \in ctl.opened
        BY <1>2, <3>2 DEF WorldsAreRegistered
      <3> QED BY <3>1, <3>3 DEF Kept, CoroutineFrame
    <2> QED BY <2>1, <2>2
  <1> QED BY <1>3, <1>4, <1>5, <1>6

\* A live worker belongs to a coroutine, and works in the world of that coroutine.
LEMMA LiveIs ==
  ASSUME CampaignCore, ctl.phase = "run", NEW t \in Tasks, NEW a \in Attempts, Live(t, a)
  PROVE  \E m \in Lanes : /\ lane[m].at \in {"note", "wait"} /\ lane[m].task = t /\ lane[m].attempt = a
                          /\ RowOf(t) = [attempt |-> a, world |-> lane[m].world]
                          /\ lane[m].world \in WorldsOf(m)
  <1> USE DEF CampaignCore
  <1>1. PICK m \in Lanes : lane[m].at \in {"note", "wait"} /\ lane[m].task = t /\ lane[m].attempt = a
    BY DEF LiveAreKnown
  <1>2. lane[m].at \in EnlistedPlaces /\ lane[m].at \in TaskPlaces
    BY <1>1, PlacesAre
  <1>3. RowOf(t) = [attempt |-> a, world |-> lane[m].world]
    BY <1>1, <1>2 DEF AttemptsAreEnlisted, IsEnlisted
  <1>4. lane[m].world \in WorldsOf(m)
    BY <1>2 DEF LanesKeepTheirWorld, KeepsWorld
  <1> QED BY <1>1, <1>3, <1>4

\* Live workers are where they were, when the step launches none and leaves the own one in its place.
LEMMA LiveStay ==
  ASSUME CampaignCore, NEW l \in Lanes, CoroutineFrame(l),
         \A t \in Tasks, a \in Attempts : Live(t, a)' => Live(t, a) /\ HasRecord(t, a)',
         \A t \in Tasks, a \in Attempts :
            Live(t, a)' /\ lane[l].at \in {"note", "wait"} /\ lane[l].task = t /\ lane[l].attempt = a =>
              /\ RowOf(t)' = RowOf(t) /\ UNCHANGED <<container, cmd>>
              /\ lane'[l].at \in {"note", "wait"} /\ lane'[l].task = t /\ lane'[l].attempt = a
  PROVE  LiveAreKnown'
  <1> USE DEF CampaignCore
  <1>1. ctl.phase = "run" /\ ctl'.phase = "run" /\ ctl'.outcome = None /\ None # "complete"
    BY DEF CoroutineFrame, PhasesAreKept, None
  <1>2. ASSUME NEW t \in Tasks, NEW a \in Attempts, Live(t, a), Live(t, a)'
        PROVE  /\ RowOf(t)' = RowOf(t)
               /\ container'[RowOf(t).world] = container[RowOf(t).world]
                      /\ cmd'[RowOf(t).world] = cmd[RowOf(t).world]
               /\ \E m \in Lanes : lane'[m].at \in {"note", "wait"} /\ lane'[m].task = t /\ lane'[m].attempt = a
    <2>1. PICK m \in Lanes : /\ lane[m].at \in {"note", "wait"} /\ lane[m].task = t /\ lane[m].attempt = a
                             /\ RowOf(t) = [attempt |-> a, world |-> lane[m].world]
                             /\ lane[m].world \in WorldsOf(m)
      BY <1>1, <1>2, LiveIs
    <2>2. CASE m = l
      BY <1>2, <2>1, <2>2
    <2>3. CASE m # l
      <3>1. lane'[m] = lane[m]
        BY <2>3 DEF CoroutineFrame
      <3>2. lane[l].world = NoWorld \/ lane[l].world \in WorldsOf(l)
        BY DEF LanesKeepTheirWorld, KeepsWorld
      <3>3. RowOf(t).world \in Worlds /\ RowOf(t).world # lane[l].world
        BY <2>1, <2>3, <3>2, WorldsAre
      <3>4. t # lane[l].task
        <4>1. lane[m].at \in TaskPlaces
          BY <2>1, PlacesAre
        <4>2. lane[l].at \in TaskPlaces \/ lane[l].task = None
          BY DEF TasksAreHeld, HoldsTask, EndedLane, CampaignShape, CampaignTypeOK, TaskPlaces, AttemptPlaces,
                 BuildingPlaces, InWorldPlaces
        <4>3. None \notin Tasks
          BY CampaignAssumption
        <4> QED BY <2>1, <2>3, <4>1, <4>2, <4>3 DEF TasksAreHeld
      <3> QED BY <2>1, <3>1, <3>3, <3>4 DEF CoroutineFrame
    <2> QED BY <2>2, <2>3
  <1>3. \A t \in Tasks, a \in Attempts : Live(t, a)' => Live(t, a) /\ HasRecord(t, a)'
    OBVIOUS
  <1>4. LiveKeepTheirWorld'
    <2>1. \A t \in Tasks, a \in Attempts : Live(t, a) =>
            /\ RowOf(t) # NoRow /\ RowOf(t).attempt = a /\ container[RowOf(t).world] = "running"
            /\ \A u \in Tasks \ {t} : (\E b \in Attempts : Live(u, b)) => RowOf(u).world # RowOf(t).world
      BY DEF LiveAreKnown, LiveKeepTheirWorld
    <2>2. \A t \in Tasks, a \in Attempts : Live(t, a)' => RowOf(t)' = RowOf(t) /\ Live(t, a)
             /\ container'[RowOf(t).world] = container[RowOf(t).world]
      BY <1>2, <1>3
    <2> QED BY <2>1, <2>2 DEF LiveKeepTheirWorld
  <1>5. \A t \in Tasks, a \in Attempts : Live(t, a)' => HasRecord(t, a)' /\ (cmd[RowOf(t).world] = None)'
    BY <1>2, <1>3 DEF LiveAreKnown
  <1> QED BY <1>1, <1>2, <1>3, <1>4, <1>5 DEF LiveAreKnown

\* A coroutine that has no worker and changes neither records nor rows.
LEMMA QuietStepKeepsInv ==
  ASSUME CampaignCore, NEW l \in Lanes, CoroutineFrame(l), lane[l].at \notin {"note", "wait"},
         UNCHANGED <<job, proc, commit>>, checkpoint'.inflight = checkpoint.inflight, commit = NoCommit,
         CampaignTypeOK', HoldsTask(l)', KeepsWorld(l)', IsEnlisted(l)',
         lane'[l].at \in TaskPlaces => \A m \in Lanes \ {l} : lane[m].at \in TaskPlaces
             => lane[m].task # lane'[l].task,
         \A w \in Worlds : w = lane[l].world /\ ~Closed(w)' =>
            w \in checkpoint'.worlds /\ Kept(w)' /\ w \in ctl'.opened
  PROVE  CampaignCore'
  <1>1. LiveAreKnown'
    <2>1. \A t \in Tasks, a \in Attempts : Live(t, a)' => Live(t, a) /\ HasRecord(t, a)'
      BY DEF CampaignCore, LiveAreKnown, Live, HasRecord
    <2> QED BY <2>1, LiveStay
  <1>2. RowsAreNext'
    <2>1. \A t \in Tasks : RowOf(t)' = RowOf(t)
      BY DEF RowOf
    <2>2. RowsAreNext
      BY DEF CampaignCore
    <2> QED BY <2>1, <2>2 DEF RowsAreNext, CoroutineFrame
  <1>3. CommitsAreSound'
    BY DEF CommitsAreSound, CoroutineFrame
  <1>4. CampaignShape'
    BY DEF CampaignShape, CoroutineFrame
  <1>5. /\ PhasesAreKept' /\ TasksAreHeld' /\ WorldsAreRegistered' /\ LanesKeepTheirWorld'
        /\ AttemptsAreEnlisted' /\ ClosedByPhases'
    BY CoroutineKeeps
  <1> QED BY <1>1, <1>2, <1>3, <1>4, <1>5 DEF CampaignCore

-------------------------------------------------------------------------------
(* Campaign: coroutines without a worker.                                     *)

LEMMA LaneIs ==
  ASSUME CampaignCore, NEW l \in Lanes
  PROVE  /\ lane \in [Lanes -> LaneType] /\ lane[l] \in LaneType
         /\ HoldsTask(l) /\ KeepsWorld(l) /\ IsEnlisted(l)
         /\ ctl \in ControllerType
         /\ lane[l].world = NoWorld \/ lane[l].world \in Worlds
         /\ \A m \in Lanes \ {l} : lane[l].at \in TaskPlaces /\ lane[m].at \in TaskPlaces
                => lane[m].task # lane[l].task
  <1>1. lane \in [Lanes -> LaneType] /\ ctl \in ControllerType
    BY DEF CampaignCore, CampaignShape, CampaignTypeOK, LaneType
  <1>2. HoldsTask(l) /\ KeepsWorld(l) /\ IsEnlisted(l)
    BY DEF CampaignCore, TasksAreHeld, LanesKeepTheirWorld, AttemptsAreEnlisted
  <1>3. lane[l] \in LaneType
    BY <1>1
  <1>4. lane[l].world = NoWorld \/ lane[l].world \in Worlds
    BY <1>3 DEF LaneType
  <1> QED BY <1>1, <1>2, <1>3, <1>4 DEF CampaignCore, TasksAreHeld

\* What a step does to docker: only to the world of its coroutine, and only while it is noted.
DockerTypes ==
  /\ container \in [Worlds -> {None, "network", "created", "running"}]
  /\ label \in [Worlds -> {None, "intent", "removed"}]
  /\ cmd \in [Worlds -> {None, "network", "create", "start"}]
DockerStep(l) ==
  /\ DockerTypes'
  /\ \A w \in Worlds : w # lane[l].world => container'[w] = container[w] /\ cmd'[w] = cmd[w]
         /\ label'[w] = label[w]
  /\ \A w \in Worlds : w = lane[l].world /\ ~Closed(w)' =>
        w \in checkpoint.worlds /\ Kept(w)' /\ w \in ctl.opened

\* The frame of a step that leaves the checkpoint alone.
LEMMA FrameIs ==
  ASSUME CampaignCore, NEW l \in Lanes, ctl.phase = "run", commit = NoCommit, DockerStep(l),
         UNCHANGED <<checkpoint, job, proc, canonical, staging, commit>>, pending' \subseteq pending,
         NEW x \in LaneType, lane' = [lane EXCEPT ![l] = x],
         ctl' \in ControllerType, ctl'.phase = ctl.phase, ctl'.outcome = ctl.outcome, ctl'.opened = ctl.opened,
         ctl.stop => ctl'.stop
  PROVE  CoroutineFrame(l) /\ CampaignTypeOK' /\ lane'[l] = x
  <1>1. lane' \in [Lanes -> LaneType] /\ lane'[l] = x /\ \A m \in Lanes \ {l} : lane'[m] = lane[m]
    BY LaneIs
  <1>2. CampaignTypeOK'
    <2>1. CampaignTypeOK /\ ctl'.phase \in {"down", "stop", "close", "commit", "run", "cleanup"}
      BY DEF CampaignCore, CampaignShape
    <2> QED BY <1>1, <2>1 DEF CampaignTypeOK, DockerStep, DockerTypes, LaneType
  <1>3. \A t \in Tasks : RowOf(t)' = RowOf(t)
    BY DEF RowOf
  <1> QED BY <1>1, <1>2, <1>3 DEF CoroutineFrame, DockerStep

LEMMA FailsKeepsInv ==
  ASSUME CampaignCore, NEW l \in Lanes, ctl.phase = "run", commit = NoCommit, lane[l].at \notin {"note", "wait"},
         DockerStep(l), Fails(l), pending' \subseteq pending,
         UNCHANGED <<checkpoint, job, proc, canonical, staging, commit>>
  PROVE  CampaignCore'
  <1>1. EndedLane \in LaneType
    BY RowsAre DEF EndedLane, LaneType
  <1>2. /\ ctl' \in ControllerType /\ ctl'.phase = ctl.phase /\ ctl'.outcome = ctl.outcome
               /\ ctl'.opened = ctl.opened
        /\ ctl'.stop
    BY LaneIs DEF Fails, ControllerType
  <1>3. CoroutineFrame(l) /\ CampaignTypeOK' /\ lane'[l] = EndedLane
    BY <1>1, <1>2, FrameIs DEF Fails
  <1>4. HoldsTask(l)' /\ KeepsWorld(l)' /\ IsEnlisted(l)'
    BY <1>3, PlacesAre DEF EndedLane, HoldsTask, KeepsWorld, IsEnlisted, TaskPlaces, AttemptPlaces,
       BuildingPlaces,
       InWorldPlaces, EnlistedPlaces
  <1>5. lane'[l].at \notin TaskPlaces
    BY <1>3, PlacesAre DEF EndedLane
  <1> QED BY <1>2, <1>3, <1>4, <1>5, QuietStepKeepsInv DEF DockerStep

\* Docker does nothing.
LEMMA DockerRests ==
  ASSUME CampaignCore, NEW l \in Lanes, ctl.phase = "run", UNCHANGED docker
  PROVE  DockerStep(l)
  <1>1. DockerTypes'
    BY DEF DockerTypes, docker, CampaignCore, CampaignShape, CampaignTypeOK
  <1>2. \A w \in Worlds : Closed(w)' = Closed(w) /\ Kept(w)' = Kept(w)
    BY DEF Closed, Kept, docker
  <1>3. \A w \in Worlds : ~Closed(w) => w \in checkpoint.worlds /\ Kept(w) /\ w \in ctl.opened
    BY DEF CampaignCore, WorldsAreRegistered
  <1> QED BY <1>1, <1>2, <1>3 DEF DockerStep, docker

\* A coroutine goes on to its next place, with the same task and world.
LEMMA GoKeepsInv ==
  ASSUME CampaignCore, NEW l \in Lanes, ctl.phase = "run", commit = NoCommit, lane[l].at \notin {"note", "wait"},
         DockerStep(l), UNCHANGED <<checkpoint, job, proc, canonical, staging, commit, ctl, pending>>,
         lane[l].at \in TaskPlaces,
         NEW at \in TaskPlaces \ ({"register", "open"} \cup EnlistedPlaces), Go(l, at),
         at \in AttemptPlaces <=> lane[l].at \in AttemptPlaces,
         \A w \in Worlds : w = lane[l].world =>
            /\ at = "removed" => Closed(w)'
            /\ at \in BuildingPlaces => cmd'[w] = at
            /\ at \in InWorldPlaces => container'[w] = "running" /\ cmd'[w] = None
  PROVE  CampaignCore'
  <1> DEFINE x == [lane[l] EXCEPT !.at = at]
  <1>1. /\ lane \in [Lanes -> LaneType] /\ lane[l] \in LaneType
        /\ HoldsTask(l) /\ KeepsWorld(l) /\ IsEnlisted(l) /\ ctl \in ControllerType
        /\ \A m \in Lanes \ {l} : lane[m].at \in TaskPlaces => lane[m].task # lane[l].task
    BY LaneIs
  <1>2. x \in LaneType /\ x.at = at /\ x.task = lane[l].task /\ x.attempt = lane[l].attempt
            /\ x.world = lane[l].world
    BY <1>1 DEF LaneType, TaskPlaces, AttemptPlaces, BuildingPlaces, InWorldPlaces
  <1>3. lane' = [lane EXCEPT ![l] = x]
    BY <1>1 DEF Go
  <1> HIDE DEF x
  <1>4. CoroutineFrame(l) /\ CampaignTypeOK' /\ lane'[l] = x
    BY <1>1, <1>2, <1>3, FrameIs
  <1>5. HoldsTask(l)'
    BY <1>1, <1>2, <1>4, PlacesAre DEF HoldsTask
  <1>6. x.world \in WorldsOf(l) /\ x.world \in Worlds /\ x.world # NoWorld
    BY <1>1, <1>2, WorldsAre DEF KeepsWorld
  <1>7. \A w \in WorldsOf(l) : w # x.world => Closed(w)'
    <2>1. \A w \in WorldsOf(l) : w # x.world => Closed(w)
      BY <1>1, <1>2, PlacesAre DEF KeepsWorld
    <2> QED BY <1>2, <2>1, WorldsAre DEF DockerStep, Closed
  <1>8. KeepsWorld(l)'
    <2>1. /\ at = "removed" => Closed(x.world)'
          /\ at \in BuildingPlaces => cmd'[x.world] = at
          /\ at \in InWorldPlaces => container'[x.world] = "running" /\ cmd'[x.world] = None
      <3> DEFINE w == lane[l].world
      <3>1. w \in Worlds /\ x.world = w /\ x'.world = w
        BY <1>2, <1>4, <1>6 DEF x
      <3> QED BY <3>1 DEF Closed
    <2> QED BY <1>2, <1>4, <1>6, <1>7, <2>1, PlacesAre DEF KeepsWorld
  <1>9. IsEnlisted(l)'
    BY <1>2, <1>4, PlacesAre DEF IsEnlisted
  <1>10. lane'[l].at \in TaskPlaces => \A m \in Lanes \ {l} : lane[m].at \in TaskPlaces
             => lane[m].task # lane'[l].task
    BY <1>1, <1>2, <1>4
  <1> QED BY <1>4, <1>5, <1>8, <1>9, <1>10, QuietStepKeepsInv DEF DockerStep

LEMMA GrownIs == \A c \in {"network", "create", "start"} : Grown(c) \in {"network", "created", "running"}
  BY DEF Grown

\* Removing a container or a network, or asking docker for the next command, leaves the types.
LEMMA DockerIs ==
  ASSUME CampaignCore, NEW w \in Worlds
  PROVE  /\ DockerTypes
         /\ RemoveBox(w) => /\ DockerTypes' /\ Kept(w)' /\ ~Closed(w)
                            /\ \A v \in Worlds : v # w =>
                                 container'[v] = container[v] /\ cmd'[v] = cmd[v] /\ label'[v] = label[v]
         /\ RemoveNetwork(w) => /\ DockerTypes' /\ Closed(w)'
                                /\ \A v \in Worlds : v # w =>
                                     container'[v] = container[v] /\ cmd'[v] = cmd[v] /\ label'[v] = label[v]
  <1>1. DockerTypes
    BY DEF DockerTypes, CampaignCore, CampaignShape, CampaignTypeOK
  <1>2. ASSUME RemoveBox(w)
        PROVE  /\ DockerTypes' /\ Kept(w)' /\ ~Closed(w)
               /\ \A v \in Worlds : v # w => container'[v] = container[v] /\ cmd'[v] = cmd[v]
                      /\ label'[v] = label[v]
    BY <1>1, <1>2 DEF RemoveBox, DockerTypes, Kept, Found, Closed, None
  <1>3. ASSUME RemoveNetwork(w)
        PROVE  /\ DockerTypes' /\ Closed(w)'
               /\ \A v \in Worlds : v # w => container'[v] = container[v] /\ cmd'[v] = cmd[v]
                      /\ label'[v] = label[v]
    BY <1>1, <1>3 DEF RemoveNetwork, Notes, DockerTypes, Closed, None
  <1> QED BY <1>1, <1>2, <1>3

LEMMA TakeKeepsInv ==
  ASSUME CampaignCore, NEW l \in Lanes, Take(l)
  PROVE  CampaignCore'
  <1>1. /\ ctl.phase = "run" /\ commit = NoCommit /\ lane[l].at = "idle" /\ ~ctl.stop
        /\ UNCHANGED <<checkpoint, job, proc, canonical, staging, commit>> /\ UNCHANGED docker
    BY DEF Take, Runs, outputs
  <1>2. PICK t \in pending :
          /\ pending' = pending \ {t}
          /\ IF checkpoint.attempts[t] >= Last
             THEN Fails(l)
             ELSE /\ lane' = [lane EXCEPT ![l] =
                       [task |-> t, attempt |-> checkpoint.attempts[t] + 1,
                        at |-> IF @.world = NoWorld THEN "register" ELSE "enlist",
                        world |-> IF @.world = NoWorld THEN Base(l) ELSE @.world]]
                  /\ UNCHANGED ctl
    BY DEF Take
  <1>3. DockerStep(l)
    BY <1>1, DockerRests
  <1>4. /\ lane \in [Lanes -> LaneType] /\ lane[l] \in LaneType
        /\ HoldsTask(l) /\ KeepsWorld(l) /\ ctl \in ControllerType
    BY LaneIs
  <1>5. t \in Tasks /\ checkpoint.attempts[t] \in 0..Last /\ checkpoint.results[t] = 0
    BY DEF CampaignCore, CampaignShape, CampaignTypeOK, TasksAreHeld
  <1>6. CASE checkpoint.attempts[t] >= Last
    BY <1>1, <1>2, <1>3, <1>6, FailsKeepsInv
  <1>7. CASE ~(checkpoint.attempts[t] >= Last)
    <2> DEFINE w == IF lane[l].world = NoWorld THEN Base(l) ELSE lane[l].world
               at == IF lane[l].world = NoWorld THEN "register" ELSE "enlist"
               x == [task |-> t, attempt |-> checkpoint.attempts[t] + 1, at |-> at, world |-> w]
    <2>1. lane' = [lane EXCEPT ![l] = x] /\ UNCHANGED ctl
      BY <1>2, <1>7
    <2>2. w \in WorldsOf(l) /\ w \in Worlds
      BY <1>4, WorldsAre DEF KeepsWorld, WorldsOf
    <2>3. /\ lane[l].world = NoWorld => \A v \in WorldsOf(l) : Closed(v)
          /\ lane[l].world # NoWorld => /\ w = lane[l].world /\ container[w] = "running" /\ cmd[w] = None
                                        /\ \A v \in WorldsOf(l) : v # w => Closed(v)
      BY <1>1, <1>4, WorldsAre DEF KeepsWorld
    <2>4. checkpoint.attempts[t] + 1 \in 0..Last
      BY <1>5, <1>7, RowsAre
    <2> HIDE DEF w
    <2>5. x \in LaneType
      BY <1>5, <2>2, <2>4 DEF LaneType
    <2> HIDE DEF x
    <2>6. CoroutineFrame(l) /\ CampaignTypeOK' /\ lane'[l] = x
      BY <1>1, <1>2, <1>3, <1>4, <2>1, <2>5, FrameIs
    <2>7. x.task = t /\ x.attempt = checkpoint.attempts[t] + 1 /\ x.at = at /\ x.world = w
      BY DEF x
    <2>8. HoldsTask(l)'
      BY <1>1, <1>2, <1>5, <2>6, <2>7 DEF HoldsTask, TaskPlaces, AttemptPlaces, BuildingPlaces, InWorldPlaces
    <2>9. \A v \in WorldsOf(l) : Closed(v)' = Closed(v) /\ container'[v] = container[v] /\ cmd'[v] = cmd[v]
      BY <1>1 DEF Closed, docker
    <2>10. KeepsWorld(l)'
      <3>1. lane'[l].world = w /\ w # NoWorld /\ lane'[l].at = at
        BY <2>2, <2>6, <2>7, WorldsAre
      <3>2. \A v \in WorldsOf(l) : v # w => Closed(v)'
        BY <2>3, <2>9
      <3>3. CASE at = "register"
        <4>1. Closed(w) /\ Closed(lane[l].world)'
          BY <2>2, <2>3, <2>9, <3>1, <3>3 DEF Closed
        <4> QED BY <2>2, <3>1, <3>2, <3>3, <4>1 DEF KeepsWorld, BuildingPlaces, InWorldPlaces
      <3>4. CASE at = "enlist"
        <4>1. container'[w] = "running" /\ cmd'[w] = None
          BY <2>2, <2>3, <2>9, <3>4
        <4> QED BY <2>2, <3>1, <3>2, <3>4, <4>1 DEF KeepsWorld, BuildingPlaces, InWorldPlaces
      <3> QED BY <3>3, <3>4
    <2>11. IsEnlisted(l)'
      BY <2>6, <2>7 DEF IsEnlisted, EnlistedPlaces
    <2>12. \A m \in Lanes \ {l} : lane[m].at \in TaskPlaces => lane[m].task # lane'[l].task
      <3>1. \A m \in Lanes : lane[m].at \in TaskPlaces => lane[m].task \notin pending
        BY DEF CampaignCore, TasksAreHeld, HoldsTask
      <3> QED BY <1>2, <2>6, <2>7, <3>1
    <2> QED BY <1>1, <1>3, <2>1, <2>6, <2>8, <2>10, <2>11, <2>12, QuietStepKeepsInv DEF DockerStep
  <1> QED BY <1>6, <1>7

LEMMA LaneEndsKeepsInv ==
  ASSUME CampaignCore, NEW l \in Lanes, LaneEnds(l)
  PROVE  CampaignCore'
  <1>1. /\ ctl.phase = "run" /\ commit = NoCommit /\ lane[l].at = "idle"
        /\ UNCHANGED <<checkpoint, job, proc, canonical, staging, commit, ctl, pending>> /\ UNCHANGED docker
        /\ lane' = [lane EXCEPT ![l] = EndedLane]
    BY DEF LaneEnds, Runs, outputs
  <1>2. EndedLane \in LaneType
    BY RowsAre DEF EndedLane, LaneType
  <1>3. DockerStep(l) /\ ctl \in ControllerType
    BY <1>1, DockerRests, LaneIs
  <1>4. CoroutineFrame(l) /\ CampaignTypeOK' /\ lane'[l] = EndedLane
    BY <1>1, <1>2, <1>3, FrameIs
  <1>5. HoldsTask(l)' /\ KeepsWorld(l)' /\ IsEnlisted(l)' /\ lane'[l].at \notin TaskPlaces
    BY <1>4, PlacesAre DEF EndedLane, HoldsTask, KeepsWorld, IsEnlisted, TaskPlaces, AttemptPlaces,
       BuildingPlaces,
       InWorldPlaces, EnlistedPlaces
  <1> QED BY <1>1, <1>3, <1>4, <1>5, QuietStepKeepsInv DEF DockerStep

LEMMA BuildingKeepsInv ==
  ASSUME CampaignCore, NEW l \in Lanes, Open(l) \/ Build(l) \/ Ready(l)
  PROVE  CampaignCore'
  <1>0. /\ HoldsTask(l) /\ KeepsWorld(l)
        /\ lane[l].at \in {"open", "network", "create", "start", "probe"}
        /\ ctl.phase = "run" /\ commit = NoCommit
        /\ UNCHANGED <<checkpoint, job, proc, canonical, staging, commit, ctl, pending>>
    BY LaneIs DEF Open, Build, Ready, Commanding, Runs, outputs
  <1>1. /\ lane[l].at \in AttemptPlaces /\ lane[l].at \in TaskPlaces
        /\ lane[l].world \in Worlds /\ lane[l].world \in WorldsOf(l)
    BY <1>0, WorldsAre DEF KeepsWorld, TaskPlaces, AttemptPlaces, BuildingPlaces, InWorldPlaces
  <1> DEFINE w == lane[l].world
  <1>2. DockerTypes
    BY <1>1, DockerIs
  <1>3. \A v \in Worlds : ~Closed(v) => v \in checkpoint.worlds /\ Kept(v) /\ v \in ctl.opened
    BY <1>0 DEF CampaignCore, WorldsAreRegistered
  <1>4. CASE Open(l)
    <2>1. /\ label' = [label EXCEPT ![w] = "intent"] /\ cmd' = [cmd EXCEPT ![w] = "network"]
          /\ container' = container /\ Go(l, "network") /\ lane[l].at = "open"
      BY <1>4 DEF Open, Notes, Ask, Runs
    <2>2. w \in checkpoint.worlds /\ w \in ctl.opened
      BY <1>0, <2>1 DEF KeepsWorld
    <2>3. DockerStep(l) /\ cmd'[w] = "network"
      <3> HIDE DEF w
      <3>1. /\ DockerTypes' /\ cmd'[w] = "network"
            /\ \A v \in Worlds : v # w => container'[v] = container[v] /\ cmd'[v] = cmd[v]
                   /\ label'[v] = label[v]
        BY <1>1, <1>2, <2>1 DEF DockerTypes, w
      <3>2. \A v \in Worlds : v = w => Kept(v)'
        BY <1>1, <1>2, <2>1 DEF DockerTypes, Kept, w
      <3> QED BY <2>2, <3>1, <3>2 DEF DockerStep, w
    <2>4. "network" \in TaskPlaces \ ({"register", "open"} \cup EnlistedPlaces) /\ "network" \in AttemptPlaces
          /\ "network" \notin InWorldPlaces
      BY DEF TaskPlaces, AttemptPlaces, BuildingPlaces, InWorldPlaces, EnlistedPlaces
    <2>5. \A v \in Worlds : v = lane[l].world => cmd'[v] = "network"
      BY <2>3
    <2> HIDE DEF w
    <2> QED BY <1>0, <1>1, <2>1, <2>3, <2>4, <2>5, GoKeepsInv
  <1>5. CASE Build(l)
    <2> DEFINE at == After(lane[l].at)
    <2>1. /\ container' = [container EXCEPT ![w] = Grown(cmd[w])]
          /\ cmd' = [cmd EXCEPT ![w] = IF at = "probe" THEN None ELSE at]
          /\ label' = label /\ Go(l, at) /\ lane[l].at \in {"network", "create", "start"}
      BY <1>5 DEF Build, Ask, Commanding, Runs
    <2>2. cmd[w] = lane[l].at
      BY <1>0, <2>1 DEF KeepsWorld, BuildingPlaces
    <2>3. /\ lane[l].at = "network" => at = "create"
          /\ lane[l].at = "create" => at = "start"
          /\ lane[l].at = "start" => at = "probe" /\ Grown(cmd[w]) = "running"
      BY <2>2 DEF After, Grown
    <2>4. ~Closed(w)
      BY <2>1, <2>2 DEF Closed, None
    <2>5. /\ DockerStep(l)
          /\ cmd'[w] = (IF at = "probe" THEN None ELSE at) /\ container'[w] = Grown(cmd[w])
      <3> HIDE DEF at, w
      <3>1. Grown(cmd[w]) \in {"network", "created", "running"}
        BY <2>1, <2>2, GrownIs
      <3>2. at \in {"create", "start", "probe"}
        BY <2>1, <2>3
      <3>3. /\ DockerTypes'
            /\ \A v \in Worlds : v # w => container'[v] = container[v] /\ cmd'[v] = cmd[v]
                   /\ label'[v] = label[v]
        BY <1>1, <1>2, <2>1, <3>1, <3>2 DEF DockerTypes
      <3>4. w \in checkpoint.worlds /\ Kept(w) /\ w \in ctl.opened
        BY <1>1, <1>3, <2>4 DEF w
      <3>5. \A v \in Worlds : v = w => v \in checkpoint.worlds /\ Kept(v)' /\ v \in ctl.opened
        BY <2>1, <3>4 DEF Kept
      <3>6. cmd'[w] = (IF at = "probe" THEN None ELSE at) /\ container'[w] = Grown(cmd[w])
        BY <1>1, <1>2, <2>1 DEF DockerTypes, w
      <3> QED BY <3>3, <3>5, <3>6 DEF DockerStep, w
    <2>6. /\ at \in TaskPlaces \ ({"register", "open"} \cup EnlistedPlaces) /\ at \in AttemptPlaces
          /\ at # "removed" /\ (at \in BuildingPlaces => at # "probe") /\ (at \in InWorldPlaces => at = "probe")
      BY <2>1, <2>3 DEF TaskPlaces, AttemptPlaces, BuildingPlaces, InWorldPlaces, EnlistedPlaces
    <2>7. \A v \in Worlds : v = lane[l].world =>
             /\ at \in BuildingPlaces => cmd'[v] = at
             /\ at \in InWorldPlaces => container'[v] = "running" /\ cmd'[v] = None
      <3>1. at \in BuildingPlaces => cmd'[w] = at
        BY <2>5, <2>6
      <3>2. at \in InWorldPlaces => container'[w] = "running" /\ cmd'[w] = None
        BY <2>1, <2>3, <2>5, <2>6
      <3> QED BY <3>1, <3>2
    <2> HIDE DEF at, w
    <2> QED BY <1>0, <1>1, <2>1, <2>5, <2>6, <2>7, GoKeepsInv
  <1>6. CASE Ready(l)
    <2>1. Go(l, "enlist") /\ UNCHANGED docker /\ lane[l].at = "probe"
      BY <1>6 DEF Ready, Runs
    <2>2. DockerStep(l)
      BY <1>0, <2>1, DockerRests
    <2>3. container'[w] = "running" /\ cmd'[w] = None
      BY <1>0, <2>1 DEF KeepsWorld, InWorldPlaces, docker
    <2>4. /\ "enlist" \in TaskPlaces \ ({"register", "open"} \cup EnlistedPlaces) /\ "enlist" \in AttemptPlaces
          /\ "enlist" \notin BuildingPlaces
      BY DEF TaskPlaces, AttemptPlaces, BuildingPlaces, InWorldPlaces, EnlistedPlaces
    <2> QED BY <1>0, <1>1, <2>1, <2>2, <2>3, <2>4, GoKeepsInv
  <1> QED BY <1>4, <1>5, <1>6

\* Removing something of the world of a coroutine is a step in that world.
LEMMA RemovingIs ==
  ASSUME CampaignCore, NEW l \in Lanes, lane[l].world \in Worlds, ctl.phase = "run",
         RemoveBox(lane[l].world) \/ RemoveNetwork(lane[l].world)
  PROVE  /\ DockerStep(l)
         /\ \A w \in Worlds : w = lane[l].world /\ RemoveNetwork(w) => Closed(w)'
  <1>1. \A w \in Worlds : ~Closed(w) => w \in checkpoint.worlds /\ Kept(w) /\ w \in ctl.opened
    BY DEF CampaignCore, WorldsAreRegistered
  <1>2. ASSUME NEW w \in Worlds, w = lane[l].world
        PROVE  /\ DockerTypes'
               /\ \A v \in Worlds : v # w => container'[v] = container[v] /\ cmd'[v] = cmd[v]
                      /\ label'[v] = label[v]
               /\ ~Closed(w)' => w \in checkpoint.worlds /\ Kept(w)' /\ w \in ctl.opened
               /\ RemoveNetwork(w) => Closed(w)'
    <2>1. RemoveBox(w) \/ RemoveNetwork(w)
      BY <1>2
    <2>2. CASE RemoveBox(w)
      <3>1. /\ DockerTypes' /\ Kept(w)' /\ ~Closed(w)
            /\ \A v \in Worlds : v # w => container'[v] = container[v] /\ cmd'[v] = cmd[v]
                   /\ label'[v] = label[v]
        BY <2>2, DockerIs
      <3>2. ~RemoveNetwork(w)
        BY <2>2 DEF RemoveBox, RemoveNetwork
      <3> QED BY <1>1, <3>1, <3>2
    <2>3. CASE RemoveNetwork(w)
      BY <2>3, DockerIs
    <2> QED BY <2>1, <2>2, <2>3
  <1> QED BY <1>2 DEF DockerStep

LEMMA GiveUpKeepsInv ==
  ASSUME CampaignCore, NEW l \in Lanes, GiveUpWorld(l)
  PROVE  CampaignCore'
  <1>0. /\ HoldsTask(l) /\ KeepsWorld(l)
        /\ lane[l].at \in {"network", "create", "start", "probe"}
        /\ ctl.phase = "run" /\ commit = NoCommit /\ Go(l, "undo")
        /\ UNCHANGED <<checkpoint, job, proc, canonical, staging, commit, ctl, pending>>
    BY LaneIs DEF GiveUpWorld, Commanding, Runs, outputs
  <1>1. /\ lane[l].at \in AttemptPlaces /\ lane[l].at \in TaskPlaces
        /\ lane[l].world \in Worlds /\ lane[l].world \in WorldsOf(l)
    BY <1>0, WorldsAre DEF KeepsWorld, TaskPlaces, AttemptPlaces, BuildingPlaces, InWorldPlaces
  <1>2. DockerStep(l)
    <2>1. CASE UNCHANGED docker
      BY <1>0, <2>1, DockerRests
    <2>2. CASE /\ \E b \in {container[lane[l].world], Grown(cmd[lane[l].world])} :
                     container' = [container EXCEPT ![lane[l].world] = b]
               /\ Ask(lane[l].world, "probe") /\ UNCHANGED label
                      /\ lane[l].at \in {"network", "create", "start"}
      <3> DEFINE w == lane[l].world
      <3>1. PICK b \in {container[w], Grown(cmd[w])} : container' = [container EXCEPT ![w] = b]
        BY <2>2
      <3>2. cmd[w] = lane[l].at
        BY <1>0, <2>2 DEF KeepsWorld, BuildingPlaces
      <3>3. DockerTypes /\ ~Closed(w)
        BY <1>1, <2>2, <3>2, DockerIs DEF Closed, None
      <3>4. b \in {None, "network", "created", "running"}
        BY <1>1, <2>2, <3>1, <3>2, <3>3, GrownIs DEF DockerTypes
      <3>5. w \in checkpoint.worlds /\ label[w] = "intent" /\ w \in ctl.opened
        BY <1>0, <1>1, <3>3 DEF CampaignCore, WorldsAreRegistered, Kept
      <3> HIDE DEF w
      <3>6. cmd' = [cmd EXCEPT ![w] = None] /\ label' = label
        BY <2>2 DEF Ask, w
      <3>7. /\ DockerTypes'
            /\ \A v \in Worlds : v # w => container'[v] = container[v] /\ cmd'[v] = cmd[v]
                   /\ label'[v] = label[v]
        BY <3>1, <3>3, <3>4, <3>6 DEF DockerTypes
      <3>8. \A v \in Worlds : v = w => v \in checkpoint.worlds /\ Kept(v)' /\ v \in ctl.opened
        BY <3>5, <3>6 DEF Kept
      <3> QED BY <3>7, <3>8 DEF DockerStep, w
    <2>3. \/ UNCHANGED docker
          \/ /\ \E b \in {container[lane[l].world], Grown(cmd[lane[l].world])} :
                     container' = [container EXCEPT ![lane[l].world] = b]
             /\ Ask(lane[l].world, "probe") /\ UNCHANGED label /\ lane[l].at \in {"network", "create", "start"}
      BY DEF GiveUpWorld, Commanding, Runs, docker
    <2> QED BY <2>1, <2>2, <2>3
  <1>3. /\ "undo" \in TaskPlaces \ ({"register", "open"} \cup EnlistedPlaces) /\ "undo" \in AttemptPlaces
        /\ "undo" \notin BuildingPlaces \cup InWorldPlaces
    BY DEF TaskPlaces, AttemptPlaces, BuildingPlaces, InWorldPlaces, EnlistedPlaces
  <1> QED BY <1>0, <1>1, <1>2, <1>3, GoKeepsInv

LEMMA ClosingKeepsInv ==
  ASSUME CampaignCore, NEW l \in Lanes, Undo(l) \/ CloseOwn(l)
  PROVE  CampaignCore'
  <1>0. /\ lane \in [Lanes -> LaneType] /\ lane[l] \in LaneType /\ HoldsTask(l) /\ KeepsWorld(l)
        /\ lane[l].at \in {"undo", "again"}
        /\ ctl.phase = "run" /\ commit = NoCommit
        /\ UNCHANGED <<checkpoint, job, proc, canonical, staging, commit, pending>>
    BY LaneIs DEF Undo, CloseOwn, Runs, outputs
  <1>1. /\ lane[l].at \in TaskPlaces /\ lane[l].world \in Worlds /\ lane[l].world \in WorldsOf(l)
        /\ lane[l].at \in TaskPlaces \ ({"register", "open"} \cup EnlistedPlaces)
        /\ lane[l].at \notin BuildingPlaces \cup InWorldPlaces
    BY <1>0, WorldsAre DEF KeepsWorld, TaskPlaces, AttemptPlaces, BuildingPlaces, InWorldPlaces, EnlistedPlaces
  <1>2. CASE RemoveBox(lane[l].world) /\ UNCHANGED <<lane, ctl>>
    <2>1. DockerStep(l)
      BY <1>0, <1>1, <1>2, RemovingIs
    <2>2. Go(l, lane[l].at)
      <3>1. [lane EXCEPT ![l].at = lane[l].at] = lane
        BY <1>0 DEF LaneType
      <3> QED BY <1>2, <3>1 DEF Go
    <2> DEFINE at == lane[l].at
    <2>3. /\ at \in TaskPlaces \ ({"register", "open"} \cup EnlistedPlaces)
          /\ at \notin BuildingPlaces \cup InWorldPlaces /\ at # "removed"
          /\ Go(l, at) /\ lane[l].at = at
      BY <1>0, <1>1, <2>2
    <2> HIDE DEF at
    <2> QED BY <1>0, <1>1, <1>2, <2>1, <2>3, GoKeepsInv
  <1>3. CASE RemoveNetwork(lane[l].world) /\ Fails(l)
    <2>1. DockerStep(l)
      BY <1>0, <1>1, <1>3, RemovingIs
    <2> QED BY <1>0, <1>3, <2>1, FailsKeepsInv
  <1>4. CASE Fails(l) /\ UNCHANGED docker
    <2>1. DockerStep(l)
      BY <1>0, <1>4, DockerRests
    <2> QED BY <1>0, <1>4, <2>1, FailsKeepsInv
  <1>5. CASE lane[l].at = "again" /\ RemoveNetwork(lane[l].world) /\ Go(l, "removed") /\ UNCHANGED ctl
    <2>1. DockerStep(l) /\ \A w \in Worlds : w = lane[l].world => Closed(w)'
      BY <1>0, <1>1, <1>5, RemovingIs
    <2>2. /\ "removed" \in TaskPlaces \ ({"register", "open"} \cup EnlistedPlaces)
          /\ "removed" \notin BuildingPlaces \cup InWorldPlaces \cup AttemptPlaces
                 /\ "again" \notin AttemptPlaces
      BY DEF TaskPlaces, AttemptPlaces, BuildingPlaces, InWorldPlaces, EnlistedPlaces
    <2> QED BY <1>0, <1>1, <1>5, <2>1, <2>2, GoKeepsInv
  <1>6. \/ RemoveBox(lane[l].world) /\ UNCHANGED <<lane, ctl>>
        \/ RemoveNetwork(lane[l].world) /\ Fails(l)
        \/ Fails(l) /\ UNCHANGED docker
        \/ lane[l].at = "again" /\ RemoveNetwork(lane[l].world) /\ Go(l, "removed") /\ UNCHANGED ctl
    BY DEF Undo, CloseOwn, Runs
  <1> QED BY <1>2, <1>3, <1>4, <1>5, <1>6

LEMMA IdleIs ==
  ASSUME NEW w \in Worlds \cup {NoWorld}
  PROVE  Idle(w) \in LaneType /\ Idle(w).at = "idle" /\ Idle(w).task = None /\ Idle(w).world = w
  <1>1. EndedLane \in LaneType /\ EndedLane.task = None
    BY RowsAre DEF EndedLane, LaneType
  <1> QED BY <1>1 DEF Idle, LaneType

LEMMA TryAgainKeepsInv ==
  ASSUME CampaignCore, NEW l \in Lanes, TryAgain(l)
  PROVE  CampaignCore'
  <1>0. /\ lane \in [Lanes -> LaneType] /\ lane[l] \in LaneType /\ HoldsTask(l) /\ KeepsWorld(l)
        /\ ctl \in ControllerType /\ lane[l].at = "removed" /\ ctl.phase = "run" /\ commit = NoCommit
        /\ UNCHANGED <<checkpoint, job, proc, canonical, staging, commit, pending>> /\ UNCHANGED docker
        /\ \A m \in Lanes \ {l} : lane[m].at \in TaskPlaces => lane[m].task # lane[l].task
    <2>1. "removed" \in TaskPlaces
      BY DEF TaskPlaces
    <2> QED BY <2>1, LaneIs DEF TryAgain, Runs, outputs
  <1>1. DockerStep(l)
    BY <1>0, DockerRests
  <1>2. /\ lane[l].world \in Worlds /\ lane[l].world \in WorldsOf(l) /\ lane[l].task \in Tasks \ pending
        /\ lane[l].attempt = checkpoint.attempts[lane[l].task] /\ checkpoint.results[lane[l].task] = 0
        /\ \A w \in WorldsOf(l) : Closed(w)
    <2>1. "removed" \in TaskPlaces /\ "removed" \notin AttemptPlaces
      BY DEF TaskPlaces, AttemptPlaces, BuildingPlaces, InWorldPlaces
    <2> QED BY <1>0, <2>1, WorldsAre DEF KeepsWorld, HoldsTask
  <1>3. \A w \in WorldsOf(l) : Closed(w)'
    BY <1>0, <1>2 DEF Closed, docker
  <1>4. CASE Fails(l)
    BY <1>0, <1>1, <1>4, FailsKeepsInv
  <1>5. CASE lane' = [lane EXCEPT ![l] = Idle(@.world)] /\ ctl' = [ctl EXCEPT !.stop = TRUE]
    <2> DEFINE x == Idle(lane[l].world)
    <2>1. x \in LaneType /\ x.at = "idle" /\ x.task = None /\ x.world = lane[l].world
      BY <1>2, IdleIs
    <2>2. lane' = [lane EXCEPT ![l] = x]
      BY <1>5
    <2> HIDE DEF x
    <2>3. /\ ctl' \in ControllerType /\ ctl'.phase = ctl.phase /\ ctl'.outcome = ctl.outcome
                 /\ ctl'.opened = ctl.opened
          /\ ctl'.stop
      BY <1>0, <1>5 DEF ControllerType
    <2>4. CoroutineFrame(l) /\ CampaignTypeOK' /\ lane'[l] = x
      BY <1>0, <1>1, <2>1, <2>2, <2>3, FrameIs
    <2>5. HoldsTask(l)' /\ KeepsWorld(l)' /\ IsEnlisted(l)' /\ lane'[l].at \notin TaskPlaces
      BY <1>2, <1>3, <2>1, <2>3, <2>4 DEF HoldsTask, KeepsWorld, IsEnlisted, TaskPlaces, AttemptPlaces,
         BuildingPlaces,
         InWorldPlaces, EnlistedPlaces
    <2> QED BY <1>0, <1>1, <2>3, <2>4, <2>5, QuietStepKeepsInv DEF DockerStep
  <1>6. CASE /\ lane[l].attempt <= Retries
             /\ lane' = [lane EXCEPT ![l].at = "register", ![l].attempt = @ + 1,
                                     ![l].world = Retry(l, lane[l].task)]
             /\ UNCHANGED ctl
    <2> DEFINE w == Retry(l, lane[l].task)
               x == [lane[l] EXCEPT !.at = "register", !.attempt = lane[l].attempt + 1, !.world = w]
    <2>1. w \in WorldsOf(l) /\ w \in Worlds /\ w # NoWorld
      BY <1>2, WorldsAre DEF WorldsOf
    <2>2. lane' = [lane EXCEPT ![l] = x]
      BY <1>0, <1>6 DEF LaneType
    <2> HIDE DEF w
    <2>3. lane[l].attempt \in 0..Last /\ lane[l].attempt + 1 \in 0..Last
      BY <1>0, <1>6, RowsAre, CampaignAssumption DEF LaneType
    <2>4. x \in LaneType /\ x.at = "register" /\ x.task = lane[l].task /\ x.attempt = lane[l].attempt + 1
              /\ x.world = w
      BY <1>0, <2>1, <2>3 DEF LaneType
    <2> HIDE DEF x
    <2>5. CoroutineFrame(l) /\ CampaignTypeOK' /\ lane'[l] = x
      BY <1>0, <1>1, <1>6, <2>2, <2>4, FrameIs
    <2>6. HoldsTask(l)'
      BY <1>0, <1>2, <2>4, <2>5 DEF HoldsTask, TaskPlaces, AttemptPlaces, BuildingPlaces, InWorldPlaces
    <2>7. KeepsWorld(l)'
      <3>1. lane'[l].world = w /\ lane'[l].at = "register" /\ Closed(lane[l].world)'
        BY <1>3, <2>1, <2>4, <2>5 DEF Closed
      <3> QED BY <1>3, <2>1, <3>1 DEF KeepsWorld, BuildingPlaces, InWorldPlaces
    <2>8. IsEnlisted(l)'
      BY <2>4, <2>5 DEF IsEnlisted, EnlistedPlaces
    <2>9. \A m \in Lanes \ {l} : lane[m].at \in TaskPlaces => lane[m].task # lane'[l].task
      BY <1>0, <2>4, <2>5
    <2> QED BY <1>0, <1>1, <1>6, <2>5, <2>6, <2>7, <2>8, <2>9, QuietStepKeepsInv DEF DockerStep
  <1>7. Fails(l)
        \/ (lane' = [lane EXCEPT ![l] = Idle(@.world)] /\ ctl' = [ctl EXCEPT !.stop = TRUE])
        \/ (/\ lane[l].attempt <= Retries
            /\ lane' = [lane EXCEPT ![l].at = "register", ![l].attempt = @ + 1,
                                    ![l].world = Retry(l, lane[l].task)]
            /\ UNCHANGED ctl)
    <2>1. lane[l].attempt \in Int /\ Retries \in Int
      BY <1>0, RowsAre, CampaignAssumption DEF LaneType
    <2> QED BY <2>1 DEF TryAgain
  <1> QED BY <1>4, <1>5, <1>6, <1>7

LEMMA RegisterKeepsInv ==
  ASSUME CampaignCore, NEW l \in Lanes, Register(l)
  PROVE  CampaignCore'
  <1> DEFINE w == lane[l].world
             x == [lane[l] EXCEPT !.at = "open"]
  <1>1. /\ lane \in [Lanes -> LaneType] /\ lane[l] \in LaneType /\ HoldsTask(l) /\ KeepsWorld(l)
               /\ ctl \in ControllerType
        /\ lane[l].at = "register" /\ ctl.phase = "run" /\ commit = NoCommit
        /\ UNCHANGED <<job, proc, canonical, staging, pending, commit>> /\ UNCHANGED docker
        /\ checkpoint' = [checkpoint EXCEPT !.worlds = @ \cup {w}]
        /\ ctl' = [ctl EXCEPT !.opened = @ \cup {w}]
        /\ lane' = [lane EXCEPT ![l] = x]
        /\ \A m \in Lanes \ {l} : lane[m].at \in TaskPlaces => lane[m].task # lane[l].task
    <2>1. lane[l].at = "register" /\ "register" \in TaskPlaces
      BY DEF Register, Runs, TaskPlaces, AttemptPlaces
    <2> QED BY <2>1, LaneIs DEF Register, Runs, Go, outputs
  <1>2. w \in Worlds /\ w \in WorldsOf(l) /\ \A v \in WorldsOf(l) : Closed(v)
    <2>1. lane[l].at \in TaskPlaces
      BY <1>1 DEF TaskPlaces, AttemptPlaces
    <2> QED BY <1>1, <2>1, WorldsAre DEF KeepsWorld
  <1>3. /\ CampaignTypeOK
        /\ checkpoint \in [results : [Tasks -> 0..Last], attempts : [Tasks -> 0..Last],
                           inflight : [Tasks -> Row \cup {NoRow}], worlds : SUBSET Worlds]
    BY DEF CampaignCore, CampaignShape, CampaignTypeOK
  <1>4. x \in LaneType /\ x.at = "open" /\ x.task = lane[l].task /\ x.attempt = lane[l].attempt /\ x.world = w
    BY <1>1 DEF LaneType
  <1> HIDE DEF x, w
  <1>5. /\ ctl' \in ControllerType /\ ctl'.phase = ctl.phase /\ ctl'.outcome = ctl.outcome
               /\ ctl'.stop = ctl.stop
        /\ ctl'.opened = ctl.opened \cup {w}
    BY <1>1, <1>2 DEF ControllerType
  <1>6. /\ checkpoint' \in [results : [Tasks -> 0..Last], attempts : [Tasks -> 0..Last],
                            inflight : [Tasks -> Row \cup {NoRow}], worlds : SUBSET Worlds]
        /\ checkpoint'.results = checkpoint.results /\ checkpoint'.attempts = checkpoint.attempts
        /\ checkpoint'.inflight = checkpoint.inflight /\ checkpoint'.worlds = checkpoint.worlds \cup {w}
    BY <1>1, <1>2, <1>3
  <1>7. lane' \in [Lanes -> LaneType] /\ lane'[l] = x /\ \A m \in Lanes \ {l} : lane'[m] = lane[m]
    BY <1>1, <1>4
  <1>8. CoroutineFrame(l)
    BY <1>1, <1>5, <1>6, <1>7 DEF CoroutineFrame, RowOf, docker
  <1>9. CampaignTypeOK'
    <2>1. ctl'.phase \in {"down", "stop", "close", "commit", "run", "cleanup"}
      BY <1>5 DEF ControllerType
    <2> QED BY <1>1, <1>3, <1>6, <1>7, <2>1 DEF CampaignTypeOK, LaneType, docker
  <1>10. HoldsTask(l)'
    BY <1>1, <1>4, <1>6, <1>7 DEF HoldsTask, TaskPlaces, AttemptPlaces, BuildingPlaces, InWorldPlaces
  <1>11. KeepsWorld(l)'
    <2>1. \A v \in WorldsOf(l) : Closed(v)'
      BY <1>1, <1>2 DEF Closed, docker
    <2>2. Closed(lane[l].world)'
      BY <1>2, <1>4, <1>7, <2>1 DEF Closed
    <2>3. w # NoWorld /\ w \in checkpoint'.worlds /\ w \in ctl'.opened
      BY <1>2, <1>5, <1>6, WorldsAre
    <2> QED BY <1>2, <1>4, <1>7, <2>1, <2>2, <2>3 DEF KeepsWorld, BuildingPlaces, InWorldPlaces
  <1>12. IsEnlisted(l)'
    BY <1>4, <1>7 DEF IsEnlisted, EnlistedPlaces
  <1>13. lane'[l].at \in TaskPlaces => \A m \in Lanes \ {l} : lane[m].at \in TaskPlaces
             => lane[m].task # lane'[l].task
    BY <1>1, <1>4, <1>7
  <1>14. \A v \in Worlds : v = lane[l].world /\ ~Closed(v)' => v \in checkpoint'.worlds /\ Kept(v)'
             /\ v \in ctl'.opened
    BY <1>1, <1>2 DEF Closed, docker, w
  <1>15. lane[l].at \notin {"note", "wait"} /\ UNCHANGED <<job, proc, commit>>
             /\ checkpoint'.inflight = checkpoint.inflight
         /\ commit = NoCommit
    BY <1>1, <1>6
  <1> QED BY <1>8, <1>9, <1>10, <1>11, <1>12, <1>13, <1>14, <1>15, QuietStepKeepsInv

-------------------------------------------------------------------------------
(* Campaign: attempts and their workers.                                      *)

\* A coroutine goes on in a world that runs.
InWorldStep(l, at) ==
  /\ ctl.phase = "run" /\ commit = NoCommit
  /\ lane[l].at \in InWorldPlaces /\ at \in InWorldPlaces /\ Go(l, at)
  /\ UNCHANGED <<canonical, staging, ctl, pending, container, label, cmd>>
  /\ checkpoint' \in [results : [Tasks -> 0..Last], attempts : [Tasks -> 0..Last],
                      inflight : [Tasks -> Row \cup {NoRow}], worlds : SUBSET Worlds]
  /\ checkpoint'.results = checkpoint.results /\ checkpoint'.attempts = checkpoint.attempts
  /\ checkpoint'.worlds = checkpoint.worlds
  /\ job' \in [Tasks -> [Attempts -> [record : {None, "starting", "running", "finished"},
                                      result : Raw \cup {None}, timedOut : BOOLEAN]]]
  /\ proc' \in [Tasks -> [Attempts -> {None, "live", "adrift", "dead"}]]
  /\ commit' = NoCommit \/ commit' \in CommitType
  /\ \A t \in Tasks : t # lane[l].task => RowOf(t)' = RowOf(t) /\ job'[t] = job[t] /\ proc'[t] = proc[t]

LEMMA InWorldIs ==
  ASSUME CampaignCore, NEW l \in Lanes, lane[l].at \in InWorldPlaces
  PROVE  /\ lane[l].task \in Tasks /\ lane[l].attempt \in Attempts /\ lane[l].world \in Worlds
         /\ lane[l].attempt = checkpoint.attempts[lane[l].task] + 1
         /\ checkpoint.results[lane[l].task] = 0
         /\ container[lane[l].world] = "running" /\ cmd[lane[l].world] = None
         /\ lane[l].at \in EnlistedPlaces =>
              RowOf(lane[l].task) = [attempt |-> lane[l].attempt, world |-> lane[l].world]
  <1>1. lane[l] \in LaneType /\ HoldsTask(l) /\ KeepsWorld(l) /\ IsEnlisted(l)
    BY LaneIs
  <1>2. lane[l].at \in AttemptPlaces /\ lane[l].at \in TaskPlaces
    BY PlacesAre
  <1>3. lane[l].task \in Tasks /\ lane[l].attempt = checkpoint.attempts[lane[l].task] + 1
        /\ checkpoint.results[lane[l].task] = 0
    BY <1>1, <1>2 DEF HoldsTask
  <1>4. checkpoint.attempts[lane[l].task] \in 0..Last
    BY <1>3 DEF CampaignCore, CampaignShape, CampaignTypeOK
  <1>5. lane[l].attempt \in Attempts
    BY <1>1, <1>3, <1>4, RowsAre DEF LaneType
  <1>6. lane[l].world \in Worlds /\ container[lane[l].world] = "running" /\ cmd[lane[l].world] = None
    BY <1>1, <1>2, WorldsAre DEF KeepsWorld
  <1> QED BY <1>1, <1>3, <1>5, <1>6 DEF IsEnlisted

LEMMA InWorldStepKeeps ==
  ASSUME CampaignCore, NEW l \in Lanes, NEW at \in InWorldPlaces, InWorldStep(l, at), IsEnlisted(l)'
  PROVE  /\ CoroutineFrame(l) /\ CampaignShape'
         /\ lane'[l].at = at /\ lane'[l].task = lane[l].task /\ lane'[l].attempt = lane[l].attempt
         /\ lane'[l].world = lane[l].world
         /\ PhasesAreKept' /\ TasksAreHeld' /\ WorldsAreRegistered' /\ LanesKeepTheirWorld'
         /\ AttemptsAreEnlisted' /\ ClosedByPhases'
  <1> USE DEF InWorldStep
  <1>1. /\ lane \in [Lanes -> LaneType] /\ lane[l] \in LaneType /\ HoldsTask(l) /\ KeepsWorld(l)
               /\ ctl \in ControllerType
        /\ \A m \in Lanes \ {l} : lane[m].at \in TaskPlaces => lane[m].task # lane[l].task
    BY LaneIs, PlacesAre
  <1>2. /\ lane' \in [Lanes -> LaneType]
        /\ lane'[l] \in LaneType /\ lane'[l].at = at /\ lane'[l].task = lane[l].task
        /\ lane'[l].attempt = lane[l].attempt /\ lane'[l].world = lane[l].world
        /\ \A m \in Lanes \ {l} : lane'[m] = lane[m]
    <2> DEFINE x == [lane[l] EXCEPT !.at = at]
    <2>1. x \in LaneType /\ x.at = at /\ x.task = lane[l].task /\ x.attempt = lane[l].attempt
              /\ x.world = lane[l].world
      BY <1>1 DEF LaneType, InWorldPlaces
    <2>2. lane' = [lane EXCEPT ![l] = x]
      BY <1>1 DEF Go
    <2> HIDE DEF x
    <2> QED BY <1>1, <2>1, <2>2
  <1>3. CoroutineFrame(l)
    BY <1>1, <1>2 DEF CoroutineFrame
  <1>4. CampaignShape'
    <2>1. CampaignTypeOK
      BY DEF CampaignCore, CampaignShape
    <2> QED BY <1>1, <1>2, <2>1 DEF CampaignShape, CampaignTypeOK, LaneType
  <1>5. HoldsTask(l)'
    BY <1>1, <1>2, PlacesAre DEF HoldsTask
  <1>6. KeepsWorld(l)'
    <2>1. \A w : Closed(w)' = Closed(w)
      BY DEF Closed
    <2>2. at \notin {"register", "open", "removed", "idle"} \cup BuildingPlaces /\ at # "ended"
      BY DEF InWorldPlaces, BuildingPlaces
    <2>3. /\ lane[l].world \in WorldsOf(l) /\ lane[l].world # NoWorld
          /\ container[lane[l].world] = "running" /\ cmd[lane[l].world] = None
          /\ \A w \in WorldsOf(l) : w # lane[l].world => Closed(w)
      BY <1>1, PlacesAre DEF KeepsWorld
    <2> QED BY <1>2, <2>1, <2>2, <2>3 DEF KeepsWorld
  <1>7. \A w \in Worlds : w = lane[l].world /\ ~Closed(w)' => w \in checkpoint'.worlds /\ Kept(w)'
            /\ w \in ctl'.opened
    BY DEF CampaignCore, WorldsAreRegistered, Closed, Kept
  <1>8. lane'[l].at \in TaskPlaces => \A m \in Lanes \ {l} : lane[m].at \in TaskPlaces
            => lane[m].task # lane'[l].task
    BY <1>1, <1>2
  <1>9. /\ PhasesAreKept' /\ TasksAreHeld' /\ WorldsAreRegistered' /\ LanesKeepTheirWorld'
        /\ AttemptsAreEnlisted' /\ ClosedByPhases'
    BY <1>3, <1>5, <1>6, <1>7, <1>8, CoroutineKeeps
  <1> QED BY <1>2, <1>3, <1>4, <1>9

LEMMA GoIs ==
  ASSUME CampaignCore, NEW l \in Lanes, NEW at, Go(l, at)
  PROVE  /\ lane'[l].at = at /\ lane'[l].task = lane[l].task /\ lane'[l].attempt = lane[l].attempt
         /\ lane'[l].world = lane[l].world
         /\ \A m \in Lanes \ {l} : lane'[m] = lane[m]
  <1>1. lane \in [Lanes -> LaneType] /\ lane[l] \in LaneType
    BY LaneIs
  <1>2. lane'[l] = [lane[l] EXCEPT !.at = at] /\ \A m \in Lanes \ {l} : lane'[m] = lane[m]
    BY <1>1 DEF Go
  <1> QED BY <1>1, <1>2 DEF LaneType

\* A step that treats only the attempt that is next of its task.
AttemptStep(t, a) ==
  /\ checkpoint.attempts[t] + 1 = a /\ checkpoint.results[t] = 0
  /\ checkpoint'.results = checkpoint.results /\ checkpoint'.attempts = checkpoint.attempts
  /\ canonical' = canonical
  /\ RowOf(t)' # NoRow /\ RowOf(t)'.attempt = a
  /\ \A u \in Tasks : u # t => RowOf(u)' = RowOf(u) /\ job'[u] = job[u]
  /\ \A b \in Attempts : b # a => job'[t][b] = job[t][b]

LEMMA RowsStay ==
  ASSUME CampaignCore, NEW t \in Tasks, NEW a \in Attempts, AttemptStep(t, a)
  PROVE  RowsAreNext'
  <1>1. RowsAreNext /\ checkpoint.attempts[t] \in Nat /\ a \in Nat
    BY RowsAre DEF CampaignCore, CampaignShape, CampaignTypeOK
  <1>2. \A u \in Tasks : RowOf(u)' # NoRow => checkpoint'.results[u] = 0
            /\ RowOf(u)'.attempt = checkpoint'.attempts[u] + 1
    BY <1>1 DEF AttemptStep, RowsAreNext
  <1>3. ASSUME NEW u \in Tasks, NEW b \in Attempts, b > checkpoint.attempts[u], job'[u][b].record # None
        PROVE  RowOf(u)' # NoRow /\ RowOf(u)'.attempt = b
    <2>1. CASE u = t /\ b = a
      BY <2>1 DEF AttemptStep
    <2>2. CASE u # t
      BY <1>1, <1>3, <2>2 DEF AttemptStep, RowsAreNext
    <2>3. CASE u = t /\ b # a
      <3>1. job[t][b].record # None
        BY <1>3, <2>3 DEF AttemptStep
      <3>2. RowOf(t) # NoRow /\ RowOf(t).attempt = b
        BY <1>1, <1>3, <2>3, <3>1 DEF RowsAreNext
      <3>3. RowOf(t).attempt = checkpoint.attempts[t] + 1
        BY <1>1, <3>2 DEF RowsAreNext
      <3> QED BY <2>3, <3>2, <3>3 DEF AttemptStep
    <2> QED BY <2>1, <2>2, <2>3
  <1>4. ASSUME NEW u \in Tasks, NEW b \in Attempts, b <= checkpoint.attempts[u], job'[u][b].result = "good",
               ~job'[u][b].timedOut
        PROVE  checkpoint.results[u] # 0 /\ b = checkpoint.attempts[u]
    <2>1. job'[u][b] = job[u][b]
      <3>1. u = t => b # a
        BY <1>1, <1>4 DEF AttemptStep
      <3> QED BY <3>1 DEF AttemptStep
    <2> QED BY <1>1, <1>4, <2>1 DEF RowsAreNext
  <1>5. \A u \in Tasks : checkpoint'.results[u] # 0 => canonical'[u] = checkpoint'.results[u]
    BY <1>1 DEF AttemptStep, RowsAreNext
  <1>6. checkpoint'.results = checkpoint.results /\ checkpoint'.attempts = checkpoint.attempts
    BY DEF AttemptStep
  <1> QED BY <1>2, <1>3, <1>4, <1>5, <1>6 DEF RowsAreNext

LEMMA QuietCommits ==
  ASSUME ctl'.phase = "run", commit' = NoCommit
  PROVE  CommitsAreSound'
  BY DEF CommitsAreSound

LEMMA EnlistKeepsInv ==
  ASSUME CampaignCore, NEW l \in Lanes, Enlist(l)
  PROVE  CampaignCore'
  <1>1. /\ lane[l].at = "enlist" /\ ctl.phase = "run" /\ commit = NoCommit /\ Go(l, "prepare")
        /\ checkpoint' = [checkpoint EXCEPT !.inflight[lane[l].task] =
                            [attempt |-> lane[l].attempt, world |-> lane[l].world]]
        /\ UNCHANGED <<job, proc, container, label, cmd, canonical, staging, ctl, pending, commit>>
    BY DEF Enlist, Runs, docker, outputs
  <1>2. PICK t \in Tasks, a \in Attempts, w \in Worlds :
          /\ lane[l].task = t /\ lane[l].attempt = a /\ lane[l].world = w
          /\ checkpoint.attempts[t] + 1 = a /\ checkpoint.results[t] = 0
    <2>1. lane[l].at \in InWorldPlaces
      BY <1>1 DEF InWorldPlaces
    <2> QED BY <2>1, InWorldIs
  <1> DEFINE r == [attempt |-> a, world |-> w]
  <1>3. r \in Row /\ r # NoRow /\ r.attempt = a
    BY <1>2, RowsAre DEF Row
  <1>4. /\ CampaignTypeOK
        /\ checkpoint \in [results : [Tasks -> 0..Last], attempts : [Tasks -> 0..Last],
                           inflight : [Tasks -> Row \cup {NoRow}], worlds : SUBSET Worlds]
    BY DEF CampaignCore, CampaignShape, CampaignTypeOK
  <1> HIDE DEF r
  <1>5. /\ checkpoint' \in [results : [Tasks -> 0..Last], attempts : [Tasks -> 0..Last],
                            inflight : [Tasks -> Row \cup {NoRow}], worlds : SUBSET Worlds]
        /\ checkpoint'.results = checkpoint.results /\ checkpoint'.attempts = checkpoint.attempts
        /\ checkpoint'.worlds = checkpoint.worlds
        /\ RowOf(t)' = r /\ \A u \in Tasks : u # t => RowOf(u)' = RowOf(u)
    <2>1. checkpoint.inflight \in [Tasks -> Row \cup {NoRow}]
      BY <1>4
    <2>2. checkpoint' = [checkpoint EXCEPT !.inflight[t] = r]
      BY <1>1, <1>2 DEF r
    <2>3. checkpoint'.inflight = [checkpoint.inflight EXCEPT ![t] = r]
      BY <1>4, <2>2
    <2>4. checkpoint'.inflight \in [Tasks -> Row \cup {NoRow}]
      BY <1>3, <2>1, <2>3
    <2>5. checkpoint'.inflight[t] = r /\ \A u \in Tasks : u # t
              => checkpoint'.inflight[u] = checkpoint.inflight[u]
      BY <2>1, <2>3
    <2> QED BY <1>4, <2>2, <2>4, <2>5 DEF RowOf
  <1>6. InWorldStep(l, "prepare")
    <2>1. commit' = NoCommit /\ lane[l].at \in InWorldPlaces /\ "prepare" \in InWorldPlaces
      BY <1>1 DEF InWorldPlaces
    <2> QED BY <1>1, <1>2, <1>4, <1>5, <2>1 DEF InWorldStep, CampaignTypeOK
  <1>7. lane'[l].at = "prepare" /\ lane'[l].task = t /\ lane'[l].attempt = a /\ lane'[l].world = w
    BY <1>1, <1>2, GoIs
  <1>8. IsEnlisted(l)'
    <2>1. checkpoint'.inflight[lane'[l].task] = r
      BY <1>5, <1>7 DEF RowOf
    <2> QED BY <1>7, <2>1 DEF IsEnlisted, EnlistedPlaces, RowOf, r
  <1>9. /\ CoroutineFrame(l) /\ CampaignShape'
        /\ PhasesAreKept' /\ TasksAreHeld' /\ WorldsAreRegistered' /\ LanesKeepTheirWorld'
        /\ AttemptsAreEnlisted' /\ ClosedByPhases'
    <2>1. "prepare" \in InWorldPlaces
      BY DEF InWorldPlaces
    <2> QED BY <1>6, <1>8, <2>1, InWorldStepKeeps
  <1>10. RowsAreNext'
    <2>1. AttemptStep(t, a)
      BY <1>1, <1>2, <1>3, <1>5 DEF AttemptStep
    <2> QED BY <2>1, RowsStay
  <1>11. LiveAreKnown'
    <2>1. \A u \in Tasks, b \in Attempts : Live(u, b)' => Live(u, b) /\ HasRecord(u, b)'
      BY <1>1 DEF CampaignCore, LiveAreKnown, Live, HasRecord
    <2>2. lane[l].at \notin {"note", "wait"}
      BY <1>1
    <2> QED BY <1>9, <2>1, <2>2, LiveStay
  <1>12. CommitsAreSound'
    BY <1>1, QuietCommits
  <1> QED BY <1>9, <1>10, <1>11, <1>12 DEF CampaignCore

\* A coroutine goes on with its enlisted attempt and treats its record, result or worker only.
AtAttempt(l, t, a, w) ==
  /\ ctl.phase = "run" /\ commit = NoCommit /\ lane[l].at \in EnlistedPlaces
  /\ lane[l].task = t /\ lane[l].attempt = a /\ lane[l].world = w
  /\ checkpoint.attempts[t] + 1 = a /\ checkpoint.results[t] = 0 /\ container[w] = "running" /\ cmd[w] = None
  /\ RowOf(t) = [attempt |-> a, world |-> w] /\ RowOf(t) # NoRow

JobType  == [record : {None, "starting", "running", "finished"}, result : Raw \cup {None}, timedOut : BOOLEAN]
ProcType == {None, "live", "adrift", "dead"}

WorkerStep(l, t, a, at) ==
  /\ Go(l, at)
  /\ UNCHANGED <<checkpoint, canonical, staging, ctl, pending, container, label, cmd>>
  /\ job' \in [Tasks -> [Attempts -> JobType]] /\ proc' \in [Tasks -> [Attempts -> ProcType]]
  /\ commit' = NoCommit \/ commit' \in CommitType
  /\ \A u \in Tasks : u # t => job'[u] = job[u] /\ proc'[u] = proc[u]
  /\ \A b \in Attempts : b # a => job'[t][b] = job[t][b] /\ proc'[t][b] = proc[t][b]

LEMMA AttemptIs ==
  ASSUME CampaignCore, ctl.phase = "run", commit = NoCommit, NEW l \in Lanes, lane[l].at \in EnlistedPlaces
  PROVE  /\ \E t \in Tasks, a \in Attempts, w \in Worlds : AtAttempt(l, t, a, w)
         /\ job \in [Tasks -> [Attempts -> JobType]] /\ proc \in [Tasks -> [Attempts -> ProcType]]
  <1>1. /\ lane[l].task \in Tasks /\ lane[l].attempt \in Attempts /\ lane[l].world \in Worlds
        /\ lane[l].attempt = checkpoint.attempts[lane[l].task] + 1
        /\ checkpoint.results[lane[l].task] = 0
        /\ container[lane[l].world] = "running" /\ cmd[lane[l].world] = None
        /\ RowOf(lane[l].task) = [attempt |-> lane[l].attempt, world |-> lane[l].world]
    BY PlacesAre, InWorldIs
  <1>2. PICK t \in Tasks, a \in Attempts, w \in Worlds : lane[l].task = t /\ lane[l].attempt = a
                 /\ lane[l].world = w
    BY <1>1
  <1>3. [attempt |-> a, world |-> w] # NoRow
    BY RowsAre DEF NoRow
  <1>4. job \in [Tasks -> [Attempts -> JobType]] /\ proc \in [Tasks -> [Attempts -> ProcType]]
    BY DEF CampaignCore, CampaignShape, CampaignTypeOK, JobType, ProcType
  <1> QED BY <1>1, <1>2, <1>3, <1>4 DEF AtAttempt

\* What is written in the record of one attempt.
Marked(t, a, r) == job' = [job EXCEPT ![t][a].record = r]
Expired(t, a)   == job' = [job EXCEPT ![t][a] = [@ EXCEPT !.record = "finished", !.timedOut = TRUE]]
OtherJobs(t, a) ==
  /\ job' \in [Tasks -> [Attempts -> JobType]]
  /\ \A u \in Tasks : u # t => job'[u] = job[u]
  /\ \A b \in Attempts : b # a => job'[t][b] = job[t][b]

LEMMA MarkIs ==
  ASSUME NEW t \in Tasks, NEW a \in Attempts, NEW r \in {"starting", "running", "finished"},
         job \in [Tasks -> [Attempts -> JobType]], Marked(t, a, r)
  PROVE  /\ OtherJobs(t, a) /\ job'[t][a].record = r
         /\ job'[t][a].result = job[t][a].result /\ job'[t][a].timedOut = job[t][a].timedOut
  <1> DEFINE x == [job[t][a] EXCEPT !.record = r]
             y == [job[t] EXCEPT ![a] = x]
  <1>1. x \in JobType /\ x.record = r /\ x.result = job[t][a].result /\ x.timedOut = job[t][a].timedOut
    BY DEF JobType
  <1>2. job' = [job EXCEPT ![t] = y]
    BY DEF Marked
  <1> HIDE DEF x
  <1>3. y \in [Attempts -> JobType] /\ y[a] = x /\ \A b \in Attempts : b # a => y[b] = job[t][b]
    BY <1>1
  <1> HIDE DEF y
  <1>4. job' \in [Tasks -> [Attempts -> JobType]] /\ job'[t] = y /\ \A u \in Tasks : u # t => job'[u] = job[u]
    BY <1>2, <1>3
  <1> QED BY <1>1, <1>3, <1>4 DEF OtherJobs

LEMMA ExpiredIs ==
  ASSUME NEW t \in Tasks, NEW a \in Attempts, job \in [Tasks -> [Attempts -> JobType]], Expired(t, a)
  PROVE  OtherJobs(t, a) /\ job'[t][a].timedOut = TRUE
  <1> DEFINE x == [job[t][a] EXCEPT !.record = "finished", !.timedOut = TRUE]
             y == [job[t] EXCEPT ![a] = x]
  <1>1. job[t][a] \in JobType
    OBVIOUS
  <1>2. x \in JobType /\ x.timedOut = TRUE
    <2> DEFINE j == job[t][a]
    <2> HIDE DEF j
    <2>1. j \in JobType
      BY <1>1 DEF j
    <2>2. [j EXCEPT !.record = "finished", !.timedOut = TRUE] \in JobType
      BY <2>1 DEF JobType
    <2>3. [j EXCEPT !.record = "finished", !.timedOut = TRUE].timedOut = TRUE
      BY <2>1 DEF JobType
    <2> QED BY <2>2, <2>3 DEF j
  <1>3. job' = [job EXCEPT ![t] = y]
    BY DEF Expired
  <1> HIDE DEF x
  <1>4. y \in [Attempts -> JobType] /\ y[a] = x /\ \A b \in Attempts : b # a => y[b] = job[t][b]
    BY <1>2
  <1> HIDE DEF y
  <1>5. job' \in [Tasks -> [Attempts -> JobType]] /\ job'[t] = y /\ \A u \in Tasks : u # t => job'[u] = job[u]
    BY <1>3, <1>4
  <1> QED BY <1>2, <1>4, <1>5 DEF OtherJobs

LEMMA WorkerStepKeeps ==
  ASSUME CampaignCore, NEW l \in Lanes, NEW t \in Tasks, NEW a \in Attempts, NEW w \in Worlds, AtAttempt(l, t, a, w),
         NEW at \in EnlistedPlaces, WorkerStep(l, t, a, at),
         at \in {"spawn", "note", "wait"} => HasRecord(t, a)'
  PROVE  /\ CoroutineFrame(l) /\ CampaignShape' /\ PhasesAreKept' /\ TasksAreHeld' /\ WorldsAreRegistered'
         /\ LanesKeepTheirWorld' /\ AttemptsAreEnlisted' /\ ClosedByPhases' /\ RowsAreNext'
         /\ lane'[l].at = at /\ lane'[l].task = t /\ lane'[l].attempt = a /\ lane'[l].world = w
         /\ \A u \in Tasks : RowOf(u)' = RowOf(u)
  <1>1. \A u \in Tasks : RowOf(u)' = RowOf(u)
    BY DEF WorkerStep, RowOf
  <1>2. lane'[l].at = at /\ lane'[l].task = t /\ lane'[l].attempt = a /\ lane'[l].world = w
    <2>1. Go(l, at)
      BY DEF WorkerStep
    <2> QED BY <2>1, GoIs DEF AtAttempt
  <1>3. InWorldStep(l, at)
    <2>1. lane[l].at \in InWorldPlaces /\ at \in InWorldPlaces
      BY PlacesAre DEF AtAttempt
    <2>2. checkpoint \in [results : [Tasks -> 0..Last], attempts : [Tasks -> 0..Last],
                          inflight : [Tasks -> Row \cup {NoRow}], worlds : SUBSET Worlds]
      BY DEF CampaignCore, CampaignShape, CampaignTypeOK
    <2> QED BY <1>1, <2>1, <2>2 DEF InWorldStep, WorkerStep, AtAttempt, JobType, ProcType
  <1>4. IsEnlisted(l)'
    <2>1. checkpoint'.inflight[lane'[l].task] = [attempt |-> a, world |-> w]
      BY <1>1, <1>2 DEF AtAttempt, RowOf
    <2>2. at \in {"spawn", "note", "wait"} => job'[t][a].record \in {"starting", "running"}
      BY DEF HasRecord
    <2> QED BY <1>2, <2>1, <2>2 DEF IsEnlisted, RowOf, HasRecord
  <1>5. /\ CoroutineFrame(l) /\ CampaignShape' /\ PhasesAreKept' /\ TasksAreHeld' /\ WorldsAreRegistered'
        /\ LanesKeepTheirWorld' /\ AttemptsAreEnlisted' /\ ClosedByPhases'
    <2>1. at \in InWorldPlaces
      BY PlacesAre
    <2> QED BY <1>3, <1>4, <2>1, InWorldStepKeeps
  <1>6. RowsAreNext'
    <2>1. AttemptStep(t, a)
      BY <1>1 DEF AttemptStep, AtAttempt, WorkerStep
    <2> QED BY <2>1, RowsStay
  <1> QED BY <1>1, <1>2, <1>5, <1>6

\* No worker is launched by the step, and the own one stays in its place.
LEMMA WorkersStay ==
  ASSUME CampaignCore, NEW l \in Lanes, NEW t \in Tasks, NEW a \in Attempts, NEW w \in Worlds, AtAttempt(l, t, a, w),
         NEW at \in EnlistedPlaces, WorkerStep(l, t, a, at),
         at \in {"spawn", "note", "wait"} => HasRecord(t, a)',
         Live(t, a)' => Live(t, a) /\ at \in {"note", "wait"} /\ HasRecord(t, a)'
  PROVE  LiveAreKnown'
  <1>1. /\ CoroutineFrame(l) /\ lane'[l].at = at /\ lane'[l].task = t /\ lane'[l].attempt = a
        /\ \A u \in Tasks : RowOf(u)' = RowOf(u)
    BY WorkerStepKeeps
  <1>2. \A u \in Tasks, b \in Attempts : Live(u, b)' => Live(u, b) /\ HasRecord(u, b)'
    <2>1. \A u \in Tasks, b \in Attempts : Live(u, b) => HasRecord(u, b)
      BY DEF CampaignCore, LiveAreKnown
    <2>2. \A u \in Tasks, b \in Attempts : u # t \/ b # a => job'[u][b] = job[u][b] /\ proc'[u][b] = proc[u][b]
      BY DEF WorkerStep
    <2> QED BY <2>1, <2>2 DEF Live, HasRecord
  <1>3. \A u \in Tasks, b \in Attempts :
            Live(u, b)' /\ lane[l].at \in {"note", "wait"} /\ lane[l].task = u /\ lane[l].attempt = b =>
              /\ RowOf(u)' = RowOf(u) /\ UNCHANGED <<container, cmd>>
              /\ lane'[l].at \in {"note", "wait"} /\ lane'[l].task = u /\ lane'[l].attempt = b
    <2>1. UNCHANGED <<container, cmd>>
      BY DEF WorkerStep
    <2>2. lane[l].task = t /\ lane[l].attempt = a
      BY DEF AtAttempt
    <2> QED BY <1>1, <2>1, <2>2
  <1> QED BY <1>1, <1>2, <1>3, LiveStay

LEMMA PrepareKeepsInv ==
  ASSUME CampaignCore, NEW l \in Lanes, Prepare(l)
  PROVE  CampaignCore'
  <1>1. /\ lane[l].at = "prepare" /\ ctl.phase = "run" /\ commit = NoCommit /\ Go(l, "spawn")
               /\ Mark(l, "starting")
        /\ UNCHANGED <<checkpoint, proc, container, label, cmd, canonical, staging, ctl, pending, commit>>
        /\ lane[l].at \in EnlistedPlaces /\ "spawn" \in EnlistedPlaces
    BY DEF Prepare, Runs, docker, outputs, EnlistedPlaces
  <1>2. PICK t \in Tasks, a \in Attempts, w \in Worlds : AtAttempt(l, t, a, w)
    BY <1>1, AttemptIs
  <1>3. job \in [Tasks -> [Attempts -> JobType]] /\ proc \in [Tasks -> [Attempts -> ProcType]]
    BY <1>1, AttemptIs
  <1>4. OtherJobs(t, a) /\ job'[t][a].record = "starting"
    <2>1. Marked(t, a, "starting")
      BY <1>1, <1>2 DEF Mark, Marked, AtAttempt
    <2> QED BY <1>3, <2>1, MarkIs
  <1>5. WorkerStep(l, t, a, "spawn") /\ HasRecord(t, a)'
    BY <1>1, <1>3, <1>4 DEF WorkerStep, HasRecord, OtherJobs
  <1>6. ~Live(t, a)
    <2> SUFFICES ASSUME Live(t, a) PROVE FALSE
      OBVIOUS
    <2>1. PICK m \in Lanes : lane[m].at \in {"note", "wait"} /\ lane[m].task = t
      BY <1>1, LiveIs
    <2>2. lane[m].at \in TaskPlaces /\ lane[l].at \in TaskPlaces /\ m # l
      BY <1>1, <2>1, PlacesAre
    <2>3. lane[l].task = t
      BY <1>2 DEF AtAttempt
    <2> QED BY <2>1, <2>2, <2>3 DEF CampaignCore, TasksAreHeld
  <1>7. ~Live(t, a)'
    BY <1>1, <1>6 DEF Live
  <1>8. LiveAreKnown'
    BY <1>1, <1>2, <1>5, <1>7, WorkersStay
  <1>9. /\ CampaignShape' /\ PhasesAreKept' /\ TasksAreHeld' /\ WorldsAreRegistered'
        /\ LanesKeepTheirWorld' /\ AttemptsAreEnlisted' /\ ClosedByPhases' /\ RowsAreNext'
    BY <1>1, <1>2, <1>5, WorkerStepKeeps
  <1>10. CommitsAreSound'
    BY <1>1, QuietCommits
  <1> QED BY <1>8, <1>9, <1>10 DEF CampaignCore

LEMMA NoteKeepsInv ==
  ASSUME CampaignCore, NEW l \in Lanes, NoteIdentity(l)
  PROVE  CampaignCore'
  <1>1. /\ lane[l].at = "note" /\ ctl.phase = "run" /\ commit = NoCommit /\ Go(l, "wait") /\ Mark(l, "running")
        /\ UNCHANGED <<checkpoint, proc, container, label, cmd, canonical, staging, ctl, pending, commit>>
        /\ lane[l].at \in EnlistedPlaces /\ "wait" \in EnlistedPlaces
    BY DEF NoteIdentity, Runs, docker, outputs, EnlistedPlaces
  <1>2. PICK t \in Tasks, a \in Attempts, w \in Worlds : AtAttempt(l, t, a, w)
    BY <1>1, AttemptIs
  <1>3. job \in [Tasks -> [Attempts -> JobType]] /\ proc \in [Tasks -> [Attempts -> ProcType]]
    BY <1>1, AttemptIs
  <1>4. OtherJobs(t, a) /\ job'[t][a].record = "running"
    <2>1. Marked(t, a, "running")
      BY <1>1, <1>2 DEF Mark, Marked, AtAttempt
    <2> QED BY <1>3, <2>1, MarkIs
  <1>5. WorkerStep(l, t, a, "wait") /\ HasRecord(t, a)'
    BY <1>1, <1>3, <1>4 DEF WorkerStep, HasRecord, OtherJobs
  <1>6. Live(t, a)' => Live(t, a)
    BY <1>1 DEF Live
  <1>7. LiveAreKnown'
    BY <1>1, <1>2, <1>5, <1>6, WorkersStay
  <1>8. /\ CampaignShape' /\ PhasesAreKept' /\ TasksAreHeld' /\ WorldsAreRegistered'
        /\ LanesKeepTheirWorld' /\ AttemptsAreEnlisted' /\ ClosedByPhases' /\ RowsAreNext'
    BY <1>1, <1>2, <1>5, WorkerStepKeeps
  <1>9. CommitsAreSound'
    BY <1>1, QuietCommits
  <1> QED BY <1>7, <1>8, <1>9 DEF CampaignCore

\* The only worker a task may have is that of the attempt under way.
LEMMA OnlyOwnLive ==
  ASSUME CampaignCore, NEW l \in Lanes, NEW t \in Tasks, NEW a \in Attempts, NEW w \in Worlds, AtAttempt(l, t, a, w),
         NEW b \in Attempts, Live(t, b)
  PROVE  b = a
  <1>1. RowOf(t).attempt = b
    BY DEF CampaignCore, LiveAreKnown, LiveKeepTheirWorld
  <1> QED BY <1>1 DEF AtAttempt

LEMMA LaunchKeepsInv ==
  ASSUME CampaignCore, NEW l \in Lanes, Launch(l)
  PROVE  CampaignCore'
  <1>1. /\ lane[l].at = "spawn" /\ ctl.phase = "run" /\ commit = NoCommit
        /\ UNCHANGED <<checkpoint, job, container, label, cmd, canonical, staging, pending, commit>>
        /\ lane[l].at \in EnlistedPlaces /\ "note" \in EnlistedPlaces
    BY DEF Launch, Runs, docker, outputs, EnlistedPlaces
  <1>2. PICK t \in Tasks, a \in Attempts, w \in Worlds : AtAttempt(l, t, a, w)
    BY <1>1, AttemptIs
  <1>3. job \in [Tasks -> [Attempts -> JobType]] /\ proc \in [Tasks -> [Attempts -> ProcType]]
    BY <1>1, AttemptIs
  <1>4. CASE Fails(l) /\ UNCHANGED proc
    <2>1. DockerStep(l)
      BY <1>1, DockerRests DEF docker
    <2> QED BY <1>1, <1>4, <2>1, FailsKeepsInv
  <1>5. CASE proc' = [proc EXCEPT ![lane[l].task][lane[l].attempt] = "live"] /\ Go(l, "note") /\ UNCHANGED ctl
    <2>1. /\ proc' \in [Tasks -> [Attempts -> ProcType]] /\ proc'[t][a] = "live"
          /\ \A u \in Tasks : u # t => proc'[u] = proc[u]
          /\ \A b \in Attempts : b # a => proc'[t][b] = proc[t][b]
      BY <1>2, <1>3, <1>5 DEF AtAttempt, ProcType
    <2>2. HasRecord(t, a)'
      <3>1. HasRecord(t, a)
        BY <1>1, <1>2, LaneIs DEF IsEnlisted, AtAttempt
      <3> QED BY <1>1, <3>1 DEF HasRecord
    <2>3. WorkerStep(l, t, a, "note")
      BY <1>1, <1>3, <1>5, <2>1 DEF WorkerStep
    <2>4. /\ CoroutineFrame(l) /\ CampaignShape' /\ PhasesAreKept' /\ TasksAreHeld' /\ WorldsAreRegistered'
          /\ LanesKeepTheirWorld' /\ AttemptsAreEnlisted' /\ ClosedByPhases' /\ RowsAreNext'
          /\ lane'[l].at = "note" /\ lane'[l].task = t /\ lane'[l].attempt = a
          /\ \A u \in Tasks : RowOf(u)' = RowOf(u)
      BY <1>1, <1>2, <2>2, <2>3, WorkerStepKeeps
    <2>5. \A u \in Tasks, b \in Attempts : Live(u, b)' => Live(u, b) \/ (u = t /\ b = a)
      BY <2>1 DEF Live
    <2>6. /\ RowOf(t) # NoRow /\ RowOf(t).attempt = a /\ RowOf(t).world = w /\ container[w] = "running"
                 /\ cmd[w] = None
      BY <1>2 DEF AtAttempt
    <2>7. /\ LiveKeepTheirWorld
          /\ \A u \in Tasks, b \in Attempts : Live(u, b) => HasRecord(u, b) /\ cmd[RowOf(u).world] = None
      BY DEF CampaignCore, LiveAreKnown
    <2>8. ASSUME NEW u \in Tasks \ {t}, NEW b \in Attempts, Live(u, b)
          PROVE  RowOf(u).world # w
      <3>1. PICK m \in Lanes : /\ lane[m].at \in {"note", "wait"} /\ lane[m].task = u
                               /\ RowOf(u) = [attempt |-> b, world |-> lane[m].world]
                               /\ lane[m].world \in WorldsOf(m)
        BY <1>1, <2>8, LiveIs
      <3>2. m # l
        BY <1>1, <3>1
      <3>3. w \in WorldsOf(l)
        <4>1. lane[l].at \in TaskPlaces /\ lane[l].world = w
          BY <1>1, <1>2, PlacesAre DEF AtAttempt
        <4> QED BY <4>1, LaneIs DEF KeepsWorld
      <3> QED BY <3>1, <3>2, <3>3, WorldsAre
    <2>9. LiveKeepTheirWorld'
      <3> SUFFICES ASSUME NEW u \in Tasks, NEW b \in Attempts, Live(u, b)'
                   PROVE  /\ RowOf(u) # NoRow /\ RowOf(u).attempt = b /\ container[RowOf(u).world] = "running"
                          /\ \A v \in Tasks \ {u} : (\E c \in Attempts : Live(v, c)')
                                 => RowOf(v).world # RowOf(u).world
        BY <1>1, <2>4 DEF LiveKeepTheirWorld
      <3>1. RowOf(u) # NoRow /\ RowOf(u).attempt = b /\ container[RowOf(u).world] = "running"
        BY <2>5, <2>6, <2>7 DEF LiveKeepTheirWorld
      <3>2. ASSUME NEW v \in Tasks \ {u}, NEW c \in Attempts, Live(v, c)'
            PROVE  RowOf(v).world # RowOf(u).world
        <4>1. CASE u = t
          BY <2>5, <2>6, <2>8, <3>2, <4>1
        <4>2. CASE v = t
          BY <2>5, <2>6, <2>8, <3>2, <4>2
        <4>3. CASE u # t /\ v # t
          BY <2>5, <2>7, <3>2, <4>3 DEF LiveKeepTheirWorld
        <4> QED BY <4>1, <4>2, <4>3
      <3> QED BY <3>1, <3>2
    <2>10. \A u \in Tasks, b \in Attempts : Live(u, b)' => HasRecord(u, b)' /\ (cmd[RowOf(u).world] = None)'
      <3>1. \A u \in Tasks, b \in Attempts : HasRecord(u, b)' = HasRecord(u, b)
        BY <1>1 DEF HasRecord
      <3> QED BY <1>1, <2>2, <2>4, <2>5, <2>6, <2>7, <3>1
    <2>11. \A u \in Tasks, b \in Attempts : Live(u, b)' =>
             \E m \in Lanes : lane'[m].at \in {"note", "wait"} /\ lane'[m].task = u /\ lane'[m].attempt = b
      <3>1. ASSUME NEW u \in Tasks, NEW b \in Attempts, Live(u, b)
            PROVE  \E m \in Lanes : lane'[m].at \in {"note", "wait"} /\ lane'[m].task = u
                       /\ lane'[m].attempt = b
        <4>1. PICK m \in Lanes : lane[m].at \in {"note", "wait"} /\ lane[m].task = u /\ lane[m].attempt = b
          BY <1>1, <3>1, LiveIs
        <4>2. m # l
          BY <1>1, <4>1
        <4> QED BY <2>4, <4>1, <4>2 DEF CoroutineFrame
      <3> QED BY <2>4, <2>5, <3>1
    <2>12. LiveAreKnown'
      <3>1. ctl'.phase = "run" /\ ctl'.outcome # "complete"
        BY <1>1, <2>4 DEF CampaignCore, PhasesAreKept, CoroutineFrame, None
      <3> QED BY <2>9, <2>10, <2>11, <3>1 DEF LiveAreKnown
    <2>13. CommitsAreSound'
      BY <1>1, <1>5, QuietCommits
    <2> QED BY <2>4, <2>12, <2>13 DEF CampaignCore
  <1> QED BY <1>4, <1>5 DEF Launch

\* A worker has ended, or is ended for its time: the commit of its attempt begins.
LEMMA CommitBegins ==
  ASSUME CampaignCore, NEW l \in Lanes, NEW t \in Tasks, NEW a \in Attempts, NEW w \in Worlds, AtAttempt(l, t, a, w),
         WorkerStep(l, t, a, "commit"), NEW raw \in Raw, BeginCommit(l, t, a, raw), ~Live(t, a)',
         job'[t][a].result = "good" => raw = "good" \/ job'[t][a].timedOut = TRUE
  PROVE  CampaignCore'
  <1>1. /\ "commit" \in EnlistedPlaces /\ "commit" \notin {"spawn", "note", "wait"}
    BY DEF EnlistedPlaces
  <1>2. /\ CampaignShape' /\ PhasesAreKept' /\ TasksAreHeld' /\ WorldsAreRegistered'
        /\ LanesKeepTheirWorld' /\ AttemptsAreEnlisted' /\ ClosedByPhases' /\ RowsAreNext'
        /\ lane'[l].at = "commit" /\ lane'[l].task = t
    BY <1>1, WorkerStepKeeps
  <1>3. LiveAreKnown'
    BY <1>1, WorkersStay
  <1>4. \A b \in Attempts : ~Live(t, b)'
    <2>1. \A b \in Attempts : Live(t, b)' => Live(t, b) /\ b # a
      BY DEF WorkerStep, Live
    <2> QED BY <2>1, OnlyOwnLive
  <1>5. /\ commit'.by = l /\ commit'.task = t /\ commit'.attempt = a /\ commit'.raw = raw
        /\ commit'.at = IF raw = "good" THEN "check" ELSE "record"
    BY DEF BeginCommit
  <1>6. /\ checkpoint'.results[t] = 0 /\ a = checkpoint'.attempts[t] + 1 /\ ctl'.phase = "run"
    BY DEF WorkerStep, AtAttempt
  <1>7. CommitsAreSound'
    BY <1>2, <1>4, <1>5, <1>6 DEF CommitsAreSound
  <1> QED BY <1>2, <1>3, <1>7 DEF CampaignCore

LEMMA CommitTyped ==
  ASSUME NEW by \in Lanes \cup {"recovery"}, NEW t \in Tasks, NEW a \in Attempts, NEW raw \in Raw,
         BeginCommit(by, t, a, raw)
  PROVE  commit' \in CommitType /\ commit' # NoCommit
  <1>1. commit' \in CommitType
    BY DEF BeginCommit, CommitType, CommitPlaces
  <1> QED BY <1>1, NoCommitIs

LEMMA WorkerDoneKeepsInv ==
  ASSUME CampaignCore, NEW l \in Lanes, WorkerDone(l)
  PROVE  CampaignCore'
  <1>1. /\ lane[l].at = "wait" /\ ctl.phase = "run" /\ commit = NoCommit /\ Go(l, "commit")
               /\ Mark(l, "finished")
        /\ Mine(l) = "dead"
        /\ BeginCommit(l, lane[l].task, lane[l].attempt, LeftBehind(lane[l].task, lane[l].attempt))
        /\ UNCHANGED <<checkpoint, proc, container, label, cmd, canonical, staging, ctl, pending>>
        /\ lane[l].at \in EnlistedPlaces
    BY DEF WorkerDone, Runs, docker, outputs, EnlistedPlaces
  <1>2. PICK t \in Tasks, a \in Attempts, w \in Worlds : AtAttempt(l, t, a, w)
    BY <1>1, AttemptIs
  <1>3. job \in [Tasks -> [Attempts -> JobType]] /\ proc \in [Tasks -> [Attempts -> ProcType]]
    BY <1>1, AttemptIs
  <1>4. PICK raw \in Raw : raw = LeftBehind(t, a)
    BY <1>3 DEF LeftBehind, JobType, Raw
  <1>5. BeginCommit(l, t, a, raw)
    BY <1>1, <1>2, <1>4 DEF AtAttempt
  <1>6. OtherJobs(t, a) /\ job'[t][a].result = job[t][a].result
    <2>1. Marked(t, a, "finished")
      BY <1>1, <1>2 DEF Mark, Marked, AtAttempt
    <2> QED BY <1>3, <2>1, MarkIs
  <1>7. WorkerStep(l, t, a, "commit")
    BY <1>1, <1>3, <1>5, <1>6, CommitTyped DEF WorkerStep, OtherJobs
  <1>8. ~Live(t, a)'
    BY <1>1, <1>2 DEF Live, Mine, AtAttempt
  <1>9. job'[t][a].result = "good" => raw = "good"
    BY <1>4, <1>6 DEF LeftBehind, None
  <1> QED BY <1>2, <1>5, <1>7, <1>8, <1>9, CommitBegins

LEMMA TimesOutKeepsInv ==
  ASSUME CampaignCore, NEW l \in Lanes, WorkerTimesOut(l)
  PROVE  CampaignCore'
  <1>1. /\ lane[l].at = "wait" /\ ctl.phase = "run" /\ commit = NoCommit /\ Go(l, "commit")
        /\ proc' = [proc EXCEPT ![lane[l].task][lane[l].attempt] = "dead"]
        /\ Expired(lane[l].task, lane[l].attempt)
        /\ BeginCommit(l, lane[l].task, lane[l].attempt, "bad")
        /\ UNCHANGED <<checkpoint, container, label, cmd, canonical, staging, ctl, pending>>
        /\ lane[l].at \in EnlistedPlaces
    BY DEF WorkerTimesOut, Expired, Runs, docker, outputs, EnlistedPlaces
  <1>2. PICK t \in Tasks, a \in Attempts, w \in Worlds : AtAttempt(l, t, a, w)
    BY <1>1, AttemptIs
  <1>3. job \in [Tasks -> [Attempts -> JobType]] /\ proc \in [Tasks -> [Attempts -> ProcType]]
    BY <1>1, AttemptIs
  <1>4. BeginCommit(l, t, a, "bad") /\ "bad" \in Raw
    BY <1>1, <1>2 DEF AtAttempt, Raw
  <1>5. OtherJobs(t, a) /\ job'[t][a].timedOut = TRUE
    <2>1. Expired(t, a)
      BY <1>1, <1>2 DEF AtAttempt, Expired
    <2> QED BY <1>3, <2>1, ExpiredIs
  <1>6. /\ proc' \in [Tasks -> [Attempts -> ProcType]] /\ proc'[t][a] = "dead"
        /\ \A u \in Tasks : u # t => proc'[u] = proc[u]
        /\ \A b \in Attempts : b # a => proc'[t][b] = proc[t][b]
    BY <1>1, <1>2, <1>3 DEF AtAttempt, ProcType
  <1>7. WorkerStep(l, t, a, "commit")
    BY <1>1, <1>4, <1>5, <1>6, CommitTyped DEF WorkerStep, OtherJobs
  <1>8. ~Live(t, a)'
    BY <1>6 DEF Live
  <1> QED BY <1>2, <1>4, <1>5, <1>7, <1>8, CommitBegins

\* The coroutine ends, and its worker is dead or given up; the attempt stays under way.
LEMMA LaneLeaves ==
  ASSUME CampaignCore, NEW l \in Lanes, NEW t \in Tasks, NEW a \in Attempts, NEW w \in Worlds,
         AtAttempt(l, t, a, w), Fails(l), OtherJobs(t, a),
         UNCHANGED <<checkpoint, container, label, cmd, canonical, staging, pending, commit>>,
         proc' \in [Tasks -> [Attempts -> ProcType]], ~Live(t, a)',
         \A u \in Tasks : u # t => proc'[u] = proc[u],
         \A b \in Attempts : b # a => proc'[t][b] = proc[t][b]
  PROVE  CampaignCore'
  <1>1. ctl.phase = "run" /\ commit = NoCommit /\ lane[l].at \in EnlistedPlaces /\ Fails(l)
    BY DEF AtAttempt
  <1>2. AtAttempt(l, t, a, w)
    OBVIOUS
  <1>4. OtherJobs(t, a)
    OBVIOUS
  <1>5. /\ proc' \in [Tasks -> [Attempts -> ProcType]] /\ ~Live(t, a)'
        /\ \A u \in Tasks : u # t => proc'[u] = proc[u]
        /\ \A b \in Attempts : b # a => proc'[t][b] = proc[t][b]
    OBVIOUS
  <1>6. EndedLane \in LaneType
    BY RowsAre DEF EndedLane, LaneType
  <1>7. lane' \in [Lanes -> LaneType] /\ lane'[l] = EndedLane /\ \A m \in Lanes \ {l} : lane'[m] = lane[m]
    BY <1>1, <1>6, LaneIs DEF Fails
  <1>8. /\ ctl' \in ControllerType /\ ctl'.phase = ctl.phase /\ ctl'.outcome = ctl.outcome
               /\ ctl'.opened = ctl.opened
        /\ ctl'.stop
    BY <1>1, LaneIs DEF Fails, ControllerType
  <1>9. \A u \in Tasks : RowOf(u)' = RowOf(u)
    BY <1>1 DEF RowOf
  <1>10. CoroutineFrame(l)
    <2>1. lane[l].task = t
      BY <1>2 DEF AtAttempt
    <2> QED BY <1>1, <1>4, <1>5, <1>7, <1>8, <1>9, <2>1 DEF CoroutineFrame, OtherJobs
  <1>11. CampaignShape'
    <2>1. CampaignTypeOK /\ ctl'.phase \in {"down", "stop", "close", "commit", "run", "cleanup"}
      BY <1>1, <1>8 DEF CampaignCore, CampaignShape
    <2> QED BY <1>1, <1>4, <1>5, <1>7, <1>8, <2>1 DEF CampaignShape, CampaignTypeOK, OtherJobs, LaneType,
               JobType, ProcType
  <1>12. HoldsTask(l)' /\ KeepsWorld(l)' /\ IsEnlisted(l)'
    BY <1>7, PlacesAre DEF EndedLane, HoldsTask, KeepsWorld, IsEnlisted, TaskPlaces, AttemptPlaces,
       BuildingPlaces,
       InWorldPlaces, EnlistedPlaces
  <1>13. lane'[l].at \notin TaskPlaces
    BY <1>7, PlacesAre DEF EndedLane
  <1>14. /\ PhasesAreKept' /\ TasksAreHeld' /\ WorldsAreRegistered' /\ LanesKeepTheirWorld'
         /\ AttemptsAreEnlisted' /\ ClosedByPhases'
    <2>1. \A v \in Worlds : Closed(v)' = Closed(v) /\ Kept(v)' = Kept(v)
      BY <1>1 DEF Closed, Kept
    <2>2. \A v \in Worlds : v = lane[l].world /\ ~Closed(v)' => v \in checkpoint'.worlds /\ Kept(v)'
              /\ v \in ctl'.opened
      BY <1>1, <1>8, <2>1 DEF CampaignCore, WorldsAreRegistered
    <2> QED BY <1>10, <1>12, <1>13, <2>2, CoroutineKeeps
  <1>15. LiveAreKnown'
    <2>1. \A u \in Tasks, b \in Attempts : Live(u, b)' => Live(u, b) /\ (u # t \/ b # a)
      BY <1>5 DEF Live
    <2>2. \A u \in Tasks, b \in Attempts : Live(u, b)' => Live(u, b) /\ HasRecord(u, b)'
      <3>1. \A u \in Tasks, b \in Attempts : u # t \/ b # a => HasRecord(u, b)' = HasRecord(u, b)
        BY <1>4 DEF OtherJobs, HasRecord
      <3> QED BY <2>1, <3>1 DEF CampaignCore, LiveAreKnown
    <2>3. lane[l].task = t /\ lane[l].attempt = a
      BY <1>2 DEF AtAttempt
    <2> QED BY <1>10, <2>1, <2>2, <2>3, LiveStay
  <1>16. RowsAreNext'
    <2>1. AttemptStep(t, a)
      BY <1>1, <1>2, <1>4, <1>9 DEF AttemptStep, AtAttempt, OtherJobs
    <2> QED BY <2>1, RowsStay
  <1>17. CommitsAreSound'
    BY <1>1, <1>8, QuietCommits
  <1> QED BY <1>11, <1>14, <1>15, <1>16, <1>17 DEF CampaignCore

LEMMA InterruptedKeepsInv ==
  ASSUME CampaignCore, NEW l \in Lanes, WorkerInterrupted(l)
  PROVE  CampaignCore'
  <1>1. /\ lane[l].at = "wait" /\ ctl.phase = "run" /\ commit = NoCommit
        /\ proc' = [proc EXCEPT ![lane[l].task][lane[l].attempt] = "dead"]
        /\ Mark(l, "finished") /\ Fails(l)
        /\ UNCHANGED <<checkpoint, container, label, cmd, canonical, staging, pending, commit>>
        /\ lane[l].at \in EnlistedPlaces
    BY DEF WorkerInterrupted, Runs, docker, outputs, EnlistedPlaces
  <1>2. PICK t \in Tasks, a \in Attempts, w \in Worlds : AtAttempt(l, t, a, w)
    BY <1>1, AttemptIs
  <1>3. job \in [Tasks -> [Attempts -> JobType]] /\ proc \in [Tasks -> [Attempts -> ProcType]]
    BY <1>1, AttemptIs
  <1>4. OtherJobs(t, a)
    <2>1. Marked(t, a, "finished")
      BY <1>1, <1>2 DEF Mark, Marked, AtAttempt
    <2> QED BY <1>3, <2>1, MarkIs
  <1>5. /\ proc' \in [Tasks -> [Attempts -> ProcType]] /\ ~Live(t, a)'
        /\ \A u \in Tasks : u # t => proc'[u] = proc[u]
        /\ \A b \in Attempts : b # a => proc'[t][b] = proc[t][b]
    BY <1>1, <1>2, <1>3 DEF AtAttempt, ProcType, Live
  <1> QED BY <1>1, <1>2, <1>4, <1>5, LaneLeaves

LEMMA LosesWorkerIs ==
  ASSUME CampaignCore, NEW l \in Lanes, LosesWorker(l)
  PROVE  \E t \in Tasks, a \in Attempts, w \in Worlds :
           /\ AtAttempt(l, t, a, w) /\ lane[l].at \in {"note", "wait"} /\ Fails(l)
           /\ UNCHANGED <<checkpoint, job, container, label, cmd, canonical, staging, pending, commit>>
           /\ proc' \in [Tasks -> [Attempts -> ProcType]] /\ ~Live(t, a)'
           /\ proc'[t][a] = IF Live(t, a) THEN "adrift" ELSE proc[t][a]
           /\ \A u \in Tasks : u # t => proc'[u] = proc[u]
           /\ \A b \in Attempts : b # a => proc'[t][b] = proc[t][b]
           /\ job \in [Tasks -> [Attempts -> JobType]]
  <1>1. /\ lane[l].at \in {"note", "wait"} /\ ctl.phase = "run" /\ commit = NoCommit /\ Fails(l)
        /\ proc' = [proc EXCEPT ![lane[l].task][lane[l].attempt] = IF @ = "live" THEN "adrift" ELSE @]
        /\ UNCHANGED <<checkpoint, job, container, label, cmd, canonical, staging, pending, commit>>
        /\ lane[l].at \in EnlistedPlaces
    BY DEF LosesWorker, Runs, docker, outputs, EnlistedPlaces
  <1>2. PICK t \in Tasks, a \in Attempts, w \in Worlds : AtAttempt(l, t, a, w)
    BY <1>1, AttemptIs
  <1>3. job \in [Tasks -> [Attempts -> JobType]] /\ proc \in [Tasks -> [Attempts -> ProcType]]
    BY <1>1, AttemptIs
  <1> DEFINE x == IF proc[t][a] = "live" THEN "adrift" ELSE proc[t][a]
             y == [proc[t] EXCEPT ![a] = x]
  <1>4. x \in ProcType /\ x # "live" /\ proc[t] \in [Attempts -> ProcType]
    BY <1>3 DEF ProcType
  <1>5. proc' = [proc EXCEPT ![t] = y]
    BY <1>1, <1>2, <1>3 DEF AtAttempt
  <1>6. x = IF Live(t, a) THEN "adrift" ELSE proc[t][a]
    BY DEF Live
  <1> HIDE DEF x
  <1>7. y \in [Attempts -> ProcType] /\ y[a] = x /\ \A b \in Attempts : b # a => y[b] = proc[t][b]
    BY <1>4
  <1> HIDE DEF y
  <1>8. /\ proc' \in [Tasks -> [Attempts -> ProcType]] /\ proc'[t] = y
        /\ \A u \in Tasks : u # t => proc'[u] = proc[u]
    BY <1>3, <1>5, <1>7
  <1>9. ~Live(t, a)'
    BY <1>4, <1>7, <1>8 DEF Live
  <1> QED BY <1>1, <1>2, <1>3, <1>6, <1>7, <1>8, <1>9

LEMMA LosesWorkerKeepsInv ==
  ASSUME CampaignCore, NEW l \in Lanes, LosesWorker(l)
  PROVE  CampaignCore'
  <1>1. PICK t \in Tasks, a \in Attempts, w \in Worlds :
           /\ AtAttempt(l, t, a, w) /\ lane[l].at \in {"note", "wait"} /\ Fails(l)
           /\ UNCHANGED <<checkpoint, job, container, label, cmd, canonical, staging, pending, commit>>
           /\ proc' \in [Tasks -> [Attempts -> ProcType]] /\ ~Live(t, a)'
           /\ proc'[t][a] = IF Live(t, a) THEN "adrift" ELSE proc[t][a]
           /\ \A u \in Tasks : u # t => proc'[u] = proc[u]
           /\ \A b \in Attempts : b # a => proc'[t][b] = proc[t][b]
           /\ job \in [Tasks -> [Attempts -> JobType]]
    BY LosesWorkerIs
  <1>2. OtherJobs(t, a)
    BY <1>1 DEF OtherJobs
  <1> QED BY <1>1, <1>2, LaneLeaves

LEMMA CoroutineKeepsInv ==
  ASSUME CampaignCore, NEW l \in Lanes, Coroutine(l)
  PROVE  CampaignCore'
  BY TakeKeepsInv, LaneEndsKeepsInv, RegisterKeepsInv, BuildingKeepsInv, GiveUpKeepsInv, ClosingKeepsInv,
     EnlistKeepsInv, PrepareKeepsInv, LaunchKeepsInv, NoteKeepsInv, WorkerDoneKeepsInv, TimesOutKeepsInv,
     InterruptedKeepsInv, LosesWorkerKeepsInv, TryAgainKeepsInv DEF Coroutine

-------------------------------------------------------------------------------
(* Campaign: worker processes and docker go on by themselves.                 *)

\* What the controller and its records do not notice.
LEMMA UnnoticedIs ==
  ASSUME CampaignCore, UNCHANGED <<checkpoint, ctl, lane, pending, todo, commit>>
  PROVE  /\ PhasesAreKept' /\ TasksAreHeld'
         /\ UNCHANGED <<container, label, cmd>> => WorldsAreRegistered' /\ LanesKeepTheirWorld'
                /\ ClosedByPhases'
         /\ (\A t \in Tasks, a \in Attempts : HasRecord(t, a)' = HasRecord(t, a)) => AttemptsAreEnlisted'
         /\ \A t \in Tasks : RowOf(t)' = RowOf(t)
  <1>1. PhasesAreKept /\ TasksAreHeld /\ WorldsAreRegistered /\ LanesKeepTheirWorld /\ ClosedByPhases
            /\ AttemptsAreEnlisted
    BY DEF CampaignCore
  <1>2. PhasesAreKept'
    BY <1>1 DEF PhasesAreKept
  <1>3. TasksAreHeld'
    <2>1. \A l \in Lanes : HoldsTask(l)'
      BY <1>1 DEF TasksAreHeld, HoldsTask
    <2> QED BY <1>1, <2>1 DEF TasksAreHeld
  <1>4. ASSUME UNCHANGED <<container, label, cmd>>
        PROVE  WorldsAreRegistered' /\ LanesKeepTheirWorld' /\ ClosedByPhases'
    <2>1. \A w : Closed(w)' = Closed(w) /\ Kept(w)' = Kept(w)
      BY <1>4 DEF Closed, Kept
    <2>2. WorldsAreRegistered' /\ ClosedByPhases'
      BY <1>1, <2>1 DEF WorldsAreRegistered, ClosedByPhases
    <2>3. \A l \in Lanes : KeepsWorld(l)'
      BY <1>1, <1>4 DEF LanesKeepTheirWorld, KeepsWorld, Closed
    <2> QED BY <2>2, <2>3 DEF LanesKeepTheirWorld
  <1>5. \A t \in Tasks : RowOf(t)' = RowOf(t)
    BY DEF RowOf
  <1>6. ASSUME \A t \in Tasks, a \in Attempts : HasRecord(t, a)' = HasRecord(t, a)
        PROVE  AttemptsAreEnlisted'
    <2> SUFFICES ASSUME NEW l \in Lanes PROVE IsEnlisted(l)'
      BY DEF AttemptsAreEnlisted
    <2>1. CASE lane[l].at \in EnlistedPlaces
      <3>1. lane[l].task \in Tasks /\ lane[l].attempt \in Attempts
        BY <2>1, PlacesAre, InWorldIs
      <3>2. PICK t \in Tasks, a \in Attempts : lane[l].task = t /\ lane[l].attempt = a
        BY <3>1
      <3>3. HasRecord(t, a)' = HasRecord(t, a)
        BY <1>6
      <3>4. IsEnlisted(l)
        BY LaneIs
      <3> QED BY <3>2, <3>3, <3>4 DEF IsEnlisted, HasRecord, RowOf
    <2>2. CASE lane[l].at \notin EnlistedPlaces
      BY <2>2, PlacesAre DEF IsEnlisted
    <2> QED BY <2>1, <2>2
  <1> QED BY <1>2, <1>3, <1>4, <1>5, <1>6

\* The workers there are, or fewer.
LEMMA FewerLive ==
  ASSUME CampaignCore, UNCHANGED <<checkpoint, ctl, lane, todo, container, cmd>>,
         \A t \in Tasks, a \in Attempts : Live(t, a)' => Live(t, a) /\ HasRecord(t, a)'
  PROVE  LiveAreKnown'
  <1>1. LiveAreKnown
    BY DEF CampaignCore
  <1>2. \A t \in Tasks : RowOf(t)' = RowOf(t)
    BY DEF RowOf
  <1>3. LiveKeepTheirWorld'
    BY <1>1, <1>2 DEF LiveAreKnown, LiveKeepTheirWorld
  <1>4. \A t \in Tasks, a \in Attempts : Live(t, a)' => HasRecord(t, a)' /\ (cmd[RowOf(t).world] = None)'
    BY <1>1, <1>2 DEF LiveAreKnown
  <1> HIDE DEF Live, HasRecord
  <1> QED BY <1>1, <1>3, <1>4 DEF LiveAreKnown

LEMMA WriteResultKeepsInv ==
  ASSUME CampaignInv, NEW t \in Tasks, NEW a \in Attempts, WriteResult(t, a)
  PROVE  CampaignCore'
  <1> USE DEF CampaignInv
  <1>1. /\ UNCHANGED <<checkpoint, proc, container, label, cmd, canonical, staging, ctl, lane, pending, todo, commit>>
        /\ Live(t, a) \/ Adrift(t, a)
    BY DEF WriteResult, docker, outputs, memory, AtWork
  <1>2. job \in [Tasks -> [Attempts -> JobType]]
    BY DEF CampaignCore, CampaignShape, CampaignTypeOK, JobType
  <1>3. /\ job' \in [Tasks -> [Attempts -> JobType]]
        /\ \A u \in Tasks, b \in Attempts : job'[u][b].record = job[u][b].record
        /\ \A u \in Tasks, b \in Attempts : u # t \/ b # a => job'[u][b] = job[u][b]
    <2>1. PICK raw \in Raw : job' = [job EXCEPT ![t][a].result = raw]
      BY DEF WriteResult
    <2> DEFINE x == [job[t][a] EXCEPT !.result = raw]
               y == [job[t] EXCEPT ![a] = x]
    <2>2. x \in JobType /\ x.record = job[t][a].record
      BY <1>2 DEF JobType
    <2>3. job' = [job EXCEPT ![t] = y]
      BY <2>1
    <2> HIDE DEF x
    <2>4. y \in [Attempts -> JobType] /\ y[a] = x /\ \A b \in Attempts : b # a => y[b] = job[t][b]
      BY <1>2, <2>2
    <2> HIDE DEF y
    <2>5. job' \in [Tasks -> [Attempts -> JobType]] /\ job'[t] = y /\ \A u \in Tasks : u # t => job'[u] = job[u]
      BY <1>2, <2>3, <2>4
    <2> QED BY <2>2, <2>4, <2>5
  <1>4. \A u \in Tasks, b \in Attempts : HasRecord(u, b)' = HasRecord(u, b) /\ Live(u, b)' = Live(u, b)
    BY <1>1, <1>3 DEF HasRecord, Live
  <1>5. RowOf(t) # NoRow /\ RowOf(t).attempt = a /\ a = checkpoint.attempts[t] + 1
    BY <1>1 DEF CampaignCore, LiveAreKnown, LiveKeepTheirWorld, RowsAreNext, AdriftAreKnown
  <1>6. /\ PhasesAreKept' /\ TasksAreHeld' /\ WorldsAreRegistered' /\ LanesKeepTheirWorld' /\ ClosedByPhases'
        /\ AttemptsAreEnlisted' /\ \A u \in Tasks : RowOf(u)' = RowOf(u)
    BY <1>1, <1>4, UnnoticedIs
  <1>7. CampaignShape'
    <2>1. CampaignShape
      BY DEF CampaignCore
    <2> QED BY <1>1, <1>3, <2>1 DEF CampaignShape, CampaignTypeOK, JobType
  <1>8. LiveAreKnown'
    <2>1. \A u \in Tasks, b \in Attempts : Live(u, b)' => Live(u, b) /\ HasRecord(u, b)'
      BY <1>4 DEF CampaignCore, LiveAreKnown
    <2> QED BY <1>1, <2>1, FewerLive
  <1>9. RowsAreNext'
    <2>1. RowsAreNext /\ checkpoint.attempts[t] \in Nat
      BY RowsAre DEF CampaignCore, CampaignShape, CampaignTypeOK
    <2>2. \A b \in Attempts : b <= checkpoint.attempts[t] => b # a
      BY <1>5, <2>1, RowsAre
    <2>3. \A u \in Tasks, b \in Attempts :
            b <= checkpoint.attempts[u] /\ job'[u][b].result = "good" /\ ~job'[u][b].timedOut
              => checkpoint.results[u] # 0 /\ b = checkpoint.attempts[u]
      <3> SUFFICES ASSUME NEW u \in Tasks, NEW b \in Attempts, b <= checkpoint.attempts[u],
                          job'[u][b].result = "good", ~job'[u][b].timedOut
                   PROVE  checkpoint.results[u] # 0 /\ b = checkpoint.attempts[u]
        OBVIOUS
      <3>1. job'[u][b] = job[u][b]
        BY <1>3, <2>2
      <3> QED BY <2>1, <3>1 DEF RowsAreNext
    <2>4. \A u \in Tasks, b \in Attempts :
            b > checkpoint.attempts[u] /\ job'[u][b].record # None => RowOf(u) # NoRow /\ RowOf(u).attempt = b
      BY <1>3, <2>1 DEF RowsAreNext
    <2> QED BY <1>1, <1>6, <2>1, <2>3, <2>4 DEF RowsAreNext
  <1>10. CommitsAreSound'
    <2>1. CommitsAreSound
      BY DEF CampaignCore
    <2>2. ASSUME commit # NoCommit
          PROVE  commit.task \in Tasks /\ commit.attempt \in Attempts /\ commit.task # t
      <3>1. commit.task \in Tasks /\ commit.attempt \in Attempts
        BY <2>2 DEF CampaignCore, CampaignShape, CommitType
      <3>2. CASE Live(t, a)
        BY <2>1, <2>2, <3>1, <3>2 DEF CommitsAreSound
      <3>3. CASE Adrift(t, a)
        <4>1. ctl.phase = "run"
          BY <2>2, <3>3 DEF CampaignCore, PhasesAreKept, AdriftAreKnown, Pursued
        <4>2. commit.by \in Lanes /\ lane[commit.by].at = "commit" /\ lane[commit.by].task = commit.task
          BY <2>1, <2>2, <4>1 DEF CommitsAreSound
        <4>3. "commit" \in TaskPlaces
          BY PlacesAre DEF EnlistedPlaces
        <4> QED BY <3>1, <3>3, <4>1, <4>2, <4>3 DEF AdriftAreKnown, LeftAlone
      <3> QED BY <1>1, <3>1, <3>2, <3>3
    <2>3. commit # NoCommit => /\ job'[commit.task][commit.attempt] = job[commit.task][commit.attempt]
                               /\ \A b \in Attempts : ~Live(commit.task, b)'
      <3>1. \A u \in Tasks, b \in Attempts : Live(u, b)' = Live(u, b)
        BY <1>4
      <3> QED BY <1>1, <1>3, <2>1, <2>2 DEF CommitsAreSound, Live
    <2> QED BY <1>1, <1>6, <2>1, <2>3 DEF CommitsAreSound, Live
  <1> QED BY <1>6, <1>7, <1>8, <1>9, <1>10 DEF CampaignCore

LEMMA ExitKeepsInv ==
  ASSUME CampaignCore, NEW t \in Tasks, NEW a \in Attempts, Exit(t, a)
  PROVE  CampaignCore'
  <1>1. /\ UNCHANGED <<checkpoint, job, container, label, cmd, canonical, staging, ctl, lane, pending, todo, commit>>
        /\ proc' = [proc EXCEPT ![t][a] = "dead"]
    BY DEF Exit, docker, outputs, memory
  <1>2. proc \in [Tasks -> [Attempts -> ProcType]]
    BY DEF CampaignCore, CampaignShape, CampaignTypeOK, ProcType
  <1>3. /\ proc' \in [Tasks -> [Attempts -> ProcType]]
        /\ \A u \in Tasks, b \in Attempts : Live(u, b)' => Live(u, b)
    BY <1>1, <1>2 DEF ProcType, Live
  <1>4. \A u \in Tasks, b \in Attempts : HasRecord(u, b)' = HasRecord(u, b)
    BY <1>1 DEF HasRecord
  <1>5. /\ PhasesAreKept' /\ TasksAreHeld' /\ WorldsAreRegistered' /\ LanesKeepTheirWorld' /\ ClosedByPhases'
        /\ AttemptsAreEnlisted' /\ \A u \in Tasks : RowOf(u)' = RowOf(u)
    BY <1>1, <1>4, UnnoticedIs
  <1>6. CampaignShape'
    <2>1. CampaignShape
      BY DEF CampaignCore
    <2> QED BY <1>1, <1>3, <2>1 DEF CampaignShape, CampaignTypeOK, ProcType
  <1>7. LiveAreKnown'
    <2>1. \A u \in Tasks, b \in Attempts : Live(u, b)' => Live(u, b) /\ HasRecord(u, b)'
      BY <1>3, <1>4 DEF CampaignCore, LiveAreKnown
    <2> QED BY <1>1, <2>1, FewerLive
  <1>8. RowsAreNext'
    BY <1>1, <1>5 DEF CampaignCore, RowsAreNext
  <1>9. CommitsAreSound'
    <2>1. CommitsAreSound /\ (commit # NoCommit => commit.task \in Tasks)
      BY DEF CampaignCore, CampaignShape, CommitType
    <2>2. commit # NoCommit => \A b \in Attempts : ~Live(commit.task, b)'
      BY <1>1, <1>3, <2>1 DEF CommitsAreSound, Live
    <2> QED BY <1>1, <1>5, <2>1, <2>2 DEF CommitsAreSound, Live
  <1> QED BY <1>5, <1>6, <1>7, <1>8, <1>9 DEF CampaignCore

LEMMA DockerKeepsInv ==
  ASSUME CampaignCore, NEW w \in Worlds, Docker(w)
  PROVE  CampaignCore'
  <1>1. /\ UNCHANGED <<checkpoint, job, proc, label, canonical, staging, ctl, lane, pending, todo, commit>>
        /\ cmd[w] # None /\ \A l \in Lanes : lane[l].world # w
        /\ cmd' = [cmd EXCEPT ![w] = None]
    BY DEF Docker, Orphaned, outputs, memory
  <1>2. DockerTypes
    BY DockerIs
  <1>3. PICK b \in {None, "network", "created", "running"} : container' = [container EXCEPT ![w] = b]
    <2>1. PICK b \in {container[w], Grown(cmd[w])} : container' = [container EXCEPT ![w] = b]
      BY DEF Docker
    <2>2. b \in {None, "network", "created", "running"}
      BY <1>1, <1>2, GrownIs DEF DockerTypes
    <2> QED BY <2>1, <2>2
  <1>4. DockerTypes' /\ \A v \in Worlds : v # w => container'[v] = container[v] /\ cmd'[v] = cmd[v]
    BY <1>1, <1>2, <1>3 DEF DockerTypes
  <1>5. ~Closed(w)
    BY <1>1 DEF Closed
  <1>6. PhasesAreKept' /\ TasksAreHeld' /\ AttemptsAreEnlisted' /\ \A t \in Tasks : RowOf(t)' = RowOf(t)
    <2>1. \A t \in Tasks, a \in Attempts : HasRecord(t, a)' = HasRecord(t, a)
      BY <1>1 DEF HasRecord
    <2> QED BY <1>1, <2>1, UnnoticedIs
  <1>7. CampaignShape'
    <2>1. CampaignShape
      BY DEF CampaignCore
    <2> QED BY <1>1, <1>4, <2>1 DEF CampaignShape, CampaignTypeOK, DockerTypes
  <1>8. \A v \in Worlds : ~Closed(v)' => ~Closed(v)
    BY <1>4, <1>5 DEF Closed
  <1>9. WorldsAreRegistered' /\ ClosedByPhases'
    <2>1. WorldsAreRegistered /\ ClosedByPhases /\ \A v \in Worlds : Kept(v)' = Kept(v)
      BY <1>1 DEF CampaignCore, Kept
    <2>2. WorldsAreRegistered'
      BY <1>1, <1>8, <2>1 DEF WorldsAreRegistered
    <2>3. ClosedByPhases'
      BY <1>1, <1>8, <2>1 DEF ClosedByPhases
    <2> QED BY <2>2, <2>3
  <1>10. LanesKeepTheirWorld'
    <2> SUFFICES ASSUME NEW l \in Lanes PROVE KeepsWorld(l)'
      BY DEF LanesKeepTheirWorld
    <2>1. KeepsWorld(l) /\ lane[l].world # w
      BY <1>1, LaneIs
    <2>2. CASE lane[l].at = "ended"
      <3>1. lane[l] = EndedLane
        BY <2>2, LaneIs DEF HoldsTask
      <3> QED BY <1>1, <3>1, PlacesAre DEF KeepsWorld, EndedLane, BuildingPlaces, InWorldPlaces
    <2>3. CASE lane[l].at # "ended"
      <3>1. \A v \in WorldsOf(l) : v # w
        BY <1>5, <2>1, <2>3 DEF KeepsWorld
      <3>2. \A v \in WorldsOf(l) : container'[v] = container[v] /\ cmd'[v] = cmd[v]
        BY <1>4, <3>1, WorldsAre
      <3>3. lane[l].world # NoWorld => lane[l].world \in WorldsOf(l)
        BY <2>1 DEF KeepsWorld
      <3>4. /\ lane[l].at \in {"register", "open", "removed"} => lane[l].world # NoWorld
            /\ lane[l].at \in BuildingPlaces \cup InWorldPlaces => lane[l].world # NoWorld
        BY <2>1, PlacesAre DEF KeepsWorld, TaskPlaces, AttemptPlaces
      <3> QED BY <1>1, <2>1, <3>2, <3>3, <3>4 DEF KeepsWorld, Closed
    <2> QED BY <2>2, <2>3
  <1>11. LiveAreKnown'
    <2>1. LiveAreKnown
      BY DEF CampaignCore
    <2>2. \A t \in Tasks, a \in Attempts : Live(t, a)' = Live(t, a) /\ HasRecord(t, a)' = HasRecord(t, a)
      BY <1>1 DEF Live, HasRecord
    <2>3. \A t \in Tasks, a \in Attempts : Live(t, a) => RowOf(t) # NoRow /\ RowOf(t).world \in Worlds
              /\ RowOf(t).world # w
      <3>1. \A t \in Tasks : RowOf(t) \in Row \cup {NoRow}
        BY DEF CampaignCore, CampaignShape, CampaignTypeOK, RowOf
      <3> QED BY <1>1, <2>1, <3>1, RowsAre DEF LiveAreKnown, LiveKeepTheirWorld
    <2>4. LiveKeepTheirWorld'
      BY <1>4, <1>6, <2>1, <2>2, <2>3 DEF LiveAreKnown, LiveKeepTheirWorld
    <2>5. \A t \in Tasks, a \in Attempts : Live(t, a)' => HasRecord(t, a)' /\ (cmd[RowOf(t).world] = None)'
      BY <1>4, <1>6, <2>1, <2>2, <2>3 DEF LiveAreKnown
    <2> QED BY <1>1, <2>1, <2>2, <2>4, <2>5 DEF LiveAreKnown
  <1>12. RowsAreNext' /\ CommitsAreSound'
    <2>1. RowsAreNext'
      BY <1>1, <1>6 DEF CampaignCore, RowsAreNext
    <2>2. CommitsAreSound'
      BY <1>1, <1>6 DEF CampaignCore, CommitsAreSound, Live
    <2> QED BY <2>1, <2>2
  <1> QED BY <1>6, <1>7, <1>9, <1>10, <1>11, <1>12 DEF CampaignCore

-------------------------------------------------------------------------------
(* Campaign: the recovery, the cleanup, and the controller that is killed.    *)

LEMMA EndedLanesKeep ==
  ASSUME \A l \in Lanes : lane'[l] = EndedLane, \A t \in pending' : checkpoint'.results[t] = 0
  PROVE  TasksAreHeld' /\ LanesKeepTheirWorld' /\ AttemptsAreEnlisted'
  <1>1. /\ EndedLane.at = "ended" /\ EndedLane.world = NoWorld
        /\ "ended" \notin TaskPlaces \cup BuildingPlaces \cup InWorldPlaces \cup EnlistedPlaces
    BY DEF EndedLane, TaskPlaces, AttemptPlaces, BuildingPlaces, InWorldPlaces, EnlistedPlaces
  <1>2. \A l \in Lanes : HoldsTask(l)' /\ KeepsWorld(l)' /\ IsEnlisted(l)'
    BY <1>1 DEF HoldsTask, KeepsWorld, IsEnlisted
  <1>3. TasksAreHeld'
    BY <1>1, <1>2 DEF TasksAreHeld
  <1> QED BY <1>2, <1>3 DEF LanesKeepTheirWorld, AttemptsAreEnlisted

LEMMA DownIs ==
  /\ Down \in ControllerType /\ Down.phase = "down" /\ Down.outcome = None /\ Down.opened = {}
         /\ Down.stop = FALSE
  /\ \A o \in {"refused", "complete", "incomplete"} :
       /\ [Down EXCEPT !.outcome = o] \in ControllerType /\ [Down EXCEPT !.outcome = o].phase = "down"
       /\ [Down EXCEPT !.outcome = o].outcome = o /\ [Down EXCEPT !.outcome = o].opened = {}
  BY DEF Down, ControllerType

\* No coroutine runs, before the step and after it; the records of the attempts stay.
RestingStep ==
  /\ ctl' \in ControllerType /\ ctl'.phase # "run"
  /\ lane' \in [Lanes -> LaneType] /\ \A l \in Lanes : lane'[l] = EndedLane
  /\ pending' \subseteq pending /\ (ctl'.phase # "cleanup" => pending' = {})
  /\ UNCHANGED <<checkpoint, canonical, staging>>
  /\ commit' = NoCommit

LEMMA RestingKeeps ==
  ASSUME CampaignCore, RestingStep
  PROVE  /\ TasksAreHeld' /\ LanesKeepTheirWorld' /\ AttemptsAreEnlisted'
         /\ UNCHANGED job => RowsAreNext'
         /\ UNCHANGED <<job, proc, container, label, cmd>> => CampaignShape'
         /\ \A t \in Tasks : RowOf(t)' = RowOf(t)
         /\ checkpoint'.worlds = checkpoint.worlds
  <1>1. TasksAreHeld' /\ LanesKeepTheirWorld' /\ AttemptsAreEnlisted'
    <2>1. \A t \in pending' : checkpoint'.results[t] = 0
      BY DEF CampaignCore, TasksAreHeld, RestingStep
    <2>2. \A l \in Lanes : lane'[l] = EndedLane
      BY DEF RestingStep
    <2> QED BY <2>1, <2>2, EndedLanesKeep
  <1>2. \A t \in Tasks : RowOf(t)' = RowOf(t)
    BY DEF RowOf, RestingStep
  <1>3. UNCHANGED job => RowsAreNext'
    BY <1>2 DEF CampaignCore, RowsAreNext, RestingStep
  <1>4. UNCHANGED <<job, proc, container, label, cmd>> => CampaignShape'
    <2>1. CampaignShape
      BY DEF CampaignCore
    <2>2. ctl'.phase \in {"down", "stop", "close", "commit", "run", "cleanup"} /\ pending' \subseteq Tasks
      BY <2>1 DEF RestingStep, ControllerType, CampaignShape, CampaignTypeOK
    <2> QED BY <2>1, <2>2 DEF CampaignShape, CampaignTypeOK, RestingStep, LaneType
  <1> QED BY <1>1, <1>2, <1>3, <1>4 DEF RestingStep

\* The worlds stay as they are and the controller lets go of them, or has them all on its list.
LEMMA WorldsRest ==
  ASSUME CampaignCore, UNCHANGED <<container, label, cmd>>, checkpoint'.worlds = checkpoint.worlds,
         ctl'.phase \in {"run", "cleanup"} => ctl.phase = "run" /\ ctl'.opened = ctl.opened
  PROVE  WorldsAreRegistered' /\ \A w \in Worlds : Closed(w)' = Closed(w) /\ Kept(w)' = Kept(w)
  <1>1. \A w \in Worlds : Closed(w)' = Closed(w) /\ Kept(w)' = Kept(w)
    BY DEF Closed, Kept
  <1> QED BY <1>1 DEF CampaignCore, WorldsAreRegistered

\* Workers stay as they are when the controller gives up or is killed.
LEMMA LiveRest ==
  ASSUME CampaignCore, UNCHANGED <<checkpoint, job, proc, container, cmd>>,
         ctl'.phase \in {"down", "stop"}, ctl'.outcome # "complete",
         ctl'.phase = "stop" => \A t \in Tasks, a \in Attempts : Live(t, a) => t \in todo'
  PROVE  LiveAreKnown'
  <1>1. LiveAreKnown
    BY DEF CampaignCore
  <1>2. \A t \in Tasks : RowOf(t)' = RowOf(t)
    BY DEF RowOf
  <1>3. \A t \in Tasks, a \in Attempts : Live(t, a)' = Live(t, a) /\ HasRecord(t, a)' = HasRecord(t, a)
    BY DEF Live, HasRecord
  <1>4. LiveKeepTheirWorld'
    BY <1>1, <1>2, <1>3 DEF LiveAreKnown, LiveKeepTheirWorld
  <1>5. \A t \in Tasks, a \in Attempts : Live(t, a)' => HasRecord(t, a)' /\ (cmd[RowOf(t).world] = None)'
    BY <1>1, <1>2, <1>3 DEF LiveAreKnown
  <1> HIDE DEF Live, HasRecord
  <1> QED BY <1>3, <1>4, <1>5 DEF LiveAreKnown

\* The controller gives up, or is killed.
LEMMA DownKeepsInv ==
  ASSUME CampaignCore, RestingStep, UNCHANGED <<job, proc, container, label, cmd>>,
         ctl'.phase = "down", ctl'.outcome \in {None, "refused", "incomplete"}
  PROVE  CampaignCore'
  <1>1. /\ TasksAreHeld' /\ LanesKeepTheirWorld' /\ AttemptsAreEnlisted' /\ RowsAreNext' /\ CampaignShape'
        /\ checkpoint'.worlds = checkpoint.worlds
    BY RestingKeeps
  <1>2. WorldsAreRegistered'
    BY <1>1, WorldsRest
  <1>3. PhasesAreKept' /\ ClosedByPhases' /\ CommitsAreSound'
    <2>1. ctl'.outcome # "complete"
      BY DEF None
    <2>2. PhasesAreKept'
      BY DEF PhasesAreKept, RestingStep
    <2>3. ClosedByPhases'
      BY <2>1 DEF ClosedByPhases
    <2>4. CommitsAreSound'
      BY DEF CommitsAreSound, RestingStep
    <2> QED BY <2>2, <2>3, <2>4
  <1>4. LiveAreKnown'
    <2>1. UNCHANGED checkpoint /\ ctl'.outcome # "complete"
      BY DEF RestingStep, None
    <2> QED BY <2>1, LiveRest
  <1> QED BY <1>1, <1>2, <1>3, <1>4 DEF CampaignCore

\* Before and after the coroutines.
LEMMA RestIs ==
  ASSUME CampaignCore, ctl.phase # "run"
  PROVE  /\ lane \in [Lanes -> LaneType] /\ \A l \in Lanes : lane[l] = EndedLane
         /\ ctl \in ControllerType /\ (ctl.phase # "commit" => commit = NoCommit)
         /\ (ctl.phase # "cleanup" => pending = {})
  BY DEF CampaignCore, CampaignShape, CampaignTypeOK, PhasesAreKept, LaneType

LEMMA AllEnded ==
  [l \in Lanes |-> EndedLane] \in [Lanes -> LaneType]
      /\ \A l \in Lanes : [m \in Lanes |-> EndedLane][l] = EndedLane
  <1>1. EndedLane \in LaneType
    BY RowsAre DEF EndedLane, LaneType
  <1> QED BY <1>1

LEMMA CrashKeepsInv ==
  ASSUME CampaignCore, Crash
  PROVE  CampaignCore'
  <1>1. /\ ctl' = Down /\ lane' = [l \in Lanes |-> EndedLane] /\ pending' = {} /\ commit' = NoCommit
        /\ UNCHANGED <<checkpoint, job, proc, container, label, cmd, canonical, staging>>
    BY DEF Crash, docker, outputs
  <1>2. RestingStep
    BY <1>1, DownIs, AllEnded DEF RestingStep
  <1> QED BY <1>1, <1>2, DownIs, DownKeepsInv

LEMMA StartKeepsInv ==
  ASSUME CampaignCore, Start
  PROVE  CampaignCore'
  <1>1. /\ ctl.phase = "down" /\ ctl' = [Down EXCEPT !.phase = "stop"] /\ todo' = Inflight
        /\ UNCHANGED <<checkpoint, job, proc, container, label, cmd, canonical, staging, lane, pending, commit>>
    BY DEF Start, docker, outputs
  <1>2. ctl' \in ControllerType /\ ctl'.phase = "stop" /\ ctl'.outcome = None
    BY <1>1 DEF Down, ControllerType
  <1>3. RestingStep /\ commit = NoCommit
    BY <1>1, <1>2, RestIs DEF RestingStep
  <1>4. /\ TasksAreHeld' /\ LanesKeepTheirWorld' /\ AttemptsAreEnlisted' /\ RowsAreNext' /\ CampaignShape'
        /\ checkpoint'.worlds = checkpoint.worlds
    BY <1>1, <1>3, RestingKeeps
  <1>5. WorldsAreRegistered'
    BY <1>1, <1>2, <1>4, WorldsRest
  <1>6. PhasesAreKept' /\ ClosedByPhases' /\ CommitsAreSound'
    BY <1>1, <1>2, <1>3 DEF PhasesAreKept, ClosedByPhases, CommitsAreSound, RestingStep, None
  <1>7. LiveAreKnown'
    <2>1. \A t \in Tasks, a \in Attempts : Live(t, a) => t \in todo'
      BY <1>1 DEF CampaignCore, LiveAreKnown, LiveKeepTheirWorld, Inflight, RowOf
    <2> QED BY <1>1, <1>2, <2>1, LiveRest DEF None
  <1> QED BY <1>4, <1>5, <1>6, <1>7 DEF CampaignCore

LEMMA StopWorkerKeepsInv ==
  ASSUME CampaignCore, NEW t \in Tasks, StopWorker(t)
  PROVE  CampaignCore'
  <1>1. /\ ctl.phase = "stop" /\ t \in todo
        /\ UNCHANGED <<checkpoint, container, label, cmd, canonical, staging, lane, pending, commit>>
    BY DEF StopWorker, docker, outputs
  <1>2. CASE ctl' = [Down EXCEPT !.outcome = "refused"] /\ UNCHANGED <<proc, job>>
    <2>1. ctl' \in ControllerType /\ ctl'.phase = "down" /\ ctl'.outcome = "refused"
      BY <1>2, DownIs
    <2>2. RestingStep
      BY <1>1, <2>1, RestIs DEF RestingStep
    <2> QED BY <1>1, <1>2, <2>1, <2>2, DownKeepsInv
  <1>3. CASE /\ todo' = todo \ {t} /\ UNCHANGED ctl
             /\ IF HasRecord(t, RowOf(t).attempt) /\ AtWork(t, RowOf(t).attempt)
                THEN /\ proc' = [proc EXCEPT ![t][RowOf(t).attempt] = "dead"]
                     /\ job' = [job EXCEPT ![t][RowOf(t).attempt].record = "finished"]
                ELSE UNCHANGED <<proc, job>>
    <2> DEFINE a == RowOf(t).attempt
    <2>1. RestingStep /\ commit = NoCommit /\ ctl \in ControllerType
      BY <1>1, <1>3, RestIs DEF RestingStep
    <2>2. job \in [Tasks -> [Attempts -> JobType]] /\ proc \in [Tasks -> [Attempts -> ProcType]]
      BY DEF CampaignCore, CampaignShape, CampaignTypeOK, JobType, ProcType
    <2>3. /\ TasksAreHeld' /\ LanesKeepTheirWorld' /\ AttemptsAreEnlisted'
          /\ checkpoint'.worlds = checkpoint.worlds /\ \A u \in Tasks : RowOf(u)' = RowOf(u)
      BY <2>1, RestingKeeps
    <2>4. /\ job' \in [Tasks -> [Attempts -> JobType]] /\ proc' \in [Tasks -> [Attempts -> ProcType]]
          /\ \A u \in Tasks, b \in Attempts :
               /\ u # t \/ b # a => job'[u][b] = job[u][b] /\ proc'[u][b] = proc[u][b]
               /\ job'[u][b].result = job[u][b].result /\ job'[u][b].timedOut = job[u][b].timedOut
               /\ job'[u][b].record # None => job[u][b].record # None
               /\ proc'[u][b] = "live" => proc[u][b] = "live"
          /\ \A b \in Attempts : b = a => ~(HasRecord(t, b) /\ Live(t, b)) \/ proc'[t][b] = "dead"
      <3>1. CASE UNCHANGED <<proc, job>> /\ ~(HasRecord(t, a) /\ AtWork(t, a))
        BY <2>2, <3>1 DEF Live, AtWork
      <3>2. CASE /\ a \notin Attempts
                 /\ proc' = [proc EXCEPT ![t][a] = "dead"] /\ job' = [job EXCEPT ![t][a].record = "finished"]
        <4> HIDE DEF a
        <4>1. [proc[t] EXCEPT ![a] = "dead"] = proc[t] /\ [job[t] EXCEPT ![a].record = "finished"] = job[t]
          BY <2>2, <3>2
        <4>2. proc' = proc /\ job' = job
          BY <2>2, <3>2, <4>1
        <4> QED BY <2>2, <3>2, <4>2
      <3>3. CASE /\ a \in Attempts /\ HasRecord(t, a)
                 /\ proc' = [proc EXCEPT ![t][a] = "dead"] /\ job' = [job EXCEPT ![t][a].record = "finished"]
        <4> PICK c \in Attempts : c = a
          BY <3>3
        <4>1. Marked(t, c, "finished") /\ HasRecord(t, c) /\ proc' = [proc EXCEPT ![t][c] = "dead"]
          BY <3>3 DEF Marked
        <4>2. /\ OtherJobs(t, c) /\ job'[t][c].record = "finished"
              /\ job'[t][c].result = job[t][c].result /\ job'[t][c].timedOut = job[t][c].timedOut
          BY <2>2, <4>1, MarkIs
        <4>3. /\ proc' \in [Tasks -> [Attempts -> ProcType]] /\ proc'[t][c] = "dead"
              /\ \A u \in Tasks, b \in Attempts : u # t \/ b # c => proc'[u][b] = proc[u][b]
          BY <2>2, <4>1 DEF ProcType
        <4>4. \A u \in Tasks, b \in Attempts : u # t \/ b # c => job'[u][b] = job[u][b]
          BY <4>2 DEF OtherJobs
        <4>5. job[t][c].record # None
          BY <4>1 DEF HasRecord, None
        <4> HIDE DEF a
        <4> QED BY <4>2, <4>3, <4>4, <4>5 DEF OtherJobs
      <3> QED BY <1>3, <3>1, <3>2, <3>3
    <2> HIDE DEF a
    <2>5. CampaignShape'
      <3>1. CampaignShape
        BY DEF CampaignCore
      <3> QED BY <1>1, <1>3, <2>1, <2>4, <3>1 DEF CampaignShape, CampaignTypeOK, RestingStep, JobType, ProcType
    <2>6. RowsAreNext'
      <3>1. RowsAreNext
        BY DEF CampaignCore
      <3>2. \A u \in Tasks, b \in Attempts :
              b > checkpoint.attempts[u] /\ job'[u][b].record # None => RowOf(u) # NoRow /\ RowOf(u).attempt = b
        BY <2>4, <3>1 DEF RowsAreNext
      <3>3. \A u \in Tasks, b \in Attempts :
              b <= checkpoint.attempts[u] /\ job'[u][b].result = "good" /\ ~job'[u][b].timedOut
                => checkpoint.results[u] # 0 /\ b = checkpoint.attempts[u]
        BY <2>4, <3>1 DEF RowsAreNext
      <3> QED BY <1>1, <2>3, <3>1, <3>2, <3>3 DEF RowsAreNext
    <2>7. WorldsAreRegistered'
      BY <1>1, <1>3, <2>3, WorldsRest
    <2>8. PhasesAreKept' /\ ClosedByPhases' /\ CommitsAreSound'
      <3>1. PhasesAreKept'
        BY <1>1, <1>3 DEF CampaignCore, PhasesAreKept
      <3>2. ctl.outcome = None
        BY <1>1 DEF CampaignCore, PhasesAreKept
      <3>3. ClosedByPhases'
        BY <1>1, <1>3, <3>2 DEF ClosedByPhases, None
      <3>4. CommitsAreSound'
        BY <1>1, <1>3, <2>1 DEF CommitsAreSound
      <3> QED BY <3>1, <3>3, <3>4
    <2>9. LiveAreKnown'
      <3>1. LiveAreKnown /\ ctl.outcome = None
        BY <1>1 DEF CampaignCore, PhasesAreKept
      <3>2. \A u \in Tasks, b \in Attempts : Live(u, b)' => u # t /\ Live(u, b) /\ HasRecord(u, b)'
        <4> SUFFICES ASSUME NEW u \in Tasks, NEW b \in Attempts, Live(u, b)'
                     PROVE  u # t /\ Live(u, b) /\ HasRecord(u, b)'
          OBVIOUS
        <4>1. CASE u # t
          <5>1. Live(u, b)
            BY <2>4, <4>1 DEF Live
          <5> QED BY <2>4, <3>1, <4>1, <5>1 DEF LiveAreKnown, HasRecord
        <4>2. CASE u = t /\ b # a
          <5>1. Live(t, b)
            BY <2>4, <4>2 DEF Live
          <5> QED BY <3>1, <4>2, <5>1 DEF LiveAreKnown, LiveKeepTheirWorld, a
        <4>3. CASE u = t /\ b = a
          <5>1. proc'[t][b] # "dead"
            BY <4>3 DEF Live
          <5>2. Live(t, b)
            BY <2>4, <4>3 DEF Live
          <5>3. HasRecord(t, b)
            BY <3>1, <5>2 DEF LiveAreKnown
          <5> QED BY <2>4, <4>3, <5>1, <5>2, <5>3
        <4> QED BY <4>1, <4>2, <4>3
      <3>3. LiveKeepTheirWorld'
        BY <1>1, <2>3, <3>1, <3>2 DEF LiveAreKnown, LiveKeepTheirWorld
      <3>4. \A u \in Tasks, b \in Attempts : Live(u, b)' => HasRecord(u, b)' /\ (cmd[RowOf(u).world] = None)'
        BY <1>1, <2>3, <3>1, <3>2 DEF LiveAreKnown
      <3>5. \A u \in Tasks, b \in Attempts : Live(u, b)' => u \in todo'
        BY <1>1, <1>3, <3>1, <3>2 DEF LiveAreKnown
      <3> HIDE DEF Live, HasRecord
      <3> QED BY <1>1, <1>3, <3>1, <3>3, <3>4, <3>5 DEF LiveAreKnown, None
    <2> QED BY <2>3, <2>5, <2>6, <2>7, <2>8, <2>9 DEF CampaignCore
  <1> QED BY <1>2, <1>3 DEF StopWorker

LEMMA NoneLive ==
  ASSUME \A t \in Tasks, a \in Attempts : ~Live(t, a)'
  PROVE  LiveAreKnown'
  BY DEF LiveAreKnown, LiveKeepTheirWorld

\* Between the phases of the recovery and of the cleanup, when no worker is left.
LEMMA CalmKeeps ==
  ASSUME CampaignCore, RestingStep, UNCHANGED <<job, proc, container, label, cmd>>,
         \A t \in Tasks, a \in Attempts : ~Live(t, a),
         ctl'.phase = "cleanup" => ctl.phase = "run" /\ ctl'.opened = ctl.opened
  PROVE  /\ TasksAreHeld' /\ LanesKeepTheirWorld' /\ AttemptsAreEnlisted' /\ RowsAreNext' /\ CampaignShape'
         /\ WorldsAreRegistered' /\ LiveAreKnown'
         /\ \A w \in Worlds : Closed(w)' = Closed(w) /\ Kept(w)' = Kept(w)
         /\ \A t \in Tasks : RowOf(t)' = RowOf(t)
  <1>1. /\ TasksAreHeld' /\ LanesKeepTheirWorld' /\ AttemptsAreEnlisted' /\ RowsAreNext' /\ CampaignShape'
        /\ checkpoint'.worlds = checkpoint.worlds /\ \A t \in Tasks : RowOf(t)' = RowOf(t)
    BY RestingKeeps
  <1>2. WorldsAreRegistered' /\ \A w \in Worlds : Closed(w)' = Closed(w) /\ Kept(w)' = Kept(w)
    <2>1. ctl'.phase # "run"
      BY DEF RestingStep
    <2> QED BY <1>1, <2>1, WorldsRest
  <1>3. LiveAreKnown'
    <2>1. \A t \in Tasks, a \in Attempts : ~Live(t, a)'
      BY DEF Live
    <2> QED BY <2>1, NoneLive
  <1> QED BY <1>1, <1>2, <1>3

LEMMA NextPhaseKeepsInv ==
  ASSUME CampaignCore, NextPhase
  PROVE  CampaignCore'
  <1>1. /\ todo = {} /\ commit = NoCommit /\ ctl.phase \in {"stop", "close", "commit"}
        /\ UNCHANGED <<checkpoint, job, proc, container, label, cmd, canonical, staging, commit>>
    BY DEF NextPhase, docker, outputs
  <1>2. /\ \A t \in Tasks, a \in Attempts : ~Live(t, a)
        /\ ctl \in ControllerType /\ ctl.outcome = None /\ \A l \in Lanes : lane[l] = EndedLane
        /\ lane \in [Lanes -> LaneType] /\ (ctl.phase # "cleanup" => pending = {})
    BY <1>1, RestIs DEF CampaignCore, LiveAreKnown, PhasesAreKept
  <1>3. CASE ctl.phase = "stop" /\ ctl' = [ctl EXCEPT !.phase = "close"]
             /\ todo' = {w \in checkpoint.worlds : Kept(w)} /\ UNCHANGED <<lane, pending>>
    <2>1. ctl' \in ControllerType /\ ctl'.phase = "close" /\ ctl'.outcome = None
      BY <1>2, <1>3 DEF ControllerType
    <2>2. RestingStep
      BY <1>1, <1>2, <1>3, <2>1 DEF RestingStep
    <2>3. /\ TasksAreHeld' /\ LanesKeepTheirWorld' /\ AttemptsAreEnlisted' /\ RowsAreNext' /\ CampaignShape'
          /\ WorldsAreRegistered' /\ LiveAreKnown'
          /\ \A w \in Worlds : Closed(w)' = Closed(w) /\ Kept(w)' = Kept(w)
      BY <1>1, <1>2, <2>1, <2>2, CalmKeeps
    <2>4. \A w \in Worlds : Closed(w)' \/ w \in todo'
      BY <1>3, <2>3 DEF CampaignCore, WorldsAreRegistered
    <2>5. PhasesAreKept' /\ CommitsAreSound' /\ ClosedByPhases'
      BY <1>1, <2>1, <2>2, <2>4 DEF PhasesAreKept, CommitsAreSound, ClosedByPhases, RestingStep, None
    <2> QED BY <2>3, <2>5 DEF CampaignCore
  <1>4. CASE ctl.phase = "close" /\ ctl' = [ctl EXCEPT !.phase = "commit"] /\ todo' = Inflight
                 /\ UNCHANGED <<lane, pending>>
    <2>1. ctl' \in ControllerType /\ ctl'.phase = "commit" /\ ctl'.outcome = None
      BY <1>2, <1>4 DEF ControllerType
    <2>2. RestingStep
      BY <1>1, <1>2, <1>4, <2>1 DEF RestingStep
    <2>3. /\ TasksAreHeld' /\ LanesKeepTheirWorld' /\ AttemptsAreEnlisted' /\ RowsAreNext' /\ CampaignShape'
          /\ WorldsAreRegistered' /\ LiveAreKnown'
          /\ \A w \in Worlds : Closed(w)' = Closed(w) /\ Kept(w)' = Kept(w)
          /\ \A t \in Tasks : RowOf(t)' = RowOf(t)
      BY <1>1, <1>2, <2>1, <2>2, CalmKeeps
    <2>4. \A w \in Worlds : Closed(w)'
      BY <1>1, <1>4, <2>3 DEF CampaignCore, ClosedByPhases
    <2>5. \A t \in todo' : t \in Tasks /\ RowOf(t)' # NoRow
      BY <1>1, <1>4, <2>3 DEF Inflight, RowOf
    <2>6. PhasesAreKept' /\ ClosedByPhases'
      BY <1>1, <2>1, <2>2, <2>4 DEF PhasesAreKept, ClosedByPhases, RestingStep, None
    <2>7. CommitsAreSound'
      BY <1>1, <2>5 DEF CommitsAreSound
    <2> QED BY <2>3, <2>6, <2>7 DEF CampaignCore
  <1>5. CASE ctl.phase = "commit" /\ ctl' = [ctl EXCEPT !.phase = "run"]
             /\ pending' = {t \in Tasks : checkpoint.results[t] = 0}
             /\ lane' = [l \in Lanes |-> IF pending' = {} THEN EndedLane ELSE Idle(NoWorld)]
             /\ UNCHANGED todo
    <2>1. ctl' \in ControllerType /\ ctl'.phase = "run" /\ ctl'.outcome = None
      BY <1>2, <1>5 DEF ControllerType
    <2>2. \A w \in Worlds : Closed(w)'
      BY <1>1, <1>5 DEF CampaignCore, ClosedByPhases, Closed
    <2>3. /\ Idle(NoWorld) \in LaneType /\ Idle(NoWorld).at = "idle" /\ Idle(NoWorld).task = None
          /\ Idle(NoWorld).world = NoWorld
      BY IdleIs
    <2>4. lane' \in [Lanes -> LaneType] /\ \A l \in Lanes : lane'[l] = EndedLane \/ lane'[l] = Idle(NoWorld)
      <3>1. EndedLane \in LaneType
        BY RowsAre DEF EndedLane, LaneType
      <3> HIDE DEF Idle
      <3> QED BY <1>5, <2>3, <3>1
    <2>5. /\ EndedLane.at = "ended" /\ EndedLane.world = NoWorld
          /\ {"ended", "idle"} \cap (TaskPlaces \cup BuildingPlaces \cup InWorldPlaces \cup EnlistedPlaces) = {}
      BY DEF EndedLane, TaskPlaces, AttemptPlaces, BuildingPlaces, InWorldPlaces, EnlistedPlaces
    <2> HIDE DEF Idle
    <2>6. \A l \in Lanes : HoldsTask(l)' /\ KeepsWorld(l)' /\ IsEnlisted(l)'
      <3> SUFFICES ASSUME NEW l \in Lanes PROVE HoldsTask(l)' /\ KeepsWorld(l)' /\ IsEnlisted(l)'
        OBVIOUS
      <3>1. \A w \in WorldsOf(l) : Closed(w)'
        BY <2>2, WorldsAre
      <3>2. (lane'[l].at = "ended" /\ lane'[l] = EndedLane) \/ (lane'[l].at = "idle" /\ lane'[l].task = None)
        BY <2>3, <2>4, <2>5
      <3>3. lane'[l].world = NoWorld
        BY <2>3, <2>4, <2>5
      <3>4. HoldsTask(l)'
        BY <2>5, <3>2 DEF HoldsTask
      <3>5. IsEnlisted(l)'
        BY <2>5, <3>2, PlacesAre DEF IsEnlisted
      <3> QED BY <2>5, <3>1, <3>2, <3>3, <3>4, <3>5 DEF KeepsWorld
    <2>7. TasksAreHeld' /\ LanesKeepTheirWorld' /\ AttemptsAreEnlisted'
      <3>1. \A l \in Lanes : lane'[l].at \notin TaskPlaces
        BY <2>3, <2>4, <2>5
      <3>2. \A t \in pending' : checkpoint'.results[t] = 0
        BY <1>1, <1>5
      <3> QED BY <2>6, <3>1, <3>2 DEF TasksAreHeld, LanesKeepTheirWorld, AttemptsAreEnlisted
    <2>8. LiveAreKnown'
      <3>1. \A t \in Tasks, a \in Attempts : ~Live(t, a)'
        BY <1>1, <1>2 DEF Live
      <3> QED BY <3>1, NoneLive
    <2>9. CampaignShape'
      <3>1. CampaignShape /\ ctl'.phase \in {"down", "stop", "close", "commit", "run", "cleanup"}
                /\ pending' \subseteq Tasks
        BY <1>5, <2>1 DEF CampaignCore
      <3> QED BY <1>1, <2>1, <2>4, <3>1 DEF CampaignShape, CampaignTypeOK, LaneType
    <2>10. RowsAreNext'
      BY <1>1 DEF CampaignCore, RowsAreNext, RowOf
    <2>11. PhasesAreKept' /\ WorldsAreRegistered' /\ CommitsAreSound' /\ ClosedByPhases'
      BY <1>1, <2>1, <2>2 DEF PhasesAreKept, WorldsAreRegistered, CommitsAreSound, ClosedByPhases, None
    <2> QED BY <2>7, <2>8, <2>9, <2>10, <2>11 DEF CampaignCore
  <1> QED BY <1>3, <1>4, <1>5 DEF NextPhase

LEMMA CloseWorldKeepsInv ==
  ASSUME CampaignCore, NEW w \in Worlds, CloseWorld(w)
  PROVE  CampaignCore'
  <1>1. /\ ctl.phase \in {"close", "cleanup"} /\ w \in todo
        /\ UNCHANGED <<checkpoint, job, proc, canonical, staging, lane, pending, commit>>
    BY DEF CloseWorld, outputs
  <1>2. /\ \A t \in Tasks, a \in Attempts : ~Live(t, a)
        /\ ctl \in ControllerType /\ ctl.outcome = None /\ \A l \in Lanes : lane[l] = EndedLane
        /\ lane \in [Lanes -> LaneType] /\ (ctl.phase # "cleanup" => pending = {}) /\ commit = NoCommit
        /\ WorldsAreRegistered /\ ClosedByPhases
    BY <1>1, RestIs DEF CampaignCore, LiveAreKnown, PhasesAreKept
  <1>3. CASE UNCHANGED docker /\ ctl.phase = "close" /\ ctl' = [Down EXCEPT !.outcome = "refused"]
    <2>1. ctl' \in ControllerType /\ ctl'.phase = "down" /\ ctl'.outcome = "refused"
      BY <1>3, DownIs
    <2>2. RestingStep
      BY <1>1, <1>2, <1>3, <2>1 DEF RestingStep
    <2> QED BY <1>1, <1>3, <2>1, <2>2, DownKeepsInv DEF docker
  <1>4. CASE /\ ctl' \in ControllerType /\ ctl'.phase = ctl.phase /\ ctl'.outcome = None
                    /\ ctl'.opened = ctl.opened
             /\ todo \ {w} \subseteq todo'
             /\ ~Closed(w)' => Kept(w)' /\ ~Closed(w)
             /\ ctl.phase = "close" \/ ~ctl'.errors => (~ctl.errors \/ ctl.phase = "close")
                    /\ (Closed(w)' \/ w \in todo')
             /\ DockerTypes'
             /\ \A v \in Worlds : v # w => container'[v] = container[v] /\ cmd'[v] = cmd[v]
                    /\ label'[v] = label[v]
    <2>1. RestingStep
      BY <1>1, <1>2, <1>4 DEF RestingStep
    <2>2. /\ TasksAreHeld' /\ LanesKeepTheirWorld' /\ AttemptsAreEnlisted' /\ RowsAreNext'
          /\ checkpoint'.worlds = checkpoint.worlds
      BY <1>1, <2>1, RestingKeeps
    <2>3. LiveAreKnown'
      <3>1. \A t \in Tasks, a \in Attempts : ~Live(t, a)'
        BY <1>1, <1>2 DEF Live
      <3> QED BY <3>1, NoneLive
    <2>4. CampaignShape'
      <3>1. CampaignShape
        BY DEF CampaignCore
      <3> QED BY <1>1, <1>4, <2>1, <3>1 DEF CampaignShape, CampaignTypeOK, RestingStep, LaneType, DockerTypes
    <2>5. \A v \in Worlds : ~Closed(v)' => Kept(v)' /\ ~Closed(v)
      <3>1. \A v \in Worlds : v # w => Closed(v)' = Closed(v) /\ Kept(v)' = Kept(v)
        BY <1>4 DEF Closed, Kept
      <3> HIDE DEF Closed, Kept
      <3> QED BY <1>2, <1>4, <3>1 DEF WorldsAreRegistered
    <2>6. WorldsAreRegistered'
      BY <1>2, <1>4, <2>2, <2>5 DEF WorldsAreRegistered
    <2>7. ClosedByPhases'
      <3>1. \A v \in Worlds : v # w => Closed(v)' = Closed(v) /\ (v \in todo => v \in todo')
        BY <1>4 DEF Closed
      <3>2. ctl.phase = "close" \/ ~ctl'.errors => \A v \in Worlds : Closed(v)' \/ v \in todo'
        BY <1>1, <1>2, <1>4, <3>1 DEF ClosedByPhases
      <3> QED BY <1>1, <1>4, <3>2 DEF ClosedByPhases, None
    <2>8. PhasesAreKept' /\ CommitsAreSound'
      BY <1>1, <1>2, <1>4 DEF PhasesAreKept, CommitsAreSound
    <2> QED BY <2>2, <2>3, <2>4, <2>6, <2>7, <2>8 DEF CampaignCore
  <1>5. CASE RemoveBox(w) /\ UNCHANGED <<todo, ctl>>
    <2>1. /\ DockerTypes' /\ Kept(w)' /\ ~Closed(w)
          /\ \A v \in Worlds : v # w => container'[v] = container[v] /\ cmd'[v] = cmd[v] /\ label'[v] = label[v]
      BY <1>5, DockerIs
    <2> QED BY <1>1, <1>2, <1>4, <1>5, <2>1
  <1>6. CASE RemoveNetwork(w) /\ todo' = todo \ {w} /\ UNCHANGED ctl
    <2>1. /\ DockerTypes' /\ Closed(w)'
          /\ \A v \in Worlds : v # w => container'[v] = container[v] /\ cmd'[v] = cmd[v] /\ label'[v] = label[v]
      BY <1>6, DockerIs
    <2> QED BY <1>1, <1>2, <1>4, <1>6, <2>1
  <1>7. CASE UNCHANGED docker /\ ctl.phase = "cleanup" /\ ctl' = [ctl EXCEPT !.errors = TRUE]
                 /\ todo' = todo \ {w}
    <2>1. /\ ctl' \in ControllerType /\ ctl'.phase = "cleanup" /\ ctl'.outcome = None
                 /\ ctl'.opened = ctl.opened
          /\ ctl'.errors = TRUE
      BY <1>2, <1>7 DEF ControllerType
    <2>2. DockerTypes' /\ (~Closed(w)' => Kept(w)' /\ ~Closed(w))
      <3>1. DockerTypes
        BY DockerIs
      <3> QED BY <1>2, <1>7, <3>1 DEF DockerTypes, docker, Closed, Kept, WorldsAreRegistered
    <2>3. \A v \in Worlds : v # w => container'[v] = container[v] /\ cmd'[v] = cmd[v] /\ label'[v] = label[v]
      BY <1>7 DEF docker
    <2> QED BY <1>1, <1>4, <1>7, <2>1, <2>2, <2>3
  <1>8. \/ RemoveBox(w) /\ UNCHANGED <<todo, ctl>>
        \/ RemoveNetwork(w) /\ todo' = todo \ {w} /\ UNCHANGED ctl
        \/ UNCHANGED docker /\ ctl.phase = "close" /\ ctl' = [Down EXCEPT !.outcome = "refused"]
        \/ UNCHANGED docker /\ ctl.phase = "cleanup" /\ ctl' = [ctl EXCEPT !.errors = TRUE]
               /\ todo' = todo \ {w}
    BY <1>1 DEF CloseWorld
  <1> QED BY <1>3, <1>5, <1>6, <1>7, <1>8

LEMMA RecoverKeepsInv ==
  ASSUME CampaignCore, NEW t \in Tasks, RecoverAttempt(t)
  PROVE  CampaignCore'
  <1>1. /\ ctl.phase = "commit" /\ t \in todo /\ commit = NoCommit
        /\ UNCHANGED <<checkpoint, job, proc, container, label, cmd, canonical, staging, ctl, lane, pending, todo>>
    BY DEF RecoverAttempt, docker, outputs
  <1>2. RowOf(t) # NoRow /\ RowOf(t) \in Row \cup {NoRow} /\ job \in [Tasks -> [Attempts -> JobType]]
    BY <1>1 DEF CampaignCore, CommitsAreSound, CampaignShape, CampaignTypeOK, RowOf, JobType
  <1>3. PICK a \in Attempts : a = RowOf(t).attempt
    BY <1>2, RowsAre
  <1>4. PICK raw \in Raw : raw = LeftBehind(t, a)
    BY <1>2 DEF LeftBehind, JobType, Raw
  <1>5. BeginCommit("recovery", t, a, raw)
    BY <1>3, <1>4 DEF RecoverAttempt
  <1>6. commit' \in CommitType
    BY <1>5, CommitTyped
  <1>7. /\ commit'.by = "recovery" /\ commit'.task = t /\ commit'.attempt = a /\ commit'.raw = raw
        /\ commit'.at = IF raw = "good" THEN "check" ELSE "record"
    BY <1>5 DEF BeginCommit
  <1>8. checkpoint.results[t] = 0 /\ a = checkpoint.attempts[t] + 1
    BY <1>2, <1>3 DEF CampaignCore, RowsAreNext
  <1>9. \A u \in Tasks, b \in Attempts : HasRecord(u, b)' = HasRecord(u, b) /\ Live(u, b)' = Live(u, b)
            /\ ~Live(u, b)
    BY <1>1 DEF HasRecord, Live, CampaignCore, LiveAreKnown
  <1>10. job[t][a].result = "good" => raw = "good"
    BY <1>4 DEF LeftBehind, None
  <1>11. CommitsAreSound'
    <2>1. \A u \in todo : u \in Tasks /\ RowOf(u)' # NoRow
      BY <1>1 DEF CampaignCore, CommitsAreSound, RowOf
    <2>2. \A b \in Attempts : ~Live(t, b)'
      BY <1>9
    <2> HIDE DEF Live, RowOf
    <2>3. /\ checkpoint'.results = checkpoint.results /\ checkpoint'.attempts = checkpoint.attempts
          /\ job' = job /\ canonical' = canonical /\ ctl'.phase = "commit" /\ todo' = todo
      BY <1>1
    <2> QED BY <1>7, <1>8, <1>10, <2>1, <2>2, <2>3 DEF CommitsAreSound
  <1>12. /\ PhasesAreKept' /\ TasksAreHeld' /\ WorldsAreRegistered' /\ LanesKeepTheirWorld' /\ ClosedByPhases'
         /\ AttemptsAreEnlisted'
    <2>1. PhasesAreKept'
      BY <1>1 DEF CampaignCore, PhasesAreKept
    <2>2. \A l \in Lanes : lane'[l] = EndedLane
      BY <1>1, RestIs
    <2>3. \A u \in pending' : checkpoint'.results[u] = 0
      BY <1>1 DEF CampaignCore, TasksAreHeld
    <2>4. TasksAreHeld' /\ LanesKeepTheirWorld' /\ AttemptsAreEnlisted'
      BY <2>2, <2>3, EndedLanesKeep
    <2>5. WorldsAreRegistered'
      BY <1>1, WorldsRest
    <2>6. ClosedByPhases'
      BY <1>1 DEF CampaignCore, ClosedByPhases, Closed
    <2> QED BY <2>1, <2>4, <2>5, <2>6
  <1>13. CampaignShape'
    BY <1>1, <1>6 DEF CampaignCore, CampaignShape, CampaignTypeOK
  <1>14. LiveAreKnown'
    <2>1. \A u \in Tasks, b \in Attempts : ~Live(u, b)'
      BY <1>9
    <2> QED BY <2>1, NoneLive
  <1>15. RowsAreNext'
    BY <1>1 DEF CampaignCore, RowsAreNext, RowOf
  <1> QED BY <1>11, <1>12, <1>13, <1>14, <1>15 DEF CampaignCore

LEMMA InterruptControllerKeepsInv ==
  ASSUME CampaignCore, InterruptController
  PROVE  CampaignCore'
  <1>1. /\ ctl.phase = "run" /\ commit = NoCommit /\ ctl' = [ctl EXCEPT !.interrupted = TRUE, !.stop = TRUE]
        /\ UNCHANGED <<checkpoint, job, proc, container, label, cmd, canonical, staging, lane, pending, todo, commit>>
    BY DEF InterruptController, docker, outputs
  <1>2. /\ ctl' \in ControllerType /\ ctl'.phase = "run" /\ ctl'.outcome = ctl.outcome /\ ctl'.stop = TRUE
        /\ ctl'.opened = ctl.opened
    <2>1. ctl \in ControllerType
      BY DEF CampaignCore, CampaignShape
    <2> DEFINE c == [ctl EXCEPT !.interrupted = TRUE]
    <2>2. c \in ControllerType /\ c.phase = ctl.phase /\ c.outcome = ctl.outcome /\ c.opened = ctl.opened
      BY <2>1 DEF ControllerType
    <2>3. ctl' = [c EXCEPT !.stop = TRUE]
      BY <1>1
    <2> HIDE DEF c
    <2> QED BY <1>1, <2>2, <2>3 DEF ControllerType
  <1>3. CampaignShape'
    <2>1. ctl'.phase \in {"down", "stop", "close", "commit", "run", "cleanup"}
      BY <1>2
    <2> QED BY <1>1, <1>2, <2>1 DEF CampaignCore, CampaignShape, CampaignTypeOK
  <1>4. \A l \in Lanes : HoldsTask(l)' /\ KeepsWorld(l)' /\ IsEnlisted(l)'
    <2> SUFFICES ASSUME NEW l \in Lanes PROVE HoldsTask(l)' /\ KeepsWorld(l)' /\ IsEnlisted(l)'
      OBVIOUS
    <2>1. HoldsTask(l) /\ KeepsWorld(l) /\ IsEnlisted(l)
      BY LaneIs
    <2>2. HoldsTask(l)'
      BY <1>1, <2>1 DEF HoldsTask
    <2>3. KeepsWorld(l)'
      BY <1>1, <1>2, <2>1 DEF KeepsWorld, Closed
    <2>4. IsEnlisted(l)'
      BY <1>1, <2>1 DEF IsEnlisted, HasRecord, RowOf
    <2> QED BY <2>2, <2>3, <2>4
  <1>5. TasksAreHeld' /\ LanesKeepTheirWorld' /\ AttemptsAreEnlisted'
    BY <1>1, <1>4 DEF CampaignCore, TasksAreHeld, LanesKeepTheirWorld, AttemptsAreEnlisted
  <1>6. WorldsAreRegistered'
    BY <1>1, <1>2, WorldsRest
  <1>7. PhasesAreKept' /\ ClosedByPhases' /\ CommitsAreSound'
    BY <1>1, <1>2 DEF CampaignCore, PhasesAreKept, ClosedByPhases, CommitsAreSound, None
  <1>8. RowsAreNext'
    BY <1>1 DEF CampaignCore, RowsAreNext, RowOf
  <1>9. LiveAreKnown'
    <2>1. LiveAreKnown /\ \A t \in Tasks : RowOf(t)' = RowOf(t)
      BY <1>1 DEF CampaignCore, RowOf
    <2>2. \A t \in Tasks, a \in Attempts : Live(t, a)' = Live(t, a) /\ HasRecord(t, a)' = HasRecord(t, a)
      BY <1>1 DEF Live, HasRecord
    <2>3. LiveKeepTheirWorld'
      BY <1>1, <2>1, <2>2 DEF LiveAreKnown, LiveKeepTheirWorld
    <2>4. \A t \in Tasks, a \in Attempts : Live(t, a)' => HasRecord(t, a)' /\ (cmd[RowOf(t).world] = None)'
      BY <1>1, <2>1, <2>2 DEF LiveAreKnown
    <2>5. \A t \in Tasks, a \in Attempts : Live(t, a)' =>
             \E l \in Lanes : lane'[l].at \in {"note", "wait"} /\ lane'[l].task = t /\ lane'[l].attempt = a
      BY <1>1, <2>1, <2>2 DEF LiveAreKnown
    <2>6. ctl'.outcome # "complete"
      BY <1>1, <1>2 DEF CampaignCore, PhasesAreKept, None
    <2> HIDE DEF Live, HasRecord
    <2> QED BY <1>2, <2>3, <2>4, <2>5, <2>6 DEF LiveAreKnown
  <1> QED BY <1>3, <1>5, <1>6, <1>7, <1>8, <1>9 DEF CampaignCore

LEMMA LanesDoneKeepsInv ==
  ASSUME CampaignCore, LanesDone
  PROVE  CampaignCore'
  <1>1. /\ ctl.phase = "run" /\ \A l \in Lanes : lane[l].at = "ended"
        /\ ctl' = [ctl EXCEPT !.phase = "cleanup"] /\ todo' = {w \in ctl.opened : Kept(w)}
        /\ UNCHANGED <<checkpoint, job, proc, container, label, cmd, canonical, staging, lane, pending, commit>>
    BY DEF LanesDone, docker, outputs
  <1>2. \A l \in Lanes : lane[l] = EndedLane
    BY <1>1, LaneIs DEF HoldsTask
  <1>3. commit = NoCommit
    BY <1>1 DEF CampaignCore, CommitsAreSound
  <1>4. \A t \in Tasks, a \in Attempts : ~Live(t, a)
    BY <1>1, LiveIs
  <1>5. ctl \in ControllerType /\ ctl.outcome = None /\ lane \in [Lanes -> LaneType]
    BY <1>1 DEF CampaignCore, CampaignShape, PhasesAreKept, CampaignTypeOK, LaneType
  <1>6. ctl' \in ControllerType /\ ctl'.phase = "cleanup" /\ ctl'.outcome = None /\ ctl'.opened = ctl.opened
    BY <1>1, <1>5 DEF ControllerType
  <1>7. RestingStep
    BY <1>1, <1>2, <1>3, <1>5, <1>6 DEF RestingStep
  <1>8. /\ TasksAreHeld' /\ LanesKeepTheirWorld' /\ AttemptsAreEnlisted' /\ RowsAreNext' /\ CampaignShape'
        /\ WorldsAreRegistered' /\ LiveAreKnown'
        /\ \A w \in Worlds : Closed(w)' = Closed(w) /\ Kept(w)' = Kept(w)
    BY <1>1, <1>4, <1>6, <1>7, CalmKeeps
  <1>9. \A w \in Worlds : Closed(w)' \/ w \in todo'
    BY <1>1, <1>8 DEF CampaignCore, WorldsAreRegistered
  <1>10. PhasesAreKept' /\ CommitsAreSound' /\ ClosedByPhases'
    BY <1>6, <1>7, <1>9 DEF PhasesAreKept, CommitsAreSound, ClosedByPhases, RestingStep, None
  <1> QED BY <1>8, <1>10 DEF CampaignCore

LEMMA ReportKeepsInv ==
  ASSUME CampaignCore, ReportCampaign
  PROVE  CampaignCore'
  <1>1. /\ ctl.phase = "cleanup" /\ todo = {} /\ lane' = [l \in Lanes |-> EndedLane] /\ pending' = {}
        /\ UNCHANGED <<checkpoint, job, proc, container, label, cmd, canonical, staging, todo, commit>>
    BY DEF ReportCampaign, docker, outputs
  <1>2. PICK o \in {"complete", "incomplete"} :
          ctl' = [Down EXCEPT !.outcome = o] /\ (o = "complete" => ~ctl.errors)
    BY DEF ReportCampaign, Score
  <1>3. ctl' \in ControllerType /\ ctl'.phase = "down" /\ ctl'.outcome = o
    BY <1>2, DownIs
  <1>4. RestingStep
    BY <1>1, <1>3, AllEnded, RestIs DEF RestingStep
  <1>5. CASE o = "incomplete"
    BY <1>1, <1>3, <1>4, <1>5, DownKeepsInv
  <1>6. CASE o = "complete"
    <2>1. \A t \in Tasks, a \in Attempts : ~Live(t, a)
      BY <1>1 DEF CampaignCore, LiveAreKnown
    <2>2. /\ TasksAreHeld' /\ LanesKeepTheirWorld' /\ AttemptsAreEnlisted' /\ RowsAreNext' /\ CampaignShape'
          /\ WorldsAreRegistered' /\ LiveAreKnown'
          /\ \A w \in Worlds : Closed(w)' = Closed(w) /\ Kept(w)' = Kept(w)
      BY <1>1, <1>3, <1>4, <2>1, CalmKeeps
    <2>3. \A w \in Worlds : Closed(w)'
      BY <1>1, <1>2, <1>6, <2>2 DEF CampaignCore, ClosedByPhases
    <2>4. PhasesAreKept' /\ CommitsAreSound' /\ ClosedByPhases'
      BY <1>3, <1>4, <2>3 DEF PhasesAreKept, CommitsAreSound, ClosedByPhases, RestingStep
    <2> QED BY <2>2, <2>4 DEF CampaignCore
  <1> QED BY <1>5, <1>6

-------------------------------------------------------------------------------
(* Campaign: committing an attempt.                                           *)

\* The commit under way, and the coroutine that waits for it.
LEMMA CommitIs ==
  ASSUME CampaignCore, commit # NoCommit
  PROVE  /\ commit \in CommitType /\ ctl.phase \in {"run", "commit"} /\ ctl.outcome = None
         /\ checkpoint.results[commit.task] = 0 /\ commit.attempt = checkpoint.attempts[commit.task] + 1
         /\ \A a \in Attempts : ~Live(commit.task, a)
         /\ ctl.phase = "run" => /\ commit.by \in Lanes /\ lane[commit.by].at = "commit"
                                 /\ lane[commit.by].task = commit.task
         /\ ctl.phase = "commit" => commit.by = "recovery" /\ commit.by \notin Lanes
  BY CampaignAssumption DEF CampaignCore, CampaignShape, PhasesAreKept, CommitsAreSound

LEMMA PublishKeepsInv ==
  ASSUME CampaignCore, Publish
  PROVE  CampaignCore'
  <1>1. /\ commit # NoCommit /\ commit.at \in {"check", "clear", "cleared", "mkdir", "intent", "rename"}
        /\ UNCHANGED <<checkpoint, job, proc, container, label, cmd, ctl, lane, pending, todo>>
    BY DEF Publish, docker
  <1>2. commit \in CommitType /\ CommitsAreSound /\ checkpoint.results[commit.task] = 0
    BY <1>1, CommitIs DEF CampaignCore
  <1>3. /\ commit.by \in Lanes \cup {"recovery"} /\ commit.task \in Tasks /\ commit.attempt \in Attempts
        /\ commit.raw = "good"
    BY <1>1, <1>2 DEF CommitType, CommitsAreSound
  <1>4. PICK t \in Tasks, a \in Attempts : commit.task = t /\ commit.attempt = a
    BY <1>3
  <1>5. /\ canonical \in [Tasks -> 0..Last] /\ staging \in [Tasks -> [Attempts -> {None, "bare", "intent"}]]
    BY DEF CampaignCore, CampaignShape, CampaignTypeOK
  <1>6. PICK at \in CommitPlaces :
          /\ commit' = [commit EXCEPT !.at = at]
          /\ at = "record" => commit.at = "rename" \/ (canonical[t] = a /\ canonical' = canonical)
    BY <1>1, <1>4 DEF Publish, Step, CommitPlaces, PublishRefused, outputs
  <1>7. canonical' = canonical \/ canonical' = [canonical EXCEPT ![t] = a]
    BY <1>4 DEF Publish, outputs
  <1>8. commit.at = "rename" => canonical' = [canonical EXCEPT ![t] = a]
    BY <1>4 DEF Publish
  <1>9. /\ canonical' \in [Tasks -> 0..Last] /\ \A u \in Tasks : u # t => canonical'[u] = canonical[u]
        /\ at = "record" => canonical'[t] = a
    BY <1>5, <1>6, <1>7, <1>8, RowsAre
  <1>10. staging' \in [Tasks -> [Attempts -> {None, "bare", "intent"}]]
    <2>1. \/ staging' = staging
          \/ \E d \in {None, "bare", "intent"} : staging' = [staging EXCEPT ![t][a] = d]
      BY <1>4 DEF Publish, Put, outputs
    <2> QED BY <1>5, <2>1
  <1>11. /\ commit' \in CommitType /\ commit' # NoCommit /\ commit'.task = t /\ commit'.attempt = a
         /\ commit'.by = commit.by /\ commit'.raw = "good" /\ commit'.at = at
    <2>1. /\ commit' \in CommitType /\ commit'.task = t /\ commit'.attempt = a
          /\ commit'.by = commit.by /\ commit'.raw = "good" /\ commit'.at = at
      BY <1>2, <1>3, <1>4, <1>6 DEF CommitType
    <2> QED BY <2>1, NoCommitIs
  <1>12. CampaignShape'
    BY <1>1, <1>9, <1>10, <1>11 DEF CampaignCore, CampaignShape, CampaignTypeOK
  <1>13. \A u \in Tasks, b \in Attempts : HasRecord(u, b)' = HasRecord(u, b) /\ Live(u, b)' = Live(u, b)
    BY <1>1 DEF HasRecord, Live
  <1>14. PhasesAreKept'
    BY <1>1, CommitIs DEF CampaignCore, PhasesAreKept
  <1>15. TasksAreHeld' /\ LanesKeepTheirWorld' /\ AttemptsAreEnlisted'
    <2>1. \A l \in Lanes : HoldsTask(l)' /\ KeepsWorld(l)' /\ IsEnlisted(l)'
      <3> SUFFICES ASSUME NEW l \in Lanes PROVE HoldsTask(l)' /\ KeepsWorld(l)' /\ IsEnlisted(l)'
        OBVIOUS
      <3>1. HoldsTask(l) /\ KeepsWorld(l) /\ IsEnlisted(l)
        BY LaneIs
      <3>2. HoldsTask(l)'
        BY <1>1, <3>1 DEF HoldsTask
      <3>3. KeepsWorld(l)'
        BY <1>1, <3>1 DEF KeepsWorld, Closed
      <3>4. IsEnlisted(l)'
        BY <1>1, <3>1 DEF IsEnlisted, HasRecord, RowOf
      <3> QED BY <3>2, <3>3, <3>4
    <2> QED BY <1>1, <2>1 DEF CampaignCore, TasksAreHeld, LanesKeepTheirWorld, AttemptsAreEnlisted
  <1>16. WorldsAreRegistered' /\ ClosedByPhases'
    BY <1>1 DEF CampaignCore, WorldsAreRegistered, ClosedByPhases, Closed, Kept
  <1>17. RowsAreNext'
    <2>1. RowsAreNext
      BY DEF CampaignCore
    <2>2. \A u \in Tasks : checkpoint.results[u] # 0 => canonical'[u] = checkpoint.results[u]
      BY <1>2, <1>4, <1>9, <2>1 DEF RowsAreNext
    <2> QED BY <1>1, <2>1, <2>2 DEF RowsAreNext, RowOf
  <1>18. LiveAreKnown'
    <2>1. \A u \in Tasks, b \in Attempts : Live(u, b)' => Live(u, b) /\ HasRecord(u, b)'
      BY <1>13 DEF CampaignCore, LiveAreKnown
    <2> QED BY <1>1, <2>1, FewerLive
  <1>19. CommitsAreSound'
    <2>1. \A b \in Attempts : ~Live(t, b)'
      BY <1>1, <1>4, <1>13, CommitIs
    <2>2. ctl.phase = "commit" => \A u \in todo : u \in Tasks /\ RowOf(u)' # NoRow
      BY <1>1, <1>2 DEF CommitsAreSound, RowOf
    <2>3. /\ checkpoint'.results[t] = 0 /\ a = checkpoint'.attempts[t] + 1
          /\ IF ctl'.phase = "run"
             THEN commit'.by \in Lanes /\ lane'[commit'.by].at = "commit" /\ lane'[commit'.by].task = t
             ELSE commit'.by = "recovery"
      BY <1>1, <1>4, <1>11, CommitIs
    <2> HIDE DEF Live, RowOf
    <2> QED BY <1>1, <1>9, <1>11, <2>1, <2>2, <2>3 DEF CommitsAreSound
  <1> QED BY <1>12, <1>14, <1>15, <1>16, <1>17, <1>18, <1>19 DEF CampaignCore

LEMMA RefuseKeepsInv ==
  ASSUME CampaignCore, Refuse
  PROVE  CampaignCore'
  <1>1. /\ commit # NoCommit /\ commit' = NoCommit
        /\ UNCHANGED <<checkpoint, job, proc, container, label, cmd, canonical, staging, pending>>
    BY DEF Refuse, docker, outputs
  <1>2. CASE commit.by \notin Lanes
    <2>1. ctl' = [Down EXCEPT !.outcome = "refused"] /\ UNCHANGED lane
      BY <1>2 DEF Refuse
    <2>2. ctl' \in ControllerType /\ ctl'.phase = "down" /\ ctl'.outcome = "refused"
      BY <2>1, DownIs
    <2>3. ctl.phase # "run"
      BY <1>1, <1>2, CommitIs
    <2>4. RestingStep
      BY <1>1, <2>1, <2>2, <2>3, RestIs DEF RestingStep
    <2> QED BY <1>1, <2>2, <2>4, DownKeepsInv
  <1>3. CASE commit.by \in Lanes
    <2>1. PICK l \in Lanes : commit.by = l
      BY <1>3
    <2>2. /\ Fails(l) /\ UNCHANGED todo
      BY <1>3, <2>1 DEF Refuse, Fails
    <2>3. ctl.phase = "run" /\ lane[l].at = "commit"
      BY <1>1, <1>3, <2>1, CommitIs
    <2>4. EndedLane \in LaneType
      BY RowsAre DEF EndedLane, LaneType
    <2>5. lane' \in [Lanes -> LaneType] /\ lane'[l] = EndedLane /\ \A m \in Lanes \ {l} : lane'[m] = lane[m]
      BY <2>2, <2>4, LaneIs DEF Fails
    <2>6. /\ ctl' \in ControllerType /\ ctl'.phase = ctl.phase /\ ctl'.outcome = ctl.outcome
                 /\ ctl'.opened = ctl.opened
          /\ ctl'.stop
      BY <2>2, LaneIs DEF Fails, ControllerType
    <2>7. \A u \in Tasks : RowOf(u)' = RowOf(u)
      BY <1>1 DEF RowOf
    <2>8. CoroutineFrame(l)
      BY <1>1, <2>3, <2>5, <2>6, <2>7 DEF CoroutineFrame
    <2>9. CampaignShape'
      <3>1. CampaignTypeOK /\ ctl'.phase \in {"down", "stop", "close", "commit", "run", "cleanup"}
        BY <2>3, <2>6 DEF CampaignCore, CampaignShape
      <3> QED BY <1>1, <2>5, <2>6, <3>1 DEF CampaignShape, CampaignTypeOK, LaneType
    <2>10. HoldsTask(l)' /\ KeepsWorld(l)' /\ IsEnlisted(l)'
      BY <2>5, PlacesAre DEF EndedLane, HoldsTask, KeepsWorld, IsEnlisted, TaskPlaces, AttemptPlaces,
         BuildingPlaces,
         InWorldPlaces, EnlistedPlaces
    <2>11. lane'[l].at \notin TaskPlaces
      BY <2>5, PlacesAre DEF EndedLane
    <2>12. /\ PhasesAreKept' /\ TasksAreHeld' /\ WorldsAreRegistered' /\ LanesKeepTheirWorld'
           /\ AttemptsAreEnlisted' /\ ClosedByPhases'
      <3>1. \A v \in Worlds : Closed(v)' = Closed(v) /\ Kept(v)' = Kept(v)
        BY <1>1 DEF Closed, Kept
      <3>2. \A v \in Worlds : v = lane[l].world /\ ~Closed(v)' => v \in checkpoint'.worlds /\ Kept(v)'
                /\ v \in ctl'.opened
        BY <1>1, <2>3, <2>6, <3>1 DEF CampaignCore, WorldsAreRegistered
      <3> QED BY <2>8, <2>10, <2>11, <3>2, CoroutineKeeps
    <2>13. LiveAreKnown'
      <3>1. \A u \in Tasks, b \in Attempts : Live(u, b)' => Live(u, b) /\ HasRecord(u, b)'
        BY <1>1 DEF Live, HasRecord, CampaignCore, LiveAreKnown
      <3>2. lane[l].at \notin {"note", "wait"}
        BY <2>3
      <3> QED BY <2>8, <3>1, <3>2, LiveStay
    <2>14. RowsAreNext'
      BY <1>1, <2>7 DEF CampaignCore, RowsAreNext
    <2>15. CommitsAreSound'
      BY <1>1, <2>3, <2>6, QuietCommits
    <2> QED BY <2>9, <2>12, <2>13, <2>14, <2>15 DEF CampaignCore
  <1> QED BY <1>2, <1>3

\* What the checkpoint says once the attempt is counted.
LEMMA CountedIs ==
  ASSUME CampaignCore, NEW t \in Tasks, NEW a \in Attempts, NEW raw \in Raw,
         checkpoint.results[t] = 0, a = checkpoint.attempts[t] + 1
  PROVE  /\ Counted(t, a, raw) \in [results : [Tasks -> 0..Last], attempts : [Tasks -> 0..Last],
                                    inflight : [Tasks -> Row \cup {NoRow}], worlds : SUBSET Worlds]
         /\ Counted(t, a, raw).worlds = checkpoint.worlds
         /\ Counted(t, a, raw).results[t] = IF raw = "good" THEN a ELSE 0
         /\ Counted(t, a, raw).attempts[t] = a /\ Counted(t, a, raw).inflight[t] = NoRow
         /\ \A u \in Tasks : u # t =>
              /\ Counted(t, a, raw).results[u] = checkpoint.results[u]
              /\ Counted(t, a, raw).attempts[u] = checkpoint.attempts[u]
              /\ Counted(t, a, raw).inflight[u] = checkpoint.inflight[u]
  <1>1. /\ checkpoint \in [results : [Tasks -> 0..Last], attempts : [Tasks -> 0..Last],
                           inflight : [Tasks -> Row \cup {NoRow}], worlds : SUBSET Worlds]
    BY DEF CampaignCore, CampaignShape, CampaignTypeOK
  <1> DEFINE r == [checkpoint.results EXCEPT ![t] = IF raw = "good" THEN a ELSE 0]
             n == [checkpoint.attempts EXCEPT ![t] = a]
             f == [checkpoint.inflight EXCEPT ![t] = NoRow]
  <1>2. Counted(t, a, raw) = [checkpoint EXCEPT !.results = r, !.attempts = n, !.inflight = f]
    BY <1>1 DEF Counted
  <1>3. /\ r \in [Tasks -> 0..Last] /\ n \in [Tasks -> 0..Last] /\ f \in [Tasks -> Row \cup {NoRow}]
        /\ r[t] = (IF raw = "good" THEN a ELSE 0) /\ n[t] = a /\ f[t] = NoRow
        /\ \A u \in Tasks : u # t => /\ r[u] = checkpoint.results[u] /\ n[u] = checkpoint.attempts[u]
                                     /\ f[u] = checkpoint.inflight[u]
    BY <1>1, RowsAre
  <1> HIDE DEF r, n, f
  <1> DEFINE c == [checkpoint EXCEPT !.results = r, !.attempts = n, !.inflight = f]
  <1>4. /\ c \in [results : [Tasks -> 0..Last], attempts : [Tasks -> 0..Last],
                  inflight : [Tasks -> Row \cup {NoRow}], worlds : SUBSET Worlds]
        /\ c.results = r /\ c.attempts = n /\ c.inflight = f /\ c.worlds = checkpoint.worlds
    BY <1>1, <1>3
  <1> HIDE DEF c
  <1>5. Counted(t, a, raw) = c
    BY <1>2 DEF c
  <1> QED BY <1>3, <1>4, <1>5

LEMMA RecordKeepsInv ==
  ASSUME CampaignCore, Record
  PROVE  CampaignCore'
  <1>1. /\ commit # NoCommit /\ commit.at = "record" /\ commit' = NoCommit
        /\ checkpoint' = Counted(commit.task, commit.attempt, commit.raw)
        /\ ctl' = [ctl EXCEPT !.stop = @ \/ commit.raw = "pause"]
        /\ UNCHANGED <<job, proc, container, label, cmd, canonical, staging, pending>>
    BY DEF Record, docker, outputs
  <1>2. PICK t \in Tasks, a \in Attempts, raw \in Raw :
          /\ commit.task = t /\ commit.attempt = a /\ commit.raw = raw
          /\ checkpoint.results[t] = 0 /\ a = checkpoint.attempts[t] + 1
          /\ \A b \in Attempts : ~Live(t, b)
          /\ (job[t][a].result = "good" /\ ~job[t][a].timedOut => raw = "good")
          /\ (raw = "good" => canonical[t] = a)
    <2>1. commit.task \in Tasks /\ commit.attempt \in Attempts /\ commit.raw \in Raw
      BY <1>1, CommitIs DEF CommitType
    <2>2. CommitsAreSound
      BY DEF CampaignCore
    <2> QED BY <1>1, <2>1, <2>2 DEF CommitsAreSound
  <1>3. /\ checkpoint' \in [results : [Tasks -> 0..Last], attempts : [Tasks -> 0..Last],
                            inflight : [Tasks -> Row \cup {NoRow}], worlds : SUBSET Worlds]
        /\ checkpoint'.worlds = checkpoint.worlds
        /\ checkpoint'.results[t] = (IF raw = "good" THEN a ELSE 0) /\ checkpoint'.attempts[t] = a
        /\ \A u \in Tasks : u # t =>
             /\ checkpoint'.results[u] = checkpoint.results[u]
                    /\ checkpoint'.attempts[u] = checkpoint.attempts[u]
             /\ RowOf(u)' = RowOf(u)
        /\ RowOf(t)' = NoRow
    <2>1. checkpoint' = Counted(t, a, raw)
      BY <1>1, <1>2
    <2> HIDE DEF Counted
    <2> QED BY <1>2, <2>1, CountedIs DEF RowOf
  <1>4. /\ ctl \in ControllerType /\ ctl.phase \in {"run", "commit"} /\ ctl.outcome = None
        /\ ctl' \in ControllerType /\ ctl'.phase = ctl.phase /\ ctl'.outcome = None /\ ctl'.opened = ctl.opened
        /\ (ctl.stop => ctl'.stop) /\ (raw = "pause" => ctl'.stop)
    <2>1. /\ ctl \in ControllerType /\ ctl.phase \in {"run", "commit"} /\ ctl.outcome = None
      BY <1>1, CommitIs DEF CampaignCore, CampaignShape
    <2> QED BY <1>1, <1>2, <2>1 DEF ControllerType
  <1>5. \A u \in Tasks, b \in Attempts :
          /\ HasRecord(u, b)' = HasRecord(u, b) /\ Live(u, b)' = Live(u, b)
          /\ Live(u, b) => u # t /\ HasRecord(u, b)
    BY <1>1, <1>2 DEF HasRecord, Live, CampaignCore, LiveAreKnown
  <1>6. RowsAreNext'
    <2>1. RowsAreNext /\ checkpoint.attempts[t] \in Nat /\ a \in Nat
      BY RowsAre DEF CampaignCore, CampaignShape, CampaignTypeOK
    <2>2. \A u \in Tasks : RowOf(u)' # NoRow => checkpoint'.results[u] = 0
              /\ RowOf(u)'.attempt = checkpoint'.attempts[u] + 1
      BY <1>3, <2>1 DEF RowsAreNext
    <2>3. ASSUME NEW u \in Tasks, NEW b \in Attempts, b > checkpoint'.attempts[u], job'[u][b].record # None
          PROVE  RowOf(u)' # NoRow /\ RowOf(u)'.attempt = b
      <3>1. CASE u # t
        BY <1>1, <1>3, <2>1, <2>3, <3>1 DEF RowsAreNext
      <3>2. CASE u = t
        <4>1. b > a /\ b > checkpoint.attempts[t] /\ job[t][b].record # None
          BY <1>1, <1>2, <1>3, <2>1, <2>3, <3>2, RowsAre
        <4>2. RowOf(t) # NoRow /\ RowOf(t).attempt = b
          BY <2>1, <4>1 DEF RowsAreNext
        <4>3. RowOf(t).attempt = a
          BY <1>2, <2>1, <4>2 DEF RowsAreNext
        <4> QED BY <2>1, <4>1, <4>2, <4>3, RowsAre
      <3> QED BY <3>1, <3>2
    <2>4. ASSUME NEW u \in Tasks, NEW b \in Attempts, b <= checkpoint'.attempts[u], job'[u][b].result = "good",
                 ~job'[u][b].timedOut
          PROVE  checkpoint'.results[u] # 0 /\ b = checkpoint'.attempts[u]
      <3>1. CASE u # t
        BY <1>1, <1>3, <2>1, <2>4, <3>1 DEF RowsAreNext
      <3>2. CASE u = t /\ b = a
        BY <1>1, <1>2, <1>3, <2>4, <3>2, RowsAre
      <3>3. CASE u = t /\ b # a
        <4>1. b <= checkpoint.attempts[t]
          BY <1>2, <1>3, <2>1, <2>4, <3>3, RowsAre
        <4> QED BY <1>1, <1>2, <2>1, <2>4, <3>3, <4>1 DEF RowsAreNext
      <3> QED BY <3>1, <3>2, <3>3
    <2>5. \A u \in Tasks : checkpoint'.results[u] # 0 => canonical'[u] = checkpoint'.results[u]
      BY <1>1, <1>2, <1>3, <2>1 DEF RowsAreNext
    <2> QED BY <2>2, <2>3, <2>4, <2>5 DEF RowsAreNext
  <1>7. WorldsAreRegistered' /\ ClosedByPhases'
    <2>1. \A w \in Worlds : Closed(w)' = Closed(w) /\ Kept(w)' = Kept(w)
      BY <1>1 DEF Closed, Kept
    <2>2. WorldsAreRegistered'
      BY <1>3, <1>4, <2>1 DEF CampaignCore, WorldsAreRegistered
    <2>3. ClosedByPhases'
      BY <1>4, <2>1 DEF CampaignCore, ClosedByPhases, None
    <2> QED BY <2>2, <2>3
  <1>8. /\ LiveKeepTheirWorld'
        /\ \A u \in Tasks, b \in Attempts : Live(u, b)' => HasRecord(u, b)' /\ (cmd[RowOf(u).world] = None)'
    <2>1. LiveAreKnown
      BY DEF CampaignCore
    <2>2. LiveKeepTheirWorld'
      BY <1>1, <1>3, <1>5, <2>1 DEF LiveAreKnown, LiveKeepTheirWorld
    <2>3. \A u \in Tasks, b \in Attempts : Live(u, b)' => HasRecord(u, b)' /\ (cmd[RowOf(u).world] = None)'
      BY <1>1, <1>3, <1>5, <2>1 DEF LiveAreKnown
    <2> QED BY <2>2, <2>3
  <1>9. CASE commit.by \notin Lanes
    <2>1. UNCHANGED lane /\ todo' = todo \ {t} /\ ctl.phase = "commit"
      BY <1>1, <1>2, <1>4, <1>9, CommitIs DEF Record
    <2>2. \A l \in Lanes : lane'[l] = EndedLane
      BY <2>1, RestIs
    <2>3. \A u \in pending' : checkpoint'.results[u] = 0
      BY <1>1, <2>1, RestIs
    <2>4. TasksAreHeld' /\ LanesKeepTheirWorld' /\ AttemptsAreEnlisted'
      BY <2>2, <2>3, EndedLanesKeep
    <2>5. PhasesAreKept'
      BY <1>1, <1>4, <2>1 DEF CampaignCore, PhasesAreKept
    <2>6. CampaignShape'
      <3>1. CampaignShape
        BY DEF CampaignCore
      <3> QED BY <1>1, <1>3, <1>4, <2>1, <3>1 DEF CampaignShape, CampaignTypeOK
    <2>7. CommitsAreSound'
      <3>1. \A u \in todo : u \in Tasks /\ RowOf(u) # NoRow
        BY <2>1 DEF CampaignCore, CommitsAreSound
      <3>2. \A u \in todo' : u \in Tasks /\ RowOf(u)' # NoRow
        BY <1>3, <2>1, <3>1
      <3> QED BY <1>1, <3>2 DEF CommitsAreSound
    <2>8. LiveAreKnown'
      <3>1. \A u \in Tasks, b \in Attempts : ~Live(u, b)'
        BY <1>5, <2>1 DEF CampaignCore, LiveAreKnown
      <3> QED BY <3>1, NoneLive
    <2> QED BY <1>6, <1>7, <2>4, <2>5, <2>6, <2>7, <2>8 DEF CampaignCore
  <1>10. CASE commit.by \in Lanes
    <2>1. PICK l \in Lanes : commit.by = l
      BY <1>10
    <2>2. /\ ctl.phase = "run" /\ lane[l].at = "commit" /\ lane[l].task = t
          /\ lane' = [lane EXCEPT ![l] = IF raw = "bad" THEN [@ EXCEPT !.at = "again"] ELSE Idle(@.world)]
          /\ UNCHANGED todo
      BY <1>1, <1>2, <1>4, <1>10, <2>1, CommitIs DEF Record
    <2>3. /\ lane \in [Lanes -> LaneType] /\ lane[l] \in LaneType /\ HoldsTask(l) /\ KeepsWorld(l)
          /\ lane[l].at \in InWorldPlaces /\ lane[l].at \in AttemptPlaces /\ lane[l].at \in TaskPlaces
          /\ \A m \in Lanes \ {l} : lane[m].at \in TaskPlaces => lane[m].task # t
      <3>1. lane[l].at \in InWorldPlaces
        BY <2>2 DEF InWorldPlaces
      <3> QED BY <2>2, <3>1, LaneIs, PlacesAre
    <2>4. /\ lane[l].world \in Worlds /\ lane[l].world \in WorldsOf(l) /\ lane[l].world # NoWorld
          /\ container[lane[l].world] = "running" /\ cmd[lane[l].world] = None
          /\ \A w \in WorldsOf(l) : w # lane[l].world => Closed(w)
          /\ lane[l].attempt = a /\ t \notin pending
      BY <1>2, <2>2, <2>3, WorldsAre DEF KeepsWorld, HoldsTask
    <2> DEFINE x == IF raw = "bad" THEN [lane[l] EXCEPT !.at = "again"] ELSE Idle(lane[l].world)
    <2>5. /\ x \in LaneType /\ x.world = lane[l].world
          /\ raw = "bad" => x.at = "again" /\ x.task = t /\ x.attempt = a
          /\ raw # "bad" => x.at = "idle" /\ x.task = None
      <3>1. CASE raw = "bad"
        BY <2>2, <2>3, <2>4, <3>1 DEF LaneType
      <3>2. CASE raw # "bad"
        BY <2>4, <3>2, IdleIs
      <3> QED BY <3>1, <3>2
    <2>6. lane' = [lane EXCEPT ![l] = x]
      BY <2>2, <2>3
    <2> HIDE DEF x
    <2>7. lane' \in [Lanes -> LaneType] /\ lane'[l] = x /\ \A m \in Lanes \ {l} : lane'[m] = lane[m]
      BY <2>3, <2>5, <2>6
    <2>8. \A w : Closed(w)' = Closed(w)
      BY <1>1 DEF Closed
    <2>9. "again" \in TaskPlaces \ (AttemptPlaces \cup BuildingPlaces \cup InWorldPlaces \cup EnlistedPlaces)
          /\ "idle" \notin TaskPlaces \cup BuildingPlaces \cup InWorldPlaces \cup EnlistedPlaces
      BY DEF TaskPlaces, AttemptPlaces, BuildingPlaces, InWorldPlaces, EnlistedPlaces
    <2>10. HoldsTask(l)'
      <3>1. raw = "bad" => checkpoint'.results[t] = 0 /\ checkpoint'.attempts[t] = a /\ t \in Tasks \ pending'
        BY <1>1, <1>3, <2>4
      <3>2. CASE raw = "bad"
        BY <2>5, <2>7, <2>9, <3>1, <3>2 DEF HoldsTask
      <3>3. CASE raw # "bad"
        BY <2>5, <2>7, <2>9, <3>3 DEF HoldsTask
      <3> QED BY <3>2, <3>3
    <2>11. KeepsWorld(l)'
      <3>1. \A w \in WorldsOf(l) : w # lane'[l].world => Closed(w)'
        BY <2>4, <2>5, <2>7, <2>8
      <3>2. container'[lane'[l].world] = "running" /\ cmd'[lane'[l].world] = None
        BY <1>1, <2>4, <2>5, <2>7
      <3>3. lane'[l].at \in {"again", "idle"} /\ lane'[l].world \in WorldsOf(l) /\ lane'[l].world # NoWorld
        BY <2>4, <2>5, <2>7
      <3> QED BY <2>9, <3>1, <3>2, <3>3 DEF KeepsWorld
    <2>12. IsEnlisted(l)'
      BY <2>5, <2>7, <2>9 DEF IsEnlisted
    <2>13. \A m \in Lanes \ {l} : HoldsTask(m)' /\ KeepsWorld(m)' /\ IsEnlisted(m)'
      <3> SUFFICES ASSUME NEW m \in Lanes \ {l} PROVE HoldsTask(m)' /\ KeepsWorld(m)' /\ IsEnlisted(m)'
        OBVIOUS
      <3>1. lane'[m] = lane[m] /\ HoldsTask(m) /\ KeepsWorld(m) /\ IsEnlisted(m)
        BY <2>7, LaneIs
      <3>2. lane[m].at \in TaskPlaces =>
              /\ lane[m].task \in Tasks /\ lane[m].task # t
              /\ checkpoint'.results[lane[m].task] = checkpoint.results[lane[m].task]
              /\ checkpoint'.attempts[lane[m].task] = checkpoint.attempts[lane[m].task]
              /\ checkpoint'.inflight[lane[m].task] = checkpoint.inflight[lane[m].task]
        BY <1>3, <2>3, <3>1 DEF HoldsTask, RowOf
      <3>3. HoldsTask(m)'
        BY <1>1, <3>1, <3>2 DEF HoldsTask
      <3>4. KeepsWorld(m)'
        <4>1. ~ctl'.stop => ~ctl.stop
          BY <1>4
        <4>2. checkpoint'.worlds = checkpoint.worlds /\ ctl'.opened = ctl.opened
          BY <1>3, <1>4
        <4> QED BY <1>1, <3>1, <4>1, <4>2 DEF KeepsWorld, Closed
      <3>5. IsEnlisted(m)'
        BY <1>1, <3>1, <3>2, PlacesAre DEF IsEnlisted, HasRecord, RowOf
      <3> QED BY <3>3, <3>4, <3>5
    <2>14. LanesKeepTheirWorld' /\ AttemptsAreEnlisted'
      BY <2>10, <2>11, <2>12, <2>13 DEF LanesKeepTheirWorld, AttemptsAreEnlisted
    <2>15. TasksAreHeld'
      <3>1. \A m \in Lanes : HoldsTask(m)'
        BY <2>10, <2>13
      <3>2. \A u \in pending' : checkpoint'.results[u] = 0
        BY <1>1, <1>3, <2>4 DEF CampaignCore, TasksAreHeld, CampaignShape, CampaignTypeOK
      <3>3. ASSUME NEW k \in Lanes, NEW m \in Lanes, k # m, lane'[k].at \in TaskPlaces, lane'[m].at \in TaskPlaces
            PROVE  lane'[k].task # lane'[m].task
        <4>1. lane'[l].at \in TaskPlaces => lane'[l].task = t
          BY <2>5, <2>7, <2>9
        <4>2. CASE k = l
          BY <2>3, <2>7, <3>3, <4>1, <4>2
        <4>3. CASE m = l
          BY <2>3, <2>7, <3>3, <4>1, <4>3
        <4>4. CASE k # l /\ m # l
          BY <2>7, <3>3, <4>4 DEF CampaignCore, TasksAreHeld
        <4> QED BY <4>2, <4>3, <4>4
      <3> QED BY <3>1, <3>2, <3>3 DEF TasksAreHeld
    <2>16. PhasesAreKept'
      BY <1>4, <2>2 DEF PhasesAreKept
    <2>17. CampaignShape'
      <3>1. CampaignShape
        BY DEF CampaignCore
      <3>2. ctl'.phase \in {"down", "stop", "close", "commit", "run", "cleanup"}
        BY <1>4
      <3> QED BY <1>1, <1>3, <1>4, <2>7, <3>1, <3>2 DEF CampaignShape, CampaignTypeOK, LaneType
    <2>18. CommitsAreSound'
      BY <1>1, <1>4, <2>2, QuietCommits
    <2>19. LiveAreKnown'
      <3>1. \A u \in Tasks, b \in Attempts : Live(u, b)' =>
              \E m \in Lanes : lane'[m].at \in {"note", "wait"} /\ lane'[m].task = u /\ lane'[m].attempt = b
        <4> SUFFICES ASSUME NEW u \in Tasks, NEW b \in Attempts, Live(u, b)
                     PROVE  \E m \in Lanes : lane'[m].at \in {"note", "wait"} /\ lane'[m].task = u
                                /\ lane'[m].attempt = b
          BY <1>5
        <4>1. PICK m \in Lanes : lane[m].at \in {"note", "wait"} /\ lane[m].task = u /\ lane[m].attempt = b
          BY <2>2, LiveIs
        <4>2. m # l
          BY <2>2, <4>1
        <4> QED BY <2>7, <4>1, <4>2
      <3>2. ctl'.phase = "run" /\ ctl'.outcome # "complete"
        BY <1>4, <2>2 DEF None
      <3> HIDE DEF Live, HasRecord
      <3> QED BY <1>8, <3>1, <3>2 DEF LiveAreKnown
    <2> QED BY <1>6, <1>7, <2>14, <2>15, <2>16, <2>17, <2>18, <2>19 DEF CampaignCore
  <1> QED BY <1>9, <1>10

-------------------------------------------------------------------------------
(* Campaign: workers that were given up.                                      *)

LEMMA WorkersTyped ==
  ASSUME CampaignCore
  PROVE  /\ proc \in [Tasks -> [Attempts -> ProcType]] /\ job \in [Tasks -> [Attempts -> JobType]]
         /\ lane \in [Lanes -> LaneType]
  BY DEF CampaignCore, CampaignShape, CampaignTypeOK, ProcType, JobType, LaneType

\* While the coroutines run: the one that gave a worker up is over and leaves its world to it.
LEMMA AdriftInRun ==
  ASSUME CampaignInv, CampaignCore', ctl.phase = "run", ctl'.phase = "run",
         ctl.errors => ctl'.errors, pending' \subseteq pending,
         \A m \in Lanes : lane[m].at = "ended" => lane'[m].at = "ended",
         \A m \in Lanes : lane'[m].at \in TaskPlaces =>
            lane'[m].task \in pending \/ (lane[m].at \in TaskPlaces /\ lane'[m].task = lane[m].task),
         \A t \in Tasks, a \in Attempts : Adrift(t, a)' => Adrift(t, a) /\ HasRecord(t, a)'
             /\ RowOf(t)' = RowOf(t)
  PROVE  AdriftAreKnown'
  <1> SUFFICES ASSUME NEW t \in Tasks, NEW a \in Attempts, Adrift(t, a)'
               PROVE  /\ HasRecord(t, a)' /\ RowOf(t)' # NoRow /\ RowOf(t)'.attempt = a
                      /\ \A u \in Tasks \ {t} : (\E b \in Attempts : AtWork(u, b)')
                             => RowOf(u)'.world # RowOf(t)'.world
                      /\ LeftAlone(t)' /\ Pursued(t)'
    BY DEF AdriftAreKnown
  <1>1. Adrift(t, a) /\ HasRecord(t, a)' /\ RowOf(t)' = RowOf(t)
    OBVIOUS
  <1>2. /\ RowOf(t) # NoRow /\ RowOf(t).attempt = a /\ LeftAlone(t)
        /\ \A u \in Tasks \ {t} : (\E b \in Attempts : AtWork(u, b)) => RowOf(u).world # RowOf(t).world
    BY <1>1 DEF CampaignInv, AdriftAreKnown
  <1>3. PICK m \in Lanes : lane[m].at = "ended" /\ RowOf(t).world \in WorldsOf(m)
    BY <1>2 DEF LeftAlone
  <1>4. lane'[m].at = "ended" /\ RowOf(t)'.world \in WorldsOf(m)
    BY <1>1, <1>3
  <1>5. LeftAlone(t)'
    BY <1>2, <1>4 DEF LeftAlone
  <1>6. Pursued(t)'
    BY DEF CampaignCore, PhasesAreKept, Pursued, None
  <1>7. ASSUME NEW u \in Tasks \ {t}, NEW b \in Attempts, AtWork(u, b)'
        PROVE  RowOf(u)'.world # RowOf(t)'.world
    <2>1. CASE Adrift(u, b)'
      <3>1. Adrift(u, b) /\ RowOf(u)' = RowOf(u)
        BY <2>1
      <3> QED BY <1>1, <1>2, <3>1 DEF AtWork
    <2>2. CASE Live(u, b)'
      <3>1. PICK k \in Lanes : lane'[k].at \in {"note", "wait"} /\ lane'[k].task = u /\ lane'[k].attempt = b
        BY <2>2 DEF CampaignCore, LiveAreKnown
      <3>2. lane'[k].at \in EnlistedPlaces /\ lane'[k].at \in TaskPlaces /\ k # m
        BY <1>4, <3>1, PlacesAre
      <3>3. RowOf(u)' = [attempt |-> b, world |-> lane'[k].world]
        BY <3>1, <3>2 DEF CampaignCore, AttemptsAreEnlisted, IsEnlisted, RowOf
      <3>4. lane'[k].world \in WorldsOf(k)
        BY <3>2 DEF CampaignCore, LanesKeepTheirWorld, KeepsWorld
      <3> QED BY <1>4, <3>2, <3>3, <3>4, WorldsAre
    <2> QED BY <1>7, <2>1, <2>2 DEF AtWork
  <1> QED BY <1>1, <1>2, <1>5, <1>6, <1>7

\* Nobody gives a worker up, and the rows stay.
LEMMA AdriftStay ==
  ASSUME CampaignInv, \A t \in Tasks : RowOf(t)' = RowOf(t),
         \A t \in Tasks, a \in Attempts : AtWork(t, a)' => AtWork(t, a),
         \A t \in Tasks, a \in Attempts : Adrift(t, a)' => Adrift(t, a) /\ HasRecord(t, a)',
         \A t \in Tasks, a \in Attempts : Adrift(t, a)' => (ctl'.phase = "run" => LeftAlone(t)') /\ Pursued(t)'
  PROVE  AdriftAreKnown'
  <1> SUFFICES ASSUME NEW t \in Tasks, NEW a \in Attempts, Adrift(t, a)'
               PROVE  /\ HasRecord(t, a)' /\ RowOf(t)' # NoRow /\ RowOf(t)'.attempt = a
                      /\ \A u \in Tasks \ {t} : (\E b \in Attempts : AtWork(u, b)')
                             => RowOf(u)'.world # RowOf(t)'.world
                      /\ (ctl'.phase = "run" => LeftAlone(t)') /\ Pursued(t)'
    BY DEF AdriftAreKnown
  <1>1. Adrift(t, a) /\ HasRecord(t, a)' /\ (ctl'.phase = "run" => LeftAlone(t)') /\ Pursued(t)'
    OBVIOUS
  <1>2. /\ RowOf(t) # NoRow /\ RowOf(t).attempt = a
        /\ \A u \in Tasks \ {t} : (\E b \in Attempts : AtWork(u, b)) => RowOf(u).world # RowOf(t).world
    BY <1>1 DEF CampaignInv, AdriftAreKnown
  <1> HIDE DEF CampaignInv
  <1> QED BY <1>1, <1>2

LEMMA NoneAdrift ==
  ASSUME CampaignInv, UNCHANGED proc, ctl.phase \in {"close", "commit"} \/ (ctl.phase = "stop" /\ todo = {})
  PROVE  AdriftAreKnown'
  <1>1. \A t \in Tasks, a \in Attempts : ~Adrift(t, a)
    BY DEF CampaignInv, AdriftAreKnown, Pursued
  <1>2. \A t \in Tasks, a \in Attempts : ~Adrift(t, a)'
    BY <1>1 DEF Adrift
  <1> QED BY <1>2 DEF AdriftAreKnown

\* The controller does nothing that would matter to them.
LEMMA AdriftUnnoticed ==
  ASSUME CampaignInv, UNCHANGED <<checkpoint, lane, pending, todo>>,
         ctl'.phase = ctl.phase, ctl'.errors = ctl.errors, ctl'.outcome = ctl.outcome,
         \A t \in Tasks, a \in Attempts : AtWork(t, a)' => AtWork(t, a),
         \A t \in Tasks, a \in Attempts : Adrift(t, a)' => Adrift(t, a),
         \A t \in Tasks, a \in Attempts : HasRecord(t, a)' = HasRecord(t, a)
  PROVE  AdriftAreKnown'
  <1>1. \A t \in Tasks : RowOf(t)' = RowOf(t)
    BY DEF RowOf
  <1>2. ASSUME NEW t \in Tasks, NEW a \in Attempts, Adrift(t, a)'
        PROVE  HasRecord(t, a)' /\ (ctl'.phase = "run" => LeftAlone(t)') /\ Pursued(t)'
    <2>1. Adrift(t, a)
      BY <1>2
    <2>2. HasRecord(t, a) /\ (ctl.phase = "run" => LeftAlone(t)) /\ Pursued(t)
      BY <2>1 DEF CampaignInv, AdriftAreKnown
    <2>3. ctl'.phase = "run" => LeftAlone(t)'
      BY <1>1, <2>2 DEF LeftAlone
    <2>4. Pursued(t)'
      BY <2>2 DEF Pursued
    <2> QED BY <2>2, <2>3, <2>4
  <1> QED BY <1>1, <1>2, AdriftStay

\* The controller stops, is killed, or starts again: they stay as they are.
LEMMA AdriftRest ==
  ASSUME CampaignInv, UNCHANGED <<checkpoint, job, proc>>, ctl'.phase # "run",
         \A t \in Tasks, a \in Attempts : Adrift(t, a) => Pursued(t)'
  PROVE  AdriftAreKnown'
  <1>1. \A t \in Tasks : RowOf(t)' = RowOf(t)
    BY DEF RowOf
  <1>2. \A t \in Tasks, a \in Attempts : /\ AtWork(t, a)' = AtWork(t, a) /\ Adrift(t, a)' = Adrift(t, a)
                                         /\ HasRecord(t, a)' = HasRecord(t, a)
    BY DEF AtWork, Live, Adrift, HasRecord
  <1>3. \A t \in Tasks, a \in Attempts : Adrift(t, a) => HasRecord(t, a)
    BY DEF CampaignInv, AdriftAreKnown
  <1> HIDE DEF CampaignInv
  <1> QED BY <1>1, <1>2, <1>3, AdriftStay

LEMMA EnvironmentKeepsAdrift ==
  ASSUME CampaignInv, Environment
  PROVE  AdriftAreKnown'
  <1>1. ASSUME NEW t \in Tasks, NEW a \in Attempts, WriteResult(t, a)
        PROVE  AdriftAreKnown'
    <2>1. UNCHANGED <<checkpoint, proc, ctl, lane, pending, todo>>
      BY <1>1 DEF WriteResult, memory
    <2>2. \A u \in Tasks, b \in Attempts : HasRecord(u, b)' = HasRecord(u, b)
      <3>1. PICK raw \in Raw : job' = [job EXCEPT ![t][a].result = raw]
        BY <1>1 DEF WriteResult
      <3>2. \A u \in Tasks, b \in Attempts : job'[u][b].record = job[u][b].record
        <4> DEFINE x == [job[t][a] EXCEPT !.result = raw]
                   y == [job[t] EXCEPT ![a] = x]
        <4>1. job \in [Tasks -> [Attempts -> JobType]]
          BY WorkersTyped DEF CampaignInv
        <4>2. x.record = job[t][a].record
          BY <4>1 DEF JobType
        <4>3. job' = [job EXCEPT ![t] = y]
          BY <3>1, <4>1
        <4> HIDE DEF x
        <4>4. y[a] = x /\ \A b \in Attempts : b # a => y[b] = job[t][b]
          BY <4>1
        <4> HIDE DEF y
        <4>5. job'[t] = y /\ \A u \in Tasks : u # t => job'[u] = job[u]
          BY <4>1, <4>3
        <4> QED BY <4>2, <4>4, <4>5
      <3> QED BY <3>2 DEF HasRecord
    <2>3. \A u \in Tasks, b \in Attempts : AtWork(u, b)' = AtWork(u, b) /\ Adrift(u, b)' = Adrift(u, b)
      BY <2>1 DEF AtWork, Live, Adrift
    <2> HIDE DEF CampaignInv
    <2> QED BY <2>1, <2>2, <2>3, AdriftUnnoticed
  <1>2. ASSUME NEW t \in Tasks, NEW a \in Attempts, Exit(t, a)
        PROVE  AdriftAreKnown'
    <2>1. UNCHANGED <<checkpoint, job, ctl, lane, pending, todo>> /\ proc' = [proc EXCEPT ![t][a] = "dead"]
      BY <1>2 DEF Exit, memory
    <2>2. \A u \in Tasks, b \in Attempts : proc'[u][b] = proc[u][b] \/ proc'[u][b] = "dead"
      BY <2>1, WorkersTyped DEF CampaignInv
    <2>3. \A u \in Tasks, b \in Attempts : /\ AtWork(u, b)' => AtWork(u, b)
                                           /\ Adrift(u, b)' => Adrift(u, b)
      BY <2>2 DEF AtWork, Live, Adrift
    <2>4. \A u \in Tasks, b \in Attempts : HasRecord(u, b)' = HasRecord(u, b)
      BY <2>1 DEF HasRecord
    <2> HIDE DEF CampaignInv
    <2> QED BY <2>1, <2>3, <2>4, AdriftUnnoticed
  <1>3. ASSUME NEW w \in Worlds, Docker(w)
        PROVE  AdriftAreKnown'
    <2>1. UNCHANGED <<checkpoint, job, proc, ctl, lane, pending, todo>>
      BY <1>3 DEF Docker, memory
    <2>2. \A u \in Tasks, b \in Attempts : /\ AtWork(u, b)' = AtWork(u, b) /\ Adrift(u, b)' = Adrift(u, b)
                                           /\ HasRecord(u, b)' = HasRecord(u, b)
      BY <2>1 DEF AtWork, Live, Adrift, HasRecord
    <2> HIDE DEF CampaignInv
    <2> QED BY <2>1, <2>2, AdriftUnnoticed
  <1> QED BY <1>1, <1>2, <1>3 DEF Environment

\* What a step of coroutine l does, whatever it does to its own task.
OwnRecords(l) ==
  /\ \A t \in Tasks : t # lane[l].task => job'[t] = job[t] /\ RowOf(t)' = RowOf(t)
  /\ lane[l].at \in TaskPlaces \/ UNCHANGED <<job, checkpoint>>
  /\ \A t \in Tasks, a \in Attempts : Adrift(t, a)' => Adrift(t, a)

LaneStep(l) ==
  /\ ctl.phase = "run" /\ ctl'.phase = "run" /\ (ctl.errors => ctl'.errors) /\ pending' \subseteq pending
  /\ lane[l].at # "ended" /\ \A m \in Lanes \ {l} : lane'[m] = lane[m]
  /\ lane'[l].at \in TaskPlaces =>
       lane'[l].task \in pending \/ (lane[l].at \in TaskPlaces /\ lane'[l].task = lane[l].task)
  /\ OwnRecords(l)

LEMMA LaneStepKeepsAdrift ==
  ASSUME CampaignInv, CampaignCore', NEW l \in Lanes, LaneStep(l)
  PROVE  AdriftAreKnown'
  <1>1. \A m \in Lanes : lane[m].at = "ended" => lane'[m].at = "ended"
    BY DEF LaneStep
  <1>2. \A m \in Lanes : lane'[m].at \in TaskPlaces =>
            lane'[m].task \in pending \/ (lane[m].at \in TaskPlaces /\ lane'[m].task = lane[m].task)
    BY DEF LaneStep
  <1>3. ASSUME NEW t \in Tasks, NEW a \in Attempts, Adrift(t, a)'
        PROVE  Adrift(t, a) /\ HasRecord(t, a)' /\ RowOf(t)' = RowOf(t)
    <2>1. Adrift(t, a)
      BY <1>3 DEF LaneStep, OwnRecords
    <2>2. HasRecord(t, a) /\ LeftAlone(t)
      BY <2>1 DEF CampaignInv, AdriftAreKnown, LaneStep
    <2>3. CASE lane[l].at \in TaskPlaces
      <3>1. t # lane[l].task
        BY <2>2, <2>3 DEF LeftAlone
      <3> QED BY <2>1, <2>2, <3>1 DEF LaneStep, OwnRecords, HasRecord
    <2>4. CASE UNCHANGED <<job, checkpoint>>
      BY <2>1, <2>2, <2>4 DEF HasRecord, RowOf
    <2> QED BY <2>3, <2>4 DEF LaneStep, OwnRecords
  <1>4. /\ ctl.phase = "run" /\ ctl'.phase = "run" /\ (ctl.errors => ctl'.errors) /\ pending' \subseteq pending
    BY DEF LaneStep
  <1> HIDE DEF CampaignInv
  <1> QED BY <1>1, <1>2, <1>3, <1>4, AdriftInRun

\* The ways in which a coroutine goes on, and that in which it ends.
LEMMA GoesOn ==
  ASSUME CampaignCore, NEW l \in Lanes, NEW at, Go(l, at), ctl.phase = "run", lane[l].at \in TaskPlaces,
         ctl'.phase = ctl.phase, ctl'.errors = ctl.errors, UNCHANGED pending, OwnRecords(l)
  PROVE  LaneStep(l)
  <1>1. lane \in [Lanes -> LaneType] /\ lane[l] \in LaneType
    BY LaneIs
  <1>2. [lane[l] EXCEPT !.at = at].task = lane[l].task
    BY <1>1 DEF LaneType
  <1>3. lane' = [lane EXCEPT ![l] = [lane[l] EXCEPT !.at = at]]
    BY <1>1 DEF Go
  <1>4. lane'[l].task = lane[l].task /\ \A m \in Lanes \ {l} : lane'[m] = lane[m]
    BY <1>1, <1>2, <1>3
  <1> QED BY <1>4, PlacesAre DEF LaneStep

LEMMA GivesUp ==
  ASSUME CampaignCore, NEW l \in Lanes, Fails(l), ctl.phase = "run", lane[l].at # "ended",
         pending' \subseteq pending, OwnRecords(l)
  PROVE  LaneStep(l)
  <1>1. lane \in [Lanes -> LaneType] /\ ctl \in ControllerType
    BY LaneIs
  <1>2. lane'[l] = EndedLane /\ \A m \in Lanes \ {l} : lane'[m] = lane[m]
    BY <1>1 DEF Fails
  <1>3. ctl'.phase = ctl.phase /\ ctl'.errors
    BY <1>1 DEF Fails, ControllerType
  <1> QED BY <1>2, <1>3, PlacesAre DEF EndedLane, LaneStep

LEMMA RecordsRest ==
  ASSUME NEW l \in Lanes, UNCHANGED <<checkpoint, job, proc>>
  PROVE  OwnRecords(l)
  BY DEF OwnRecords, RowOf, Adrift

LEMMA TaskPlacesAre ==
  {"register", "open", "network", "create", "start", "probe", "undo", "enlist", "prepare", "spawn", "note",
   "wait", "commit", "again", "removed"} \subseteq TaskPlaces
  BY DEF TaskPlaces, AttemptPlaces, BuildingPlaces, InWorldPlaces

LEMMA WorldStepsKeepAdrift ==
  ASSUME CampaignCore, NEW l \in Lanes,
         \/ Register(l) \/ Open(l) \/ Build(l) \/ Ready(l) \/ GiveUpWorld(l) \/ Undo(l) \/ CloseOwn(l)
  PROVE  LaneStep(l)
  <1>1. ctl.phase = "run" /\ UNCHANGED <<job, proc, pending>> /\ checkpoint'.inflight = checkpoint.inflight
    <2>1. Register(l) => checkpoint'.inflight = checkpoint.inflight
      BY DEF Register, CampaignCore, CampaignShape, CampaignTypeOK
    <2> QED BY <2>1 DEF Register, Open, Build, Ready, GiveUpWorld, Undo, CloseOwn, Runs, Commanding
  <1>2. lane[l].at \in TaskPlaces /\ lane[l].at # "ended"
    BY TaskPlacesAre, PlacesAre DEF Register, Open, Build, Ready, GiveUpWorld, Undo, CloseOwn, Runs, Commanding
  <1>3. OwnRecords(l)
    BY <1>1, <1>2 DEF OwnRecords, RowOf, Adrift
  <1>4. CASE Fails(l)
    BY <1>1, <1>2, <1>3, <1>4, GivesUp
  <1>5. CASE UNCHANGED <<lane, ctl>>
    BY <1>1, <1>2, <1>3, <1>5 DEF LaneStep
  <1>6. ASSUME NEW at, Go(l, at), UNCHANGED ctl PROVE LaneStep(l)
    BY <1>1, <1>2, <1>3, <1>6, GoesOn
  <1>7. CASE Register(l)
    <2>1. Go(l, "open") /\ ctl' = [ctl EXCEPT !.opened = @ \cup {lane[l].world}]
      BY <1>7 DEF Register
    <2>2. ctl'.phase = ctl.phase /\ ctl'.errors = ctl.errors
      BY <2>1, LaneIs DEF ControllerType
    <2> QED BY <1>1, <1>2, <1>3, <2>1, <2>2, GoesOn
  <1>8. CASE Open(l)
    BY <1>6, <1>8 DEF Open
  <1>9. CASE Build(l)
    BY <1>6, <1>9 DEF Build
  <1>10. CASE Ready(l)
    BY <1>6, <1>10 DEF Ready
  <1>11. CASE GiveUpWorld(l)
    BY <1>6, <1>11 DEF GiveUpWorld
  <1>12. CASE Undo(l)
    BY <1>4, <1>5, <1>12 DEF Undo
  <1>13. CASE CloseOwn(l)
    BY <1>4, <1>5, <1>6, <1>13 DEF CloseOwn
  <1> QED BY <1>7, <1>8, <1>9, <1>10, <1>11, <1>12, <1>13

LEMMA TaskStepsKeepAdrift ==
  ASSUME CampaignCore, NEW l \in Lanes, Take(l) \/ LaneEnds(l) \/ TryAgain(l)
  PROVE  LaneStep(l)
  <1>1. UNCHANGED <<checkpoint, job, proc>> /\ ctl.phase = "run" /\ lane[l].at \in {"idle", "removed"}
    BY DEF Take, LaneEnds, TryAgain, Runs
  <1>2. OwnRecords(l)
    BY <1>1, RecordsRest
  <1>3. lane \in [Lanes -> LaneType] /\ lane[l] \in LaneType /\ ctl \in ControllerType
    BY LaneIs
  <1>4. CASE Fails(l) /\ pending' \subseteq pending
    BY <1>1, <1>2, <1>4, GivesUp
  <1>5. CASE Take(l)
    <2>1. PICK t \in pending :
             /\ pending' = pending \ {t}
             /\ \/ Fails(l)
                \/ /\ UNCHANGED ctl
                   /\ \E a, w, at : lane' = [lane EXCEPT ![l] = [task |-> t, attempt |-> a, at |-> at, world |-> w]]
      BY <1>5 DEF Take
    <2>2. CASE Fails(l)
      BY <1>4, <2>1, <2>2
    <2>3. CASE ~Fails(l)
      <3>1. lane'[l].task = t /\ \A m \in Lanes \ {l} : lane'[m] = lane[m]
        BY <1>3, <2>1, <2>3
      <3> QED BY <1>1, <1>2, <2>1, <2>3, <3>1 DEF LaneStep
    <2> QED BY <2>2, <2>3
  <1>6. CASE LaneEnds(l)
    <2>1. lane' = [lane EXCEPT ![l] = EndedLane] /\ UNCHANGED <<ctl, pending>>
      BY <1>6 DEF LaneEnds
    <2>2. lane'[l].at = "ended" /\ \A m \in Lanes \ {l} : lane'[m] = lane[m]
      BY <1>3, <2>1 DEF EndedLane
    <2> QED BY <1>1, <1>2, <2>1, <2>2, PlacesAre DEF LaneStep
  <1>7. CASE TryAgain(l)
    <2>1. UNCHANGED pending /\ lane[l].at = "removed" /\ lane[l].at \in TaskPlaces
      BY <1>7, TaskPlacesAre DEF TryAgain, Runs
    <2>2. CASE Fails(l)
      BY <1>4, <2>1, <2>2
    <2>3. CASE lane' = [lane EXCEPT ![l] = Idle(@.world)] /\ ctl' = [ctl EXCEPT !.stop = TRUE]
      <3>1. lane'[l] = Idle(lane[l].world) /\ \A m \in Lanes \ {l} : lane'[m] = lane[m]
        BY <1>3, <2>3
      <3>2. lane'[l].at = "idle"
        BY <3>1 DEF Idle, EndedLane
      <3>3. ctl'.phase = ctl.phase /\ ctl'.errors = ctl.errors
        BY <1>3, <2>3 DEF ControllerType
      <3> QED BY <1>1, <1>2, <2>1, <3>1, <3>2, <3>3, PlacesAre DEF LaneStep
    <2>4. CASE /\ lane' = [lane EXCEPT ![l].at = "register", ![l].attempt = @ + 1,
                                       ![l].world = Retry(l, lane[l].task)]
               /\ UNCHANGED ctl
      <3> DEFINE x == [lane[l] EXCEPT !.at = "register", !.attempt = @ + 1, !.world = Retry(l, lane[l].task)]
      <3>1. x.task = lane[l].task
        BY <1>3 DEF LaneType
      <3>2. lane' = [lane EXCEPT ![l] = x]
        BY <1>3, <2>4
      <3> HIDE DEF x
      <3>3. lane'[l].task = lane[l].task /\ \A m \in Lanes \ {l} : lane'[m] = lane[m]
        BY <1>3, <3>1, <3>2
      <3> QED BY <1>1, <1>2, <2>1, <2>4, <3>3 DEF LaneStep
    <2> QED BY <1>7, <2>2, <2>3, <2>4 DEF TryAgain
  <1> QED BY <1>5, <1>6, <1>7

\* Steps with an attempt.
LEMMA MarksOwn ==
  ASSUME CampaignCore, NEW l \in Lanes, lane[l].at \in TaskPlaces, UNCHANGED checkpoint,
         \/ UNCHANGED job
         \/ \E r : Mark(l, r)
         \/ Expired(lane[l].task, lane[l].attempt),
         \/ UNCHANGED proc
         \/ \E s \in {"live", "dead"} : proc' = [proc EXCEPT ![lane[l].task][lane[l].attempt] = s]
  PROVE  OwnRecords(l)
  <1>1. proc \in [Tasks -> [Attempts -> ProcType]] /\ job \in [Tasks -> [Attempts -> JobType]]
    BY WorkersTyped
  <1>2. \A t \in Tasks : t # lane[l].task => job'[t] = job[t] /\ RowOf(t)' = RowOf(t)
    BY <1>1 DEF Mark, Expired, RowOf
  <1>3. \A t \in Tasks, a \in Attempts : Adrift(t, a)' => Adrift(t, a)
    <2>1. \A t \in Tasks, a \in Attempts : proc'[t][a] = proc[t][a] \/ proc'[t][a] \in {"live", "dead"}
      BY <1>1
    <2> QED BY <2>1 DEF Adrift
  <1> QED BY <1>2, <1>3 DEF OwnRecords

LEMMA AttemptStepsKeepAdrift ==
  ASSUME CampaignCore, NEW l \in Lanes,
         \/ Enlist(l) \/ Prepare(l) \/ Launch(l) \/ NoteIdentity(l) \/ WorkerDone(l) \/ WorkerTimesOut(l)
         \/ WorkerInterrupted(l)
  PROVE  LaneStep(l)
  <1>1. ctl.phase = "run" /\ UNCHANGED pending
    BY DEF Enlist, Prepare, Launch, NoteIdentity, WorkerDone, WorkerTimesOut, WorkerInterrupted, Runs
  <1>2. lane[l].at \in TaskPlaces /\ lane[l].at # "ended"
    BY TaskPlacesAre, PlacesAre
       DEF Enlist, Prepare, Launch, NoteIdentity, WorkerDone, WorkerTimesOut, WorkerInterrupted, Runs
  <1>3. ASSUME OwnRecords(l), Fails(l) PROVE LaneStep(l)
    BY <1>1, <1>2, <1>3, GivesUp
  <1>4. ASSUME OwnRecords(l), NEW at, Go(l, at), UNCHANGED ctl PROVE LaneStep(l)
    BY <1>1, <1>2, <1>4, GoesOn
  <1>5. CASE Enlist(l)
    <2>1. /\ checkpoint' = [checkpoint EXCEPT !.inflight[lane[l].task] =
                              [attempt |-> lane[l].attempt, world |-> lane[l].world]]
          /\ Go(l, "prepare") /\ UNCHANGED <<job, proc, ctl>>
      BY <1>5 DEF Enlist
    <2>2. \A t \in Tasks : t # lane[l].task => RowOf(t)' = RowOf(t)
      BY <2>1 DEF RowOf, CampaignCore, CampaignShape, CampaignTypeOK
    <2>3. OwnRecords(l)
      BY <1>2, <2>1, <2>2 DEF OwnRecords, Adrift
    <2> QED BY <1>4, <2>1, <2>3
  <1>6. CASE Prepare(l)
    <2>1. Mark(l, "starting") /\ Go(l, "spawn") /\ UNCHANGED <<checkpoint, proc, ctl>>
      BY <1>6 DEF Prepare
    <2> QED BY <1>2, <1>4, <2>1, MarksOwn
  <1>7. CASE Launch(l)
    <2>1. /\ UNCHANGED <<checkpoint, job>>
          /\ \/ /\ proc' = [proc EXCEPT ![lane[l].task][lane[l].attempt] = "live"]
                /\ Go(l, "note") /\ UNCHANGED ctl
             \/ Fails(l) /\ UNCHANGED proc
      BY <1>7 DEF Launch
    <2>2. OwnRecords(l)
      BY <1>2, <2>1, MarksOwn
    <2> QED BY <1>3, <1>4, <2>1, <2>2
  <1>8. CASE NoteIdentity(l)
    <2>1. Mark(l, "running") /\ Go(l, "wait") /\ UNCHANGED <<checkpoint, proc, ctl>>
      BY <1>8 DEF NoteIdentity
    <2> QED BY <1>2, <1>4, <2>1, MarksOwn
  <1>9. CASE WorkerDone(l)
    <2>1. Mark(l, "finished") /\ Go(l, "commit") /\ UNCHANGED <<checkpoint, proc, ctl>>
      BY <1>9 DEF WorkerDone
    <2> QED BY <1>2, <1>4, <2>1, MarksOwn
  <1>10. CASE WorkerTimesOut(l)
    <2>1. /\ Expired(lane[l].task, lane[l].attempt) /\ Go(l, "commit") /\ UNCHANGED <<checkpoint, ctl>>
          /\ proc' = [proc EXCEPT ![lane[l].task][lane[l].attempt] = "dead"]
      BY <1>10 DEF WorkerTimesOut, Expired
    <2> QED BY <1>2, <1>4, <2>1, MarksOwn
  <1>11. CASE WorkerInterrupted(l)
    <2>1. /\ Mark(l, "finished") /\ Fails(l) /\ UNCHANGED checkpoint
          /\ proc' = [proc EXCEPT ![lane[l].task][lane[l].attempt] = "dead"]
      BY <1>11 DEF WorkerInterrupted
    <2> QED BY <1>2, <1>3, <2>1, MarksOwn
  <1> QED BY <1>5, <1>6, <1>7, <1>8, <1>9, <1>10, <1>11

LEMMA LosesWorkerKeepsAdrift ==
  ASSUME CampaignInv, CampaignCore', NEW l \in Lanes, LosesWorker(l)
  PROVE  AdriftAreKnown'
  <1>1. CampaignCore /\ AdriftAreKnown
    BY DEF CampaignInv
  <1>2. PICK t \in Tasks, a \in Attempts, w \in Worlds :
           /\ AtAttempt(l, t, a, w) /\ lane[l].at \in {"note", "wait"} /\ Fails(l)
           /\ UNCHANGED <<checkpoint, job, container, label, cmd, canonical, staging, pending, commit>>
           /\ proc' \in [Tasks -> [Attempts -> ProcType]] /\ ~Live(t, a)'
           /\ proc'[t][a] = IF Live(t, a) THEN "adrift" ELSE proc[t][a]
           /\ \A u \in Tasks : u # t => proc'[u] = proc[u]
           /\ \A b \in Attempts : b # a => proc'[t][b] = proc[t][b]
           /\ job \in [Tasks -> [Attempts -> JobType]]
    BY <1>1, LosesWorkerIs
  <1>3. lane \in [Lanes -> LaneType] /\ ctl \in ControllerType /\ HoldsTask(l) /\ KeepsWorld(l) /\ IsEnlisted(l)
        /\ \A m \in Lanes \ {l} : lane[m].at \in TaskPlaces => lane[m].task # t
    <2>1. lane[l].at \in TaskPlaces /\ lane[l].task = t
      BY <1>2, TaskPlacesAre DEF AtAttempt
    <2> QED BY <1>1, <2>1, LaneIs
  <1>4. /\ ctl.phase = "run" /\ ctl'.phase = "run" /\ ctl'.errors /\ ctl'.outcome # "complete"
        /\ lane'[l] = EndedLane /\ \A m \in Lanes \ {l} : lane'[m] = lane[m]
    <2>1. ctl.phase = "run"
      BY <1>2 DEF AtAttempt
    <2>2. ctl.outcome # "complete"
      BY <1>1, <2>1 DEF CampaignCore, PhasesAreKept, None
    <2> QED BY <1>2, <1>3, <2>1, <2>2 DEF Fails, ControllerType
  <1>5. /\ lane[l].task = t /\ lane[l].attempt = a /\ lane[l].world = w /\ lane[l].at \in TaskPlaces
        /\ lane[l].at \in EnlistedPlaces /\ w \in WorldsOf(l) /\ t \notin pending /\ HasRecord(t, a)
        /\ RowOf(t) # NoRow /\ RowOf(t) = [attempt |-> a, world |-> w]
    BY <1>2, <1>3, TaskPlacesAre, WorldsAre DEF AtAttempt, KeepsWorld, HoldsTask, IsEnlisted
  <1>6. \A u \in Tasks, b \in Attempts : Adrift(u, b) => u # t
    BY <1>1, <1>4, <1>5 DEF AdriftAreKnown, LeftAlone
  <1>7. \A u \in Tasks, b \in Attempts : /\ Adrift(u, b)' => (u = t /\ b = a) \/ (u # t /\ Adrift(u, b))
                                         /\ Live(u, b)' => Live(u, b)
                                         /\ AtWork(u, b)' => AtWork(u, b)
    <2>1. \A u \in Tasks, b \in Attempts : u # t \/ b # a => proc'[u][b] = proc[u][b]
      BY <1>2
    <2>2. \A u \in Tasks, b \in Attempts : u # t \/ b # a => /\ Adrift(u, b)' = Adrift(u, b)
                                                             /\ Live(u, b)' = Live(u, b)
      BY <2>1 DEF Adrift, Live
    <2>3. AtWork(t, a)' => AtWork(t, a)
      BY <1>2 DEF AtWork, Adrift, Live
    <2> QED BY <1>2, <1>6, <2>2, <2>3 DEF AtWork
  <1>8. /\ \A u \in Tasks : RowOf(u)' = RowOf(u)
        /\ \A u \in Tasks, b \in Attempts : HasRecord(u, b)' = HasRecord(u, b)
    BY <1>2 DEF RowOf, HasRecord
  <1>9. EndedLane.at = "ended" /\ "ended" \notin TaskPlaces
    BY PlacesAre DEF EndedLane
  <1>10. \A u \in Tasks : Pursued(u)'
    BY <1>4 DEF Pursued
  <1>11. ASSUME NEW u \in Tasks, NEW b \in Attempts, Adrift(u, b), u # t
         PROVE  /\ HasRecord(u, b) /\ RowOf(u) # NoRow /\ RowOf(u).attempt = b /\ LeftAlone(u)' /\ LeftAlone(u)
                /\ \A v \in Tasks \ {u} : (\E c \in Attempts : AtWork(v, c)) => RowOf(v).world # RowOf(u).world
    <2>1. /\ HasRecord(u, b) /\ RowOf(u) # NoRow /\ RowOf(u).attempt = b /\ LeftAlone(u)
          /\ \A v \in Tasks \ {u} : (\E c \in Attempts : AtWork(v, c)) => RowOf(v).world # RowOf(u).world
      BY <1>1, <1>4, <1>11 DEF AdriftAreKnown
    <2>2. \A m \in Lanes : lane'[m].at \in TaskPlaces => lane'[m].task # u
      BY <1>4, <1>9, <2>1 DEF LeftAlone
    <2>3. PICK m \in Lanes : lane[m].at = "ended" /\ RowOf(u).world \in WorldsOf(m)
      BY <2>1 DEF LeftAlone
    <2>4. lane'[m].at = "ended" /\ RowOf(u)'.world \in WorldsOf(m)
      BY <1>4, <1>8, <1>9, <2>3
    <2>5. LeftAlone(u)'
      BY <1>2, <1>4, <2>1, <2>2, <2>4 DEF LeftAlone
    <2> QED BY <2>1, <2>5
  <1>12. LeftAlone(t)'
    <2>1. \A m \in Lanes : lane'[m].at \in TaskPlaces => lane'[m].task # t
      BY <1>3, <1>4, <1>9
    <2>2. lane'[l].at = "ended" /\ RowOf(t)'.world \in WorldsOf(l)
      BY <1>4, <1>5, <1>8, <1>9
    <2> QED BY <1>2, <1>4, <1>5, <2>1, <2>2 DEF LeftAlone
  <1>13. ASSUME NEW v \in Tasks \ {t}, NEW c \in Attempts, AtWork(v, c)'
         PROVE  RowOf(v).world # w
    <2>1. CASE Live(v, c)'
      <3>1. PICK k \in Lanes : /\ lane[k].at \in {"note", "wait"} /\ lane[k].task = v
                               /\ RowOf(v) = [attempt |-> c, world |-> lane[k].world]
                               /\ lane[k].world \in WorldsOf(k)
        BY <1>1, <1>4, <1>7, <2>1, LiveIs
      <3>2. k # l
        BY <1>5, <3>1
      <3> QED BY <1>5, <3>1, <3>2, WorldsAre
    <2>2. CASE Adrift(v, c)'
      <3>1. LeftAlone(v)
        BY <1>7, <1>11, <2>2
      <3>2. PICK m \in Lanes : lane[m].at = "ended" /\ RowOf(v).world \in WorldsOf(m)
        BY <3>1 DEF LeftAlone
      <3>3. m # l
        BY <1>2, <3>2
      <3> QED BY <1>5, <3>2, <3>3, WorldsAre
    <2> QED BY <1>13, <2>1, <2>2 DEF AtWork
  <1> SUFFICES ASSUME NEW u \in Tasks, NEW b \in Attempts, Adrift(u, b)'
               PROVE  /\ HasRecord(u, b)' /\ RowOf(u)' # NoRow /\ RowOf(u)'.attempt = b
                      /\ \A v \in Tasks \ {u} : (\E c \in Attempts : AtWork(v, c)')
                             => RowOf(v)'.world # RowOf(u)'.world
                      /\ LeftAlone(u)' /\ Pursued(u)'
    BY DEF AdriftAreKnown
  <1>14. CASE u = t /\ b = a
    <2>1. RowOf(t)'.world = w /\ RowOf(t)'.attempt = a
      BY <1>5, <1>8
    <2>2. \A v \in Tasks \ {t} : (\E c \in Attempts : AtWork(v, c)') => RowOf(v)'.world # w
      BY <1>8, <1>13
    <2> QED BY <1>5, <1>8, <1>10, <1>12, <1>14, <2>1, <2>2
  <1>15. CASE u # t /\ Adrift(u, b)
    BY <1>7, <1>8, <1>10, <1>11, <1>15
  <1> QED BY <1>7, <1>14, <1>15

LEMMA CoroutineKeepsAdrift ==
  ASSUME CampaignInv, CampaignCore', NEW l \in Lanes, Coroutine(l)
  PROVE  AdriftAreKnown'
  <1>1. CampaignCore
    BY DEF CampaignInv
  <1>2. LosesWorker(l) \/ LaneStep(l)
    BY <1>1, WorldStepsKeepAdrift, TaskStepsKeepAdrift, AttemptStepsKeepAdrift DEF Coroutine
  <1> HIDE DEF CampaignInv
  <1> QED BY <1>2, LosesWorkerKeepsAdrift, LaneStepKeepsAdrift

LEMMA RecoveryKeepsAdrift ==
  ASSUME CampaignInv, Start \/ Recovery
  PROVE  AdriftAreKnown'
  <1>1. CASE Start
    <2>1. ctl' = [Down EXCEPT !.phase = "stop"] /\ todo' = Inflight /\ UNCHANGED <<checkpoint, job, proc>>
      BY <1>1 DEF Start
    <2>2. ctl'.phase = "stop" /\ ctl'.outcome # "complete"
      BY <2>1 DEF Down, None
    <2>3. \A t \in Tasks, a \in Attempts : Adrift(t, a) => Pursued(t)'
      BY <2>1, <2>2 DEF CampaignInv, AdriftAreKnown, Pursued, Inflight, RowOf
    <2> QED BY <2>1, <2>2, <2>3, AdriftRest
  <1>2. ASSUME NEW t \in Tasks, StopWorker(t)
        PROVE  AdriftAreKnown'
    <2>1. ctl.phase = "stop" /\ t \in todo /\ UNCHANGED checkpoint
      BY <1>2 DEF StopWorker
    <2>2. CASE ctl' = [Down EXCEPT !.outcome = "refused"] /\ UNCHANGED <<proc, job>>
      <3>1. ctl'.phase = "down" /\ ctl'.outcome = "refused"
        BY <2>2, DownIs
      <3>2. \A u \in Tasks : Pursued(u)'
        BY <3>1 DEF Pursued
      <3> QED BY <2>1, <2>2, <3>1, <3>2, AdriftRest
    <2>3. CASE /\ todo' = todo \ {t} /\ UNCHANGED ctl
               /\ IF HasRecord(t, RowOf(t).attempt) /\ AtWork(t, RowOf(t).attempt)
                  THEN /\ proc' = [proc EXCEPT ![t][RowOf(t).attempt] = "dead"]
                       /\ job' = [job EXCEPT ![t][RowOf(t).attempt].record = "finished"]
                  ELSE UNCHANGED <<proc, job>>
      <3>1. proc \in [Tasks -> [Attempts -> ProcType]] /\ job \in [Tasks -> [Attempts -> JobType]]
        BY WorkersTyped DEF CampaignInv
      <3>2. \A u \in Tasks, b \in Attempts : proc'[u][b] = proc[u][b] \/ proc'[u][b] = "dead"
        BY <2>3, <3>1
      <3>3. \A u \in Tasks, b \in Attempts : /\ AtWork(u, b)' => AtWork(u, b)
                                             /\ Adrift(u, b)' => Adrift(u, b)
        BY <3>2 DEF AtWork, Live, Adrift
      <3>4. ASSUME NEW u \in Tasks, NEW b \in Attempts, Adrift(u, b)'
            PROVE  u # t
        <4> SUFFICES ASSUME u = t PROVE FALSE
          OBVIOUS
        <4>1. Adrift(t, b)
          BY <3>3, <3>4
        <4>2. HasRecord(t, b) /\ RowOf(t).attempt = b
          BY <4>1 DEF CampaignInv, AdriftAreKnown
        <4>3. proc'[t][b] = "dead"
          BY <2>3, <3>1, <4>1, <4>2 DEF AtWork
        <4> QED BY <3>4, <4>3 DEF Adrift
      <3>5. \A u \in Tasks, b \in Attempts : u # t => HasRecord(u, b)' = HasRecord(u, b)
        <4>1. \A u \in Tasks : u # t => job'[u] = job[u]
          BY <2>3, <3>1
        <4> QED BY <4>1 DEF HasRecord
      <3>6. \A u \in Tasks, b \in Attempts : Adrift(u, b)' => Adrift(u, b) /\ HasRecord(u, b)' /\ Pursued(u)'
        <4>1. \A u \in Tasks, b \in Attempts : Adrift(u, b) => HasRecord(u, b) /\ Pursued(u)
          BY DEF CampaignInv, AdriftAreKnown
        <4>2. \A u \in Tasks : u # t /\ Pursued(u) => Pursued(u)'
          BY <2>1, <2>3 DEF Pursued
        <4> QED BY <3>3, <3>4, <3>5, <4>1, <4>2
      <3>7. \A u \in Tasks : RowOf(u)' = RowOf(u)
        BY <2>1 DEF RowOf
      <3>8. ctl'.phase # "run"
        BY <2>1, <2>3
      <3> HIDE DEF CampaignInv
      <3> QED BY <3>3, <3>6, <3>7, <3>8, AdriftStay
    <2> QED BY <1>2, <2>2, <2>3 DEF StopWorker
  <1>3. ASSUME NEW t \in Tasks, RecoverAttempt(t)
        PROVE  AdriftAreKnown'
    <2>1. ctl.phase = "commit" /\ UNCHANGED proc
      BY <1>3 DEF RecoverAttempt
    <2> QED BY <2>1, NoneAdrift
  <1>4. CASE NextPhase
    <2>1. UNCHANGED proc /\ (ctl.phase \in {"close", "commit"} \/ (ctl.phase = "stop" /\ todo = {}))
      BY <1>4 DEF NextPhase
    <2> QED BY <2>1, NoneAdrift
  <1> QED BY <1>1, <1>2, <1>3, <1>4 DEF Recovery

LEMMA CommittingKeepsAdrift ==
  ASSUME CampaignInv, CampaignCore', Committing
  PROVE  AdriftAreKnown'
  <1>1. CampaignCore /\ commit # NoCommit /\ UNCHANGED <<job, proc, pending>>
    BY DEF CampaignInv, Committing, Publish, Record, Refuse
  <1>2. CASE ctl.phase = "commit"
    BY <1>1, <1>2, NoneAdrift
  <1>3. CASE Publish
    <2>1. UNCHANGED <<checkpoint, job, proc, ctl, lane, pending, todo>>
      BY <1>3 DEF Publish
    <2>2. \A u \in Tasks, b \in Attempts : /\ AtWork(u, b)' = AtWork(u, b) /\ Adrift(u, b)' = Adrift(u, b)
                                           /\ HasRecord(u, b)' = HasRecord(u, b)
      BY <2>1 DEF AtWork, Live, Adrift, HasRecord
    <2> HIDE DEF CampaignInv
    <2> QED BY <2>1, <2>2, AdriftUnnoticed
  <1>4. CASE ctl.phase = "run" /\ (Record \/ Refuse)
    <2>1. /\ commit \in CommitType /\ commit.by \in Lanes /\ lane[commit.by].at = "commit"
          /\ lane[commit.by].task = commit.task /\ commit.task \in Tasks
      BY <1>1, <1>4 DEF CampaignCore, CampaignShape, CommitsAreSound, CommitType
    <2>2. lane \in [Lanes -> LaneType] /\ ctl \in ControllerType /\ lane[commit.by] \in LaneType
      BY <1>1, <2>1, LaneIs
    <2>3. /\ ctl'.phase = "run" /\ (ctl.errors => ctl'.errors)
          /\ \A m \in Lanes : m # commit.by => lane'[m] = lane[m]
          /\ lane'[commit.by].at \in TaskPlaces => lane'[commit.by].task = lane[commit.by].task
      <3>1. CASE Refuse
        <4>1. ctl' = [ctl EXCEPT !.stop = TRUE, !.errors = TRUE]
                  /\ lane' = [lane EXCEPT ![commit.by] = EndedLane]
          BY <2>1, <3>1 DEF Refuse
        <4> QED BY <1>4, <2>1, <2>2, <4>1, PlacesAre DEF ControllerType, EndedLane
      <3>2. CASE Record
        <4>1. /\ ctl' = [ctl EXCEPT !.stop = @ \/ commit.raw = "pause"]
              /\ lane' = [lane EXCEPT ![commit.by] =
                            IF commit.raw = "bad" THEN [@ EXCEPT !.at = "again"] ELSE Idle(@.world)]
          BY <2>1, <3>2 DEF Record
        <4>2. ctl'.phase = ctl.phase /\ ctl'.errors = ctl.errors
          BY <2>2, <4>1 DEF ControllerType
        <4> DEFINE x == [lane[commit.by] EXCEPT !.at = "again"]
        <4>3. x.task = lane[commit.by].task
          BY <2>2 DEF LaneType
        <4>4. Idle(lane[commit.by].world).at = "idle"
          BY DEF Idle, EndedLane
        <4>5. lane' = [lane EXCEPT ![commit.by] = IF commit.raw = "bad" THEN x ELSE Idle(lane[commit.by].world)]
          BY <4>1
        <4> HIDE DEF x
        <4> QED BY <1>4, <2>1, <2>2, <4>2, <4>3, <4>4, <4>5, PlacesAre
      <3> QED BY <1>4, <3>1, <3>2
    <2>4. lane[commit.by].at \in TaskPlaces
      BY <2>1, TaskPlacesAre
    <2>5. \A u \in Tasks : u # commit.task => RowOf(u)' = RowOf(u)
      <3>1. CASE Refuse
        BY <3>1 DEF Refuse, RowOf
      <3>2. CASE Record
        <4>1. checkpoint' = Counted(commit.task, commit.attempt, commit.raw)
          BY <3>2 DEF Record
        <4> QED BY <1>1, <2>1, <4>1 DEF Counted, RowOf, CampaignCore, CampaignShape, CampaignTypeOK
      <3> QED BY <1>4, <3>1, <3>2
    <2>6. ASSUME NEW u \in Tasks, NEW b \in Attempts, Adrift(u, b)'
          PROVE  Adrift(u, b) /\ HasRecord(u, b)' /\ RowOf(u)' = RowOf(u)
      <3>1. Adrift(u, b)
        BY <1>1, <2>6 DEF Adrift
      <3>2. HasRecord(u, b) /\ LeftAlone(u)
        BY <1>4, <3>1 DEF CampaignInv, AdriftAreKnown
      <3>3. u # commit.task
        BY <2>1, <2>4, <3>2 DEF LeftAlone
      <3> QED BY <1>1, <2>5, <3>1, <3>2, <3>3 DEF HasRecord
    <2>7. /\ \A m \in Lanes : lane[m].at = "ended" => lane'[m].at = "ended"
          /\ \A m \in Lanes : lane'[m].at \in TaskPlaces =>
               lane'[m].task \in pending \/ (lane[m].at \in TaskPlaces /\ lane'[m].task = lane[m].task)
      BY <2>1, <2>3, <2>4
    <2> HIDE DEF CampaignInv
    <2> QED BY <1>1, <1>4, <2>3, <2>6, <2>7, AdriftInRun
  <1>5. ctl.phase \in {"run", "commit"}
    BY <1>1 DEF CampaignCore, PhasesAreKept
  <1> QED BY <1>2, <1>3, <1>4, <1>5 DEF Committing

LEMMA FinishingKeepsAdrift ==
  ASSUME CampaignInv, Finishing \/ Crash \/ InterruptController \/ UNCHANGED campaignVars
  PROVE  AdriftAreKnown'
  <1>1. UNCHANGED <<checkpoint, job, proc>> /\ ctl \in ControllerType
    <2>1. UNCHANGED <<checkpoint, job, proc>>
      BY DEF Finishing, LanesDone, ReportCampaign, CloseWorld, Crash, InterruptController, campaignVars
    <2> QED BY <2>1 DEF CampaignInv, CampaignCore, CampaignShape
  <1>2. CASE LanesDone
    <2>1. /\ ctl.phase = "run" /\ ctl' = [ctl EXCEPT !.phase = "cleanup"] /\ ctl.outcome # "complete"
      BY <1>2 DEF LanesDone, CampaignInv, CampaignCore, PhasesAreKept, None
    <2>2. ctl'.phase = "cleanup" /\ ctl'.errors = ctl.errors /\ ctl'.outcome # "complete"
      BY <1>1, <2>1 DEF ControllerType
    <2>3. \A t \in Tasks, a \in Attempts : Adrift(t, a) => Pursued(t)'
      BY <2>1, <2>2 DEF CampaignInv, AdriftAreKnown, LeftAlone, Pursued
    <2> QED BY <1>1, <2>2, <2>3, AdriftRest
  <1>3. CASE ReportCampaign
    <2>1. ctl.phase = "cleanup"
      BY <1>3 DEF ReportCampaign
    <2>2. ctl'.phase = "down" /\ (ctl.errors => ctl'.outcome # "complete")
      BY <1>3, DownIs DEF ReportCampaign, Score
    <2>3. \A t \in Tasks, a \in Attempts : Adrift(t, a) => Pursued(t)'
      BY <2>1, <2>2 DEF CampaignInv, AdriftAreKnown, Pursued
    <2> QED BY <1>1, <2>2, <2>3, AdriftRest
  <1>4. ASSUME NEW w \in Worlds, CloseWorld(w)
        PROVE  AdriftAreKnown'
    <2>1. CASE ctl.phase = "close"
      BY <1>1, <2>1, NoneAdrift
    <2>2. CASE ctl.phase = "cleanup"
      <3>1. ctl' = ctl \/ ctl' = [ctl EXCEPT !.errors = TRUE]
        BY <1>4, <2>2 DEF CloseWorld
      <3>2. ctl'.phase = "cleanup" /\ (ctl.errors => ctl'.errors) /\ ctl'.outcome = ctl.outcome
        BY <1>1, <2>2, <3>1 DEF ControllerType
      <3>3. \A t \in Tasks, a \in Attempts : Adrift(t, a) => Pursued(t)'
        BY <2>2, <3>2 DEF CampaignInv, AdriftAreKnown, Pursued
      <3> QED BY <1>1, <3>2, <3>3, AdriftRest
    <2> QED BY <1>4, <2>1, <2>2 DEF CloseWorld
  <1>5. CASE Crash
    <2>1. ctl' = Down
      BY <1>5 DEF Crash
    <2>2. ctl'.phase = "down" /\ ctl'.outcome # "complete"
      BY <2>1, DownIs DEF None
    <2>3. \A t \in Tasks : Pursued(t)'
      BY <2>2 DEF Pursued
    <2> QED BY <1>1, <2>2, <2>3, AdriftRest
  <1>6. CASE InterruptController \/ UNCHANGED campaignVars
    <2>1. UNCHANGED <<lane, pending, todo>> /\ ctl'.phase = ctl.phase /\ ctl'.errors = ctl.errors
          /\ ctl'.outcome = ctl.outcome
      BY <1>1, <1>6 DEF InterruptController, campaignVars, ControllerType
    <2>2. \A u \in Tasks, b \in Attempts : /\ AtWork(u, b)' = AtWork(u, b) /\ Adrift(u, b)' = Adrift(u, b)
                                           /\ HasRecord(u, b)' = HasRecord(u, b)
      BY <1>1 DEF AtWork, Live, Adrift, HasRecord
    <2> HIDE DEF CampaignInv
    <2> QED BY <1>1, <2>1, <2>2, AdriftUnnoticed
  <1> QED BY <1>2, <1>3, <1>4, <1>5, <1>6 DEF Finishing

-------------------------------------------------------------------------------
(* Campaign: the theorems.                                                    *)

LEMMA CampaignBegins == CampaignInit => CampaignInv
  <1> SUFFICES ASSUME CampaignInit PROVE CampaignInv
    OBVIOUS
  <1>1. /\ checkpoint = [results |-> [t \in Tasks |-> 0], attempts |-> [t \in Tasks |-> 0],
                         inflight |-> [t \in Tasks |-> NoRow], worlds |-> {}]
        /\ job = [t \in Tasks |-> [a \in Attempts |-> [record |-> None, result |-> None, timedOut |-> FALSE]]]
        /\ proc = [t \in Tasks |-> [a \in Attempts |-> None]]
        /\ container = [w \in Worlds |-> None] /\ label = container /\ cmd = container
        /\ canonical = [t \in Tasks |-> 0] /\ staging = proc
        /\ ctl = Down /\ lane = [l \in Lanes |-> EndedLane] /\ pending = {} /\ todo = {} /\ commit = NoCommit
    BY DEF CampaignInit
  <1>2. lane \in [Lanes -> LaneType] /\ \A l \in Lanes : lane[l] = EndedLane
    BY <1>1, AllEnded
  <1>3. ctl \in ControllerType /\ ctl.phase = "down" /\ ctl.outcome = None
    BY <1>1, DownIs
  <1>4. CampaignShape
    <2>1. 0 \in 0..Last
      BY RowsAre
    <2>2. checkpoint \in [results : [Tasks -> 0..Last], attempts : [Tasks -> 0..Last],
                          inflight : [Tasks -> Row \cup {NoRow}], worlds : SUBSET Worlds]
      BY <1>1, <2>1
    <2>3. job \in [Tasks -> [Attempts -> JobType]]
      BY <1>1 DEF JobType
    <2>4. proc \in [Tasks -> [Attempts -> ProcType]]
              /\ staging \in [Tasks -> [Attempts -> {None, "bare", "intent"}]]
      BY <1>1 DEF ProcType
    <2>5. DockerTypes
      BY <1>1 DEF DockerTypes
    <2>6. canonical \in [Tasks -> 0..Last] /\ pending \subseteq Tasks
      BY <1>1, <2>1
    <2> QED BY <1>1, <1>2, <1>3, <2>2, <2>3, <2>4, <2>5, <2>6
            DEF CampaignShape, CampaignTypeOK, JobType, ProcType, DockerTypes, LaneType
  <1>5. PhasesAreKept
    BY <1>1, <1>2, <1>3 DEF PhasesAreKept
  <1>6. TasksAreHeld /\ LanesKeepTheirWorld /\ AttemptsAreEnlisted
    <2>1. /\ EndedLane.at = "ended" /\ EndedLane.world = NoWorld
          /\ "ended" \notin TaskPlaces \cup BuildingPlaces \cup InWorldPlaces \cup EnlistedPlaces
      BY DEF EndedLane, TaskPlaces, AttemptPlaces, BuildingPlaces, InWorldPlaces, EnlistedPlaces
    <2>2. \A l \in Lanes : HoldsTask(l) /\ KeepsWorld(l) /\ IsEnlisted(l)
      BY <1>2, <2>1 DEF HoldsTask, KeepsWorld, IsEnlisted
    <2> QED BY <1>1, <1>2, <2>1, <2>2 DEF TasksAreHeld, LanesKeepTheirWorld, AttemptsAreEnlisted
  <1>7. WorldsAreRegistered /\ ClosedByPhases
    BY <1>1, <1>3 DEF WorldsAreRegistered, ClosedByPhases, Closed, None
  <1>8. \A t \in Tasks, a \in Attempts : ~Live(t, a) /\ job[t][a].record = None /\ job[t][a].result # "good"
    BY <1>1 DEF Live, None
  <1>9. RowsAreNext
    BY <1>1, <1>8 DEF RowsAreNext, RowOf
  <1>10. LiveAreKnown /\ CommitsAreSound
    BY <1>1, <1>3, <1>8 DEF LiveAreKnown, LiveKeepTheirWorld, CommitsAreSound
  <1>11. AdriftAreKnown
    BY <1>1 DEF AdriftAreKnown, Adrift, None
  <1> QED BY <1>4, <1>5, <1>6, <1>7, <1>9, <1>10, <1>11 DEF CampaignCore, CampaignInv

LEMMA CampaignRests == CampaignCore /\ UNCHANGED campaignVars => CampaignCore'
  <1> SUFFICES ASSUME CampaignCore, UNCHANGED campaignVars PROVE CampaignCore'
    OBVIOUS
  <1>1. UNCHANGED <<checkpoint, job, proc, container, label, cmd, canonical, staging, ctl, lane, pending, todo, commit>>
    BY DEF campaignVars
  <1>2. \A t \in Tasks, a \in Attempts : HasRecord(t, a)' = HasRecord(t, a) /\ Live(t, a)' = Live(t, a)
    BY <1>1 DEF HasRecord, Live
  <1>3. /\ PhasesAreKept' /\ TasksAreHeld' /\ WorldsAreRegistered' /\ LanesKeepTheirWorld' /\ ClosedByPhases'
        /\ AttemptsAreEnlisted' /\ \A t \in Tasks : RowOf(t)' = RowOf(t)
    BY <1>1, <1>2, UnnoticedIs
  <1>4. LiveAreKnown'
    <2>1. \A t \in Tasks, a \in Attempts : Live(t, a)' => Live(t, a) /\ HasRecord(t, a)'
      BY <1>2 DEF CampaignCore, LiveAreKnown
    <2> QED BY <1>1, <2>1, FewerLive
  <1>5. CampaignShape'
    BY <1>1 DEF CampaignCore, CampaignShape, CampaignTypeOK
  <1>6. RowsAreNext'
    BY <1>1, <1>3 DEF CampaignCore, RowsAreNext
  <1>7. CommitsAreSound'
    BY <1>1, <1>3 DEF CampaignCore, CommitsAreSound, Live
  <1> QED BY <1>3, <1>4, <1>5, <1>6, <1>7 DEF CampaignCore

LEMMA CampaignStepKeepsCore ==
  ASSUME CampaignInv, [CampaignNext]_campaignVars
  PROVE  CampaignCore'
  <1>0. CampaignCore
    BY DEF CampaignInv
  <1> HIDE DEF CampaignInv
  <1>1. CASE UNCHANGED campaignVars
    BY <1>0, <1>1, CampaignRests
  <1>2. CASE Environment
    BY <1>0, <1>2, WriteResultKeepsInv, ExitKeepsInv, DockerKeepsInv DEF Environment
  <1>3. CASE Start
    BY <1>0, <1>3, StartKeepsInv
  <1>4. CASE Recovery
    BY <1>0, <1>4, StopWorkerKeepsInv, RecoverKeepsInv, NextPhaseKeepsInv DEF Recovery
  <1>5. CASE Committing
    BY <1>0, <1>5, PublishKeepsInv, RecordKeepsInv, RefuseKeepsInv DEF Committing
  <1>6. CASE Finishing
    BY <1>0, <1>6, LanesDoneKeepsInv, ReportKeepsInv, CloseWorldKeepsInv DEF Finishing
  <1>7. CASE InterruptController
    BY <1>0, <1>7, InterruptControllerKeepsInv
  <1>8. CASE Crash
    BY <1>0, <1>8, CrashKeepsInv
  <1>9. CASE \E l \in Lanes : Coroutine(l)
    BY <1>0, <1>9, CoroutineKeepsInv
  <1> QED BY <1>1, <1>2, <1>3, <1>4, <1>5, <1>6, <1>7, <1>8, <1>9 DEF CampaignNext

LEMMA CampaignStepKeepsInv == CampaignInv /\ [CampaignNext]_campaignVars => CampaignInv'
  <1> SUFFICES ASSUME CampaignInv, [CampaignNext]_campaignVars PROVE CampaignInv'
    OBVIOUS
  <1>1. CampaignCore'
    BY CampaignStepKeepsCore
  <1>2. AdriftAreKnown'
    <2> HIDE DEF CampaignInv
    <2>1. CASE Environment
      BY <2>1, EnvironmentKeepsAdrift
    <2>2. CASE Start \/ Recovery
      BY <2>2, RecoveryKeepsAdrift
    <2>3. CASE Committing
      BY <1>1, <2>3, CommittingKeepsAdrift
    <2>4. CASE Finishing \/ Crash \/ InterruptController \/ UNCHANGED campaignVars
      BY <2>4, FinishingKeepsAdrift
    <2>5. CASE \E l \in Lanes : Coroutine(l)
      BY <1>1, <2>5, CoroutineKeepsAdrift
    <2> QED BY <2>1, <2>2, <2>3, <2>4, <2>5 DEF CampaignNext
  <1> QED BY <1>1, <1>2 DEF CampaignInv

\* In every state of every campaign, with any number of coroutines, tasks, retries, crashes and
\* faults, the worlds, the rows of the checkpoint, the workers and the commits fit together, and
\* a worker its coroutine gave up is on record, so that the next start stops it.
THEOREM CampaignInvHolds == CampaignSpec => []CampaignInv
  BY CampaignBegins, CampaignStepKeepsInv, PTL DEF CampaignSpec

\* Workers at work are those the checkpoint has under way, each alone in its world, which runs
\* unless the worker was given up; and a campaign that is reported complete leaves none of them
\* and no running world.
THEOREM WorkersAlwaysKnown == CampaignSpec => []WorkersAreKnown
  <1>1. CampaignInv => WorkersAreKnown
    <2> SUFFICES ASSUME CampaignInv PROVE WorkersAreKnown
      OBVIOUS
    <2>1. CampaignTypeOK /\ CampaignCore /\ LiveKeepTheirWorld /\ AdriftAreKnown
      BY DEF CampaignInv, CampaignCore, CampaignShape, LiveAreKnown
    <2>2. WorkersKeepTheirWorld
      <3> SUFFICES ASSUME NEW t \in Tasks, NEW a \in Attempts, AtWork(t, a)
                   PROVE  /\ RowOf(t) # NoRow /\ RowOf(t).attempt = a
                          /\ Live(t, a) => container[RowOf(t).world] = "running"
                          /\ \A u \in Tasks \ {t} :
                               (\E b \in Attempts : AtWork(u, b)) => RowOf(u).world # RowOf(t).world
        BY DEF WorkersKeepTheirWorld
      <3>1. RowOf(t) # NoRow /\ RowOf(t).attempt = a /\ (Live(t, a) => container[RowOf(t).world] = "running")
        BY <2>1 DEF LiveKeepTheirWorld, AdriftAreKnown, AtWork
      <3>2. ASSUME NEW u \in Tasks \ {t}, NEW b \in Attempts, AtWork(u, b)
            PROVE  RowOf(u).world # RowOf(t).world
        <4>1. CASE Adrift(t, a)
          BY <2>1, <3>2, <4>1 DEF AdriftAreKnown
        <4>2. CASE Adrift(u, b)
          BY <2>1, <3>2, <4>2 DEF AdriftAreKnown
        <4>3. CASE Live(t, a) /\ Live(u, b)
          BY <2>1, <4>3 DEF LiveKeepTheirWorld
        <4> QED BY <3>2, <4>1, <4>2, <4>3 DEF AtWork
      <3> QED BY <3>1, <3>2
    <2>3. CompleteRunsLeaveNothing
      <3> SUFFICES ASSUME ctl.outcome = "complete"
                   PROVE  /\ \A t \in Tasks, a \in Attempts : ~AtWork(t, a)
                          /\ \A w \in Worlds : container[w] # "running"
        BY DEF CompleteRunsLeaveNothing
      <3>1. \A t \in Tasks, a \in Attempts : ~Live(t, a)
        BY <2>1 DEF CampaignCore, LiveAreKnown
      <3>2. \A t \in Tasks, a \in Attempts : ~Adrift(t, a)
        BY <2>1 DEF AdriftAreKnown, Pursued
      <3>3. \A w \in Worlds : container[w] # "running"
        BY <2>1 DEF CampaignCore, ClosedByPhases, Closed, None
      <3> QED BY <3>1, <3>2, <3>3 DEF AtWork
    <2> QED BY <2>1, <2>2, <2>3 DEF WorkersAreKnown
  <1> QED BY <1>1, CampaignInvHolds, PTL

\* The scorable result of an attempt is the published one once it is counted, and no later attempt
\* of its task has been prepared, wherever the controller was killed.
THEOREM ScoredWorkAlwaysKept == CampaignSpec => []ScoredWorkIsKept
  <1>1. CampaignInv => ScoredWorkIsKept
    <2> SUFFICES ASSUME CampaignInv PROVE ScoredWorkIsKept
      OBVIOUS
    <2> USE DEF CampaignInv
    <2>1. RowsAreNext
      BY DEF CampaignCore
    <2>2. ASSUME NEW t \in Tasks, NEW a \in Attempts, NEW b \in Attempts,
                 job[t][a].result = "good", ~job[t][a].timedOut, a < b
          PROVE  job[t][b].record = None
      <3> SUFFICES ASSUME job[t][b].record # None PROVE FALSE
        OBVIOUS
      <3>1. checkpoint.attempts[t] \in Nat /\ a \in Nat /\ b \in Nat
        BY RowsAre DEF CampaignCore, CampaignShape, CampaignTypeOK
      <3>2. CASE a <= checkpoint.attempts[t]
        <4>1. checkpoint.results[t] # 0 /\ a = checkpoint.attempts[t]
          BY <2>1, <2>2, <3>2 DEF RowsAreNext
        <4>2. RowOf(t) # NoRow
          BY <2>1, <2>2, <3>1, <4>1 DEF RowsAreNext
        <4> QED BY <2>1, <4>1, <4>2 DEF RowsAreNext
      <3>3. CASE a > checkpoint.attempts[t]
        <4>1. RowOf(t) # NoRow /\ RowOf(t).attempt = b
          BY <2>1, <2>2, <3>1, <3>3 DEF RowsAreNext
        <4>2. b = checkpoint.attempts[t] + 1
          BY <2>1, <4>1 DEF RowsAreNext
        <4> QED BY <2>2, <3>1, <3>3, <4>2
      <3> QED BY <3>1, <3>2, <3>3
    <2> QED BY <2>1, <2>2 DEF ScoredWorkIsKept, RowsAreNext
  <1> QED BY <1>1, CampaignInvHolds, PTL

=============================================================================
