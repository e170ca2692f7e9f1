---------------------------- MODULE Sandbox_proofs ----------------------------
(***************************************************************************)
(* What holds of Sandbox for any set of runs, with and without an owner,   *)
(* and any number of mishaps and of ends of the process: every container   *)
(* is on record, a confirmed cleanup is final, and the writers of the      *)
(* workspace exclude each other.                                           *)
(***************************************************************************)
EXTENDS Sandbox, TLAPS

USE DEF engineVars, knownVars, callVars, phaseVars, countVars

-------------------------------------------------------------------------------
(* The inductive invariant *)

\* A confirmed container exists or is gone; it is never still to be created.
ConfirmedExisted == owned => \A r \in Runs : record[r] = "confirmed" => box[r] # "asked"

\* What is being verified is not there.
VerifiedIsAbsent == guard.at = "verify" => owned /\ guard.run \in Runs /\ box[guard.run] = "none"

\* Whoever starts a container holds the guard all the while.
StartsHoldGuard ==
    \A r \in Runs : call[r] \in {"intent", "run", "confirm"} =>
        guard = [by |-> "call", run |-> r, at |-> "ensure"]

\* A shutdown that began may end.
StopLeft == phase \in {"stopping", "reaping"} => stops < Stops

\* Without these a record could vanish, or a name be reused, under a container.
RecordInv ==
    /\ TypeOK /\ StopLeft
    /\ ContainersAreRecorded /\ ConfirmedExisted /\ VerifiedIsAbsent /\ StartsHoldGuard

\* A serving runtime answers for everything that exists.
ServingKnowsAll ==
    phase = "up" => \A r \in Runs :
        /\ owned /\ record[r] # "none" => r \in managed
        /\ ~ owned /\ box[r] # "none" => r \in boxes \union unsure

\* A recovery has everything on record still before it.
RecoveryHasAll ==
    phase = "recovering" => owned /\ \A r \in Runs : record[r] # "none" => r \in todo

\* Tools are called only while the core serves.
CallsNeedService == phase # "up" => \A r \in Runs : call[r] = "idle"

\* A start without a record is the first of its run.
IntentIsNew == \A r \in Runs : call[r] = "intent" => owned /\ r \notin managed

\* The cleanup of a run comes after its calls.
CleanupIsLast ==
    guard.by = "service" =>
        phase = "up" /\ guard.run \in Runs /\ run[guard.run] = "over" /\ call[guard.run] = "idle"

\* docker rm is first tried for a container that is known.
KnownIsKnown == guard.at = "known" => guard.run \in boxes

\* A confirmed cleanup left nothing, and nothing of the run can start any more.
GoneIsGone == \A r \in Runs : run[r] = "gone" => box[r] = "none" /\ call[r] = "idle"

CleanupInv ==
    /\ ServingKnowsAll /\ RecoveryHasAll /\ CallsNeedService
    /\ IntentIsNew /\ CleanupIsLast /\ KnownIsKnown /\ GoneIsGone

\* Workers live in containers; a call that executes holds the workspace.
WorkNeedsBox == \A r \in Runs : work[r] => box[r] = "up"
ExecHoldsWorkspace == \A r \in Runs : call[r] \in {"exec", "drop", "dropShielded"} => wlock = r

\* While the core serves, a worker that it did not fail to remove holds the workspace.
WorkersHoldWorkspace == phase = "up" => \A r \in Runs : work[r] /\ r \notin blocked => wlock = r

WriterInv == WorkNeedsBox /\ ExecHoldsWorkspace /\ WorkersHoldWorkspace /\ WritersAreExclusive

Inv == RecordInv /\ CleanupInv /\ WriterInv
-------------------------------------------------------------------------------
(* Types *)

\* The values the steps write.
LEMMA Values ==
  /\ {"none", "asked", "up"} \subseteq BoxState
  /\ {"none", "intent", "confirmed"} \subseteq RecordState
  /\ {"idle", "guard", "intent", "run", "confirm", "undo", "undoShielded",
      "lock", "exec", "drop", "dropShielded"} \subseteq CallState
  /\ {"open", "over", "stale", "gone"} \subseteq RunState
  /\ {"down", "recovering", "up", "stopping", "reaping"} \subseteq Phase
  /\ Nobody \in Guard
  /\ \A r \in Runs : [by |-> "call", run |-> r, at |-> "ensure"] \in Guard
  /\ \A r \in Runs, by \in {"call", "service", "sweep"}, at \in {"known", "look"} :
        [by |-> by, run |-> r, at |-> at] \in Guard
  /\ \A at \in {"look", "rm", "verify"} : guard \in Guard => [guard EXCEPT !.at = at] \in Guard
  BY DEF BoxState, RecordState, CallState, RunState, Phase, Guard, Nobody

\* The counters stay within their bounds.
LEMMA MishapTypes ==
  ASSUME TypeOK, UNCHANGED <<mishaps, stops, owned>> \/ Mishap
  PROVE  owned' \in BOOLEAN /\ mishaps' \in 0..Mishaps /\ stops' \in 0..Stops
  BY SandboxAssumption DEF TypeOK, Mishap

\* The end of a removal keeps the types of what it touches.
LEMMA FinishTypes ==
  ASSUME TypeOK, NEW r \in Runs, NEW ok, Finish(r, ok)
  PROVE  /\ guard' \in Guard /\ wlock' \in Runs \union {NoRun}
         /\ call' \in [Runs -> CallState] /\ run' \in [Runs -> RunState]
         /\ phase' \in Phase /\ todo' \subseteq Runs /\ blocked' \subseteq Runs
  BY Values DEF TypeOK, Finish

\* So does a removal that goes on.
LEMMA AdvanceTypes ==
  ASSUME TypeOK, NEW at \in {"look", "rm", "verify"}, Advance(at)
  PROVE  /\ guard' \in Guard /\ wlock' \in Runs \union {NoRun}
         /\ call' \in [Runs -> CallState] /\ run' \in [Runs -> RunState]
         /\ phase' \in Phase /\ todo' \subseteq Runs /\ blocked' \subseteq Runs
  BY Values DEF TypeOK, Advance

\* The engine.
LEMMA EngineTypes ==
  ASSUME TypeOK, NEW r \in Runs, DaemonCreates(r) \/ DaemonDrops(r) \/ ContainerDies(r)
  PROVE  TypeOK'
  BY Values, MishapTypes DEF TypeOK, DaemonCreates, DaemonDrops, ContainerDies

\* A removal, step by step.
LEMMA RemovalTypes ==
  ASSUME TypeOK, NEW r \in Runs, Removal(r)
  PROVE  TypeOK'
  <1>a. ASSUME Removed(r) \/ UNCHANGED engineVars
        PROVE  box' \in [Runs -> BoxState] /\ work' \in [Runs -> BOOLEAN]
    BY <1>a, Values DEF TypeOK, Removed
  <1>1. CASE Inspect(r)
    <2>1. record' \in [Runs -> RecordState]
      BY <1>1, Values DEF TypeOK, Inspect
    <2>2. UNCHANGED engineVars /\ UNCHANGED knownVars
      BY <1>1 DEF Inspect
    <2>3. UNCHANGED <<mishaps, stops, owned>> \/ Mishap
      BY <1>1 DEF Inspect
    <2>4. Finish(r, FALSE) \/ Advance("rm") \/ Advance("verify")
      BY <1>1 DEF Inspect
    <2>q. QED BY <2>1, <2>2, <2>3, <2>4, FinishTypes, AdvanceTypes, MishapTypes DEF TypeOK
  <1>2. CASE Rm(r)
    BY <1>2, <1>a, FinishTypes, AdvanceTypes, MishapTypes DEF TypeOK, Rm
  <1>3. CASE Verify(r)
    <2>1. record' \in [Runs -> RecordState]
      BY <1>3, Values DEF TypeOK, Verify
    <2>2. UNCHANGED engineVars /\ (UNCHANGED knownVars \/ Forget(r))
      BY <1>3 DEF Verify
    <2>3. UNCHANGED <<mishaps, stops, owned>> \/ Mishap
      BY <1>3 DEF Verify
    <2>4. Finish(r, FALSE) \/ Finish(r, TRUE)
      BY <1>3 DEF Verify
    <2>q. QED BY <2>1, <2>2, <2>3, <2>4, FinishTypes, MishapTypes DEF TypeOK, Forget
  <1>4. CASE RmKnown(r)
    BY <1>4, <1>a, FinishTypes, AdvanceTypes, MishapTypes DEF TypeOK, RmKnown
  <1>5. CASE InspectName(r)
    BY <1>5, FinishTypes, AdvanceTypes, MishapTypes DEF TypeOK, InspectName
  <1>6. CASE RmName(r)
    BY <1>6, <1>a, FinishTypes, MishapTypes DEF TypeOK, RmName
  <1>q. QED BY <1>1, <1>2, <1>3, <1>4, <1>5, <1>6 DEF Removal

\* A tool call, step by step.
LEMMA CallTypes ==
  ASSUME TypeOK, NEW r \in Runs, Execute(r) \/ CallStep(r) \/ Cancelled(r)
  PROVE  TypeOK'
  <1>1. CASE Execute(r) \/ CancelWaiting(r) \/ LosesShield(r)
    BY <1>1, Values, MishapTypes DEF TypeOK, Execute, CancelWaiting, LosesShield
  <1>8. CASE CutShort(r)
    <2>1. UNCHANGED <<record, knownVars>> /\ Mishap
      BY <1>8 DEF CutShort
    <2>2. UNCHANGED engineVars \/ Removed(r)
      BY <1>8 DEF CutShort
    <2>3. box' \in [Runs -> BoxState] /\ work' \in [Runs -> BOOLEAN]
      BY <2>2, Values DEF TypeOK, Removed
    <2>4. CASE Finish(r, FALSE)
      BY <2>1, <2>3, <2>4, FinishTypes, MishapTypes DEF TypeOK
    <2>5. CASE ~ RemovesOwn(r)
      BY <1>8, <2>1, <2>3, <2>5, Values, MishapTypes DEF TypeOK, CutShort
    <2>q. QED BY <1>8, <2>4, <2>5 DEF CutShort
  <1>2. CASE EnterGuard(r)
    BY <1>2, Values DEF TypeOK, EnterGuard, Submit
  <1>3. CASE CreateIntent(r)
    <2>1. /\ owned' \in BOOLEAN /\ mishaps' \in 0..Mishaps /\ stops' \in 0..Stops
      BY <1>3, MishapTypes DEF CreateIntent
    <2>2. box' \in [Runs -> BoxState]
      BY <1>3, Values DEF TypeOK, CreateIntent, Submit
    <2>5. record' \in [Runs -> RecordState]
      <3>1. record' = [record EXCEPT ![r] = "intent"] \/ record' = record
        BY <1>3 DEF CreateIntent
      <3>q. QED BY <3>1, Values DEF TypeOK
    <2>3. call' \in [Runs -> CallState] /\ guard' \in Guard
      BY <1>3, Values DEF TypeOK, CreateIntent
    <2>4. managed' \subseteq Runs /\ unsure' \subseteq Runs /\ attempted' \in BOOLEAN
      BY <1>3 DEF TypeOK, CreateIntent, Submit
    <2>q. QED BY <1>3, <2>1, <2>2, <2>3, <2>4, <2>5 DEF TypeOK, CreateIntent
  <1>4. CASE RunAnswers(r) \/ RunFails(r)
    BY <1>4, Values, MishapTypes DEF TypeOK, RunAnswers, RunFails, Known, Undo
  <1>5. CASE ConfirmIdentity(r)
    <2>1. record' = [record EXCEPT ![r] = "confirmed"] \/ record' = record
      BY <1>5 DEF ConfirmIdentity
    <2>2. record' \in [Runs -> RecordState]
      BY <2>1, Values DEF TypeOK
    <2>3. Known(r) \/ Undo(r)
      BY <1>5 DEF ConfirmIdentity
    <2>4. UNCHANGED <<mishaps, stops, owned>> \/ Mishap
      BY <1>5 DEF ConfirmIdentity
    <2>5. UNCHANGED <<engineVars, wlock, run, phaseVars>>
      BY <1>5 DEF ConfirmIdentity
    <2>6. guard' \in Guard /\ call' \in [Runs -> CallState]
      <3>1. CASE Known(r)
        BY <3>1, Values DEF TypeOK, Known
      <3>2. CASE Undo(r)
        BY <3>2, Values DEF TypeOK, Undo
      <3>q. QED BY <2>3, <3>1, <3>2
    <2>7. managed' \subseteq Runs /\ boxes' \subseteq Runs /\ unsure' \subseteq Runs /\ attempted' \in BOOLEAN
      BY <2>3 DEF TypeOK, Known, Undo
    <2>q. QED BY <2>2, <2>4, <2>5, <2>6, <2>7, MishapTypes DEF TypeOK
  <1>6. CASE StartExec(r) \/ ExecReturns(r) \/ ExecBreaks(r)
    BY <1>6, Values, MishapTypes DEF TypeOK, StartExec, ExecReturns, ExecBreaks, KeepsWorkspace
  <1>7. CASE Drop(r)
    BY <1>7, Values DEF TypeOK, Drop, StartRemoval, FirstStep
  <1>q. QED BY <1>1, <1>2, <1>3, <1>4, <1>5, <1>6, <1>7, <1>8 DEF CallStep, Cancelled

\* Cleanups, shutdowns, crashes and recoveries.
LEMMA ProcessTypes ==
  ASSUME TypeOK, StopLeft,
         \/ \E r \in Runs : CleanupRun(r) \/ SweepNext(r)
         \/ Shutdown \/ Reap \/ Stopped \/ Crash \/ Recover \/ Serve
  PROVE  TypeOK'
  <1>1. ASSUME NEW r \in Runs, CleanupRun(r) \/ SweepNext(r) PROVE TypeOK'
    BY <1>1, Values DEF TypeOK, CleanupRun, SweepNext, StartRemoval, FirstStep
  <1>2. CASE Shutdown
    BY <1>2, Values DEF TypeOK, Shutdown
  <1>5. CASE Reap
    <2>1. box' \in [Runs -> BoxState] /\ work' \in [Runs -> BOOLEAN]
      BY <1>5, Values DEF TypeOK, Reap, ReapsAll
    <2>2. boxes' \subseteq Runs /\ todo' \subseteq Runs /\ phase' \in Phase
      BY <1>5, Values DEF TypeOK, Reap
    <2>3. UNCHANGED <<mishaps, stops, owned>> \/ Mishap
      BY <1>5 DEF Reap
    <2>q. QED BY <1>5, <2>1, <2>2, <2>3, MishapTypes DEF TypeOK, Reap
  <1>3. CASE Stopped \/ Crash
    <2>1. stops' \in 0..Stops
      BY <1>3, SandboxAssumption DEF TypeOK, StopLeft, Stopped, Crash
    <2>2. ProcessGone
      BY <1>3 DEF Stopped, Crash
    <2>3. call' \in [Runs -> CallState] /\ run' \in [Runs -> RunState]
      BY <2>2, Values DEF TypeOK, ProcessGone
    <2>q. QED BY <2>1, <2>2, <2>3, Values DEF TypeOK, ProcessGone
  <1>4. CASE Recover \/ Serve
    BY <1>4, Values DEF TypeOK, Recover, Serve, LeftBehind
  <1>q. QED BY <1>1, <1>2, <1>3, <1>4, <1>5

\* Every step keeps the types.
LEMMA NextTypes == TypeOK /\ StopLeft /\ [Next]_vars => TypeOK'
  <1>1. TypeOK /\ UNCHANGED vars => TypeOK'
    BY DEF TypeOK, vars
  <1>q. QED BY <1>1, EngineTypes, RemovalTypes, CallTypes, ProcessTypes DEF Next

-------------------------------------------------------------------------------
(* Records *)

\* A removal that ends hands the guard back and disturbs no start.
LEMMA FinishKeepsStarts ==
  ASSUME TypeOK, StartsHoldGuard, NEW r \in Runs, NEW ok, Finish(r, ok), guard.at # "ensure"
  PROVE  StartsHoldGuard' /\ guard'.at # "verify"
  BY DEF TypeOK, StartsHoldGuard, Finish, Nobody

\* So does one that goes on.
LEMMA AdvanceKeepsStarts ==
  ASSUME TypeOK, StartsHoldGuard, NEW at \in {"look", "rm", "verify"}, Advance(at), guard.at # "ensure"
  PROVE  StartsHoldGuard' /\ guard'.run = guard.run /\ guard'.at = at
  BY DEF TypeOK, Guard, StartsHoldGuard, Advance

\* The facts about records and containers survive every step of a removal.
LEMMA RemovalKeepsRecordInv ==
  ASSUME RecordInv, NEW r \in Runs, Removal(r)
  PROVE  RecordInv'
  <1> USE DEF RecordInv
  <1>t. TypeOK'
    BY RemovalTypes
  <1>s. StopLeft'
    <2>1. (phase' = phase \/ phase' = "down") /\ stops' = stops
      BY DEF Removal, Inspect, Rm, Verify, RmKnown, InspectName, RmName, Finish, Advance, Mishap
    <2>q. QED BY <2>1 DEF StopLeft
  <1>e. guard.at # "ensure" /\ owned' = owned
    BY DEF Removal, Inspect, Rm, Verify, RmKnown, InspectName, RmName, Mishap
  <1>1. CASE Inspect(r)
    <2>1. owned /\ guard.run = r /\ UNCHANGED engineVars
      BY <1>1 DEF Inspect
    <2>2. CASE box[r] = "up" /\ record' = [record EXCEPT ![r] = "confirmed"] /\ Advance("rm")
      BY <2>1, <2>2, <1>t, <1>s, <1>e, AdvanceKeepsStarts
      DEF TypeOK, ContainersAreRecorded, Held, ConfirmedExisted, VerifiedIsAbsent
    <2>3. CASE box[r] # "up" /\ record[r] = "confirmed" /\ record' = record /\ Advance("verify")
      <3>1. box[r] = "none"
        BY <2>1, <2>3, Values DEF TypeOK, BoxState, ConfirmedExisted
      <3>q. QED BY <2>1, <2>3, <3>1, <1>t, <1>s, <1>e, AdvanceKeepsStarts
            DEF ContainersAreRecorded, Held, ConfirmedExisted, VerifiedIsAbsent
    <2>4. CASE record' = record /\ Finish(r, FALSE)
      BY <2>1, <2>4, <1>t, <1>s, <1>e, FinishKeepsStarts
      DEF ContainersAreRecorded, Held, ConfirmedExisted, VerifiedIsAbsent
    <2>q. QED BY <1>1, <2>2, <2>3, <2>4 DEF Inspect, AbsenceProves
  <1>2. CASE Rm(r)
    BY <1>2, <1>t, <1>s, <1>e, FinishKeepsStarts, AdvanceKeepsStarts
    DEF Rm, Removed, TypeOK, ContainersAreRecorded, Held, ConfirmedExisted, VerifiedIsAbsent
  <1>3. CASE Verify(r)
    BY <1>3, <1>t, <1>s, <1>e, FinishKeepsStarts
    DEF Verify, TypeOK, ContainersAreRecorded, Held, ConfirmedExisted, VerifiedIsAbsent
  <1>4. CASE RmKnown(r)
    BY <1>4, <1>t, <1>s, <1>e, FinishKeepsStarts, AdvanceKeepsStarts
    DEF RmKnown, TypeOK, ContainersAreRecorded, ConfirmedExisted, VerifiedIsAbsent
  <1>5. CASE InspectName(r)
    BY <1>5, <1>t, <1>s, <1>e, FinishKeepsStarts, AdvanceKeepsStarts
    DEF InspectName, TypeOK, ContainersAreRecorded, ConfirmedExisted, VerifiedIsAbsent
  <1>6. CASE RmName(r)
    BY <1>6, <1>t, <1>s, <1>e, FinishKeepsStarts
    DEF RmName, TypeOK, ContainersAreRecorded, ConfirmedExisted, VerifiedIsAbsent
  <1>q. QED BY <1>1, <1>2, <1>3, <1>4, <1>5, <1>6 DEF Removal

\* A call changes neither the process nor the count of its ends.
LEMMA CallsNeedNoStop ==
  ASSUME RecordInv, NEW r \in Runs, Execute(r) \/ CallStep(r) \/ Cancelled(r)
  PROVE  StopLeft'
  <1>1. CASE CutShort(r)
    <2>1. (phase' = phase \/ phase' = "down") /\ stops' = stops
      BY <1>1 DEF CutShort, Finish, Mishap
    <2>q. QED BY <2>1 DEF RecordInv, StopLeft
  <1>q. QED BY <1>1 DEF RecordInv, StopLeft, Execute, CallStep, Cancelled, CancelWaiting, LosesShield,
       EnterGuard, CreateIntent, RunAnswers, RunFails, ConfirmIdentity, StartExec, ExecReturns, ExecBreaks,
       Drop, Mishap

\* And every step of a tool call: the record is written before docker run is submitted.
LEMMA CallKeepsRecordInv ==
  ASSUME RecordInv, NEW r \in Runs, Execute(r) \/ CallStep(r) \/ Cancelled(r)
  PROVE  RecordInv'
  <1> USE DEF RecordInv, ContainersAreRecorded, Held, ConfirmedExisted, VerifiedIsAbsent, StartsHoldGuard
  <1>t. TypeOK'
    BY CallTypes
  <1>s. StopLeft'
    BY CallsNeedNoStop
  <1>1. CASE Execute(r) \/ CancelWaiting(r) \/ LosesShield(r)
    BY <1>1, <1>t, <1>s DEF TypeOK, Execute, CancelWaiting, LosesShield, Mishap
  <1>9. CASE CutShort(r)
    <2>1. record' = record /\ owned' = owned /\ (UNCHANGED engineVars \/ Removed(r))
      BY <1>9 DEF CutShort, Mishap
    <2>2. /\ call' = [call EXCEPT ![r] = "idle"]
          /\ (RemovesOwn(r) /\ guard' = Nobody) \/ guard' = guard
      BY <1>9 DEF CutShort, Finish, RemovesOwn
    <2>3. StartsHoldGuard' /\ (guard' = guard \/ guard'.at # "verify")
      BY <2>2 DEF TypeOK, RemovesOwn, Nobody
    <2>q. QED BY <1>t, <1>s, <2>1, <2>3 DEF TypeOK, Removed
  <1>2. CASE EnterGuard(r)
    <2>1. guard = Nobody /\ record' = record /\ owned' = owned
      BY <1>2 DEF EnterGuard
    <2>2. CASE UNCHANGED <<guard, engineVars>>
                 /\ call' \in {[call EXCEPT ![r] = "lock"], [call EXCEPT ![r] = "idle"]}
      BY <2>1, <2>2, <1>t, <1>s DEF TypeOK
    <2>3. CASE /\ guard' = [by |-> "call", run |-> r, at |-> "ensure"]
               /\ call' = [call EXCEPT ![r] = "intent"] /\ UNCHANGED engineVars
      BY <2>1, <2>3, <1>t, <1>s DEF TypeOK, Nobody
    <2>4. CASE /\ guard' = [by |-> "call", run |-> r, at |-> "ensure"]
               /\ call' = [call EXCEPT ![r] = "run"] /\ ~ owned
      BY <2>1, <2>4, <1>t, <1>s DEF TypeOK, Nobody
    <2>5. CASE /\ guard' = [by |-> "call", run |-> r, at |-> "look"]
               /\ call' = [call EXCEPT ![r] = "undo"] /\ UNCHANGED engineVars
      BY <2>1, <2>5, <1>t, <1>s DEF TypeOK, Nobody
    <2>q. QED BY <1>2, <2>2, <2>3, <2>4, <2>5 DEF EnterGuard
  <1>3. CASE CreateIntent(r)
    BY <1>3, <1>t, <1>s DEF TypeOK, CreateIntent, Submit, Nobody, Mishap
  <1>4. CASE RunAnswers(r)
    BY <1>4, <1>t, <1>s DEF TypeOK, RunAnswers, Known, Nobody
  <1>5. CASE RunFails(r)
    BY <1>5, <1>t, <1>s DEF TypeOK, RunFails, Undo, Mishap
  <1>6. CASE ConfirmIdentity(r)
    BY <1>6, <1>t, <1>s DEF TypeOK, ConfirmIdentity, Known, Undo, Nobody, Mishap
  <1>7. CASE StartExec(r) \/ ExecReturns(r) \/ ExecBreaks(r)
    BY <1>7, <1>t, <1>s DEF TypeOK, StartExec, ExecReturns, ExecBreaks, KeepsWorkspace, Mishap
  <1>8. CASE Drop(r)
    BY <1>8, <1>t, <1>s DEF TypeOK, Drop, StartRemoval, FirstStep, Nobody
  <1>q. QED BY <1>1, <1>2, <1>3, <1>4, <1>5, <1>6, <1>7, <1>8, <1>9 DEF CallStep, Cancelled

\* Every step keeps the facts about records.
LEMMA NextKeepsRecordInv == RecordInv /\ [Next]_vars => RecordInv'
  <1> SUFFICES ASSUME RecordInv, [Next]_vars PROVE RecordInv'
    OBVIOUS
  <1> USE DEF RecordInv
  <1>t. TypeOK'
    BY NextTypes
  <1>1. CASE UNCHANGED vars
    BY <1>1, <1>t DEF vars, StopLeft, ContainersAreRecorded, Held, ConfirmedExisted, VerifiedIsAbsent,
       StartsHoldGuard
  <1>2. ASSUME NEW r \in Runs, DaemonCreates(r) \/ DaemonDrops(r) \/ ContainerDies(r)
        PROVE  RecordInv'
    BY <1>t, <1>2 DEF TypeOK, StopLeft, DaemonCreates, DaemonDrops, ContainerDies, Mishap,
       ContainersAreRecorded, Held, ConfirmedExisted, VerifiedIsAbsent, StartsHoldGuard
  <1>3. ASSUME NEW r \in Runs, CleanupRun(r) \/ SweepNext(r)
        PROVE  RecordInv'
    BY <1>t, <1>3 DEF TypeOK, StopLeft, CleanupRun, SweepNext, StartRemoval, FirstStep, Nobody,
       ContainersAreRecorded, Held, ConfirmedExisted, VerifiedIsAbsent, StartsHoldGuard
  <1>4. CASE Shutdown \/ Reap
    BY <1>4, <1>t DEF TypeOK, StopLeft, Shutdown, Reap, ReapsAll, Mishap, Nobody,
       ContainersAreRecorded, Held, ConfirmedExisted, VerifiedIsAbsent, StartsHoldGuard
  <1>5. CASE Stopped \/ Crash
    BY <1>5, <1>t DEF TypeOK, StopLeft, Stopped, Crash, ProcessGone, Nobody,
       ContainersAreRecorded, Held, ConfirmedExisted, VerifiedIsAbsent, StartsHoldGuard
  <1>6. CASE Recover \/ Serve
    BY <1>6, <1>t DEF TypeOK, StopLeft, Recover, Serve,
       ContainersAreRecorded, Held, ConfirmedExisted, VerifiedIsAbsent, StartsHoldGuard
  <1>q. QED BY <1>1, <1>2, <1>3, <1>4, <1>5, <1>6, RemovalKeepsRecordInv, CallKeepsRecordInv DEF Next

-------------------------------------------------------------------------------
(* Cleanups *)

\* A removal that ends: of the runs only the one it is for is settled, if it succeeded.
LEMMA FinishSettles ==
  ASSUME RecordInv, CleanupInv, NEW r \in Runs, guard.run = r, guard.at # "ensure", NEW ok, Finish(r, ok)
  PROVE  /\ CallsNeedService' /\ CleanupIsLast' /\ KnownIsKnown'
         /\ \A q \in Runs : call'[q] \in {call[q], "idle"}
         /\ \A q \in Runs : run'[q] = "gone" => run[q] = "gone" \/ (ok /\ q = r /\ call'[q] = "idle")
         /\ phase' = phase \/ phase' = "down"
  BY DEF RecordInv, TypeOK, Finish, Nobody, CleanupInv, CallsNeedService, CleanupIsLast, KnownIsKnown

\* A removal that goes on settles nothing.
LEMMA AdvanceSettles ==
  ASSUME RecordInv, CleanupInv, NEW at \in {"look", "rm", "verify"}, Advance(at)
  PROVE  /\ CallsNeedService' /\ CleanupIsLast' /\ KnownIsKnown'
         /\ UNCHANGED <<call, run, phase, todo>>
  BY DEF RecordInv, TypeOK, Guard, Advance, CleanupInv, CallsNeedService, CleanupIsLast, KnownIsKnown

\* The facts about cleanups survive every step of a removal.
LEMMA RemovalKeepsCleanupInv ==
  ASSUME RecordInv, CleanupInv, NEW r \in Runs, Removal(r)
  PROVE  CleanupInv'
  <1>e. /\ guard.at # "ensure" /\ guard.run = r /\ owned' = owned
        /\ box' \in {box, [box EXCEPT ![r] = "none"]}
    BY DEF Removal, Inspect, Rm, Verify, RmKnown, InspectName, RmName, Removed, Mishap
  <1>i. (\A q \in Runs : call'[q] \in {call[q], "idle"}) => IntentIsNew'
    BY <1>e DEF RecordInv, StartsHoldGuard, IntentIsNew
  <1>g. ASSUME \A q \in Runs : call'[q] \in {call[q], "idle"},
               \A q \in Runs : run'[q] = "gone" => run[q] = "gone" \/ (box'[q] = "none" /\ call'[q] = "idle")
        PROVE  GoneIsGone'
    BY <1>g, <1>e DEF RecordInv, TypeOK, CleanupInv, GoneIsGone
  <1>1. CASE Inspect(r)
    <2>1. CASE box[r] = "up" /\ record' = [record EXCEPT ![r] = "confirmed"] /\ Advance("rm")
      <3>1. record[r] # "none" /\ owned
        BY <1>1, <2>1 DEF Inspect, RecordInv, ContainersAreRecorded, Held
      <3>2. ServingKnowsAll' /\ RecoveryHasAll'
        BY <1>1, <1>e, <2>1, <3>1, AdvanceSettles
        DEF Inspect, RecordInv, TypeOK, CleanupInv, ServingKnowsAll, RecoveryHasAll
      <3>q. QED BY <2>1, <3>2, <1>i, <1>g, AdvanceSettles DEF CleanupInv
    <2>2. CASE record' = record /\ Advance("verify")
      <3>1. ServingKnowsAll' /\ RecoveryHasAll'
        BY <1>1, <1>e, <2>2, AdvanceSettles DEF Inspect, CleanupInv, ServingKnowsAll, RecoveryHasAll
      <3>q. QED BY <2>2, <3>1, <1>i, <1>g, AdvanceSettles DEF CleanupInv
    <2>3. CASE record' = record /\ Finish(r, FALSE)
      <3>1. ServingKnowsAll' /\ RecoveryHasAll'
        BY <1>1, <1>e, <2>3, FinishSettles DEF Inspect, Finish, CleanupInv, ServingKnowsAll, RecoveryHasAll
      <3>q. QED BY <1>e, <2>3, <3>1, <1>i, <1>g, FinishSettles DEF CleanupInv
    <2>q. QED BY <1>1, <2>1, <2>2, <2>3 DEF Inspect
  <1>2. CASE Rm(r)
    <2>1. owned /\ UNCHANGED <<record, knownVars>> /\ (Advance("verify") \/ Finish(r, FALSE))
      BY <1>2 DEF Rm
    <2>2. ServingKnowsAll' /\ RecoveryHasAll'
      BY <1>e, <2>1, FinishSettles, AdvanceSettles DEF Finish, CleanupInv, ServingKnowsAll, RecoveryHasAll
    <2>q. QED BY <1>e, <2>1, <2>2, <1>i, <1>g, FinishSettles, AdvanceSettles DEF CleanupInv
  <1>3. CASE Verify(r)
    <2>1. owned /\ box' = box /\ box[r] = "none"
      BY <1>3, <1>e DEF Verify, RecordInv, VerifiedIsAbsent
    <2>2. CASE record' = [record EXCEPT ![r] = "none"] /\ Forget(r) /\ Finish(r, TRUE)
      <3>1. ServingKnowsAll' /\ RecoveryHasAll'
        BY <1>e, <2>1, <2>2, FinishSettles
        DEF Forget, Finish, RecordInv, TypeOK, CleanupInv, ServingKnowsAll, RecoveryHasAll
      <3>q. QED BY <1>e, <2>1, <2>2, <3>1, <1>i, <1>g, FinishSettles DEF CleanupInv
    <2>3. CASE UNCHANGED <<record, knownVars>> /\ Finish(r, FALSE)
      <3>1. ServingKnowsAll' /\ RecoveryHasAll'
        BY <1>e, <2>1, <2>3, FinishSettles DEF Finish, CleanupInv, ServingKnowsAll, RecoveryHasAll
      <3>q. QED BY <1>e, <2>3, <3>1, <1>i, <1>g, FinishSettles DEF CleanupInv
    <2>q. QED BY <1>3, <2>2, <2>3 DEF Verify
  <1>4. CASE RmKnown(r)
    <2>1. ~ owned /\ r \in boxes /\ (Advance("look") \/ Finish(r, r \notin boxes'))
      BY <1>4 DEF RmKnown, CleanupInv, KnownIsKnown
    <2>2. r \notin boxes' => box'[r] = "none"
      BY <1>4, <2>1 DEF RmKnown, Removed, RecordInv, TypeOK
    <2>3. ServingKnowsAll' /\ RecoveryHasAll'
      BY <1>4, <1>e, <2>1, FinishSettles, AdvanceSettles
      DEF RmKnown, Removed, RecordInv, TypeOK, CleanupInv, ServingKnowsAll, RecoveryHasAll
    <2>q. QED BY <1>e, <2>1, <2>2, <2>3, <1>i, <1>g, FinishSettles, AdvanceSettles DEF CleanupInv
  <1>5. CASE InspectName(r)
    <2>1. ~ owned /\ UNCHANGED <<engineVars, knownVars>> /\ (Advance("rm") \/ Finish(r, FALSE))
      BY <1>5 DEF InspectName
    <2>2. ServingKnowsAll' /\ RecoveryHasAll'
      BY <1>e, <2>1, FinishSettles, AdvanceSettles DEF CleanupInv, ServingKnowsAll, RecoveryHasAll
    <2>q. QED BY <1>e, <2>1, <2>2, <1>i, <1>g, FinishSettles, AdvanceSettles DEF CleanupInv
  <1>6. CASE RmName(r)
    <2>1. ~ owned /\ UNCHANGED <<record, managed, boxes>>
      BY <1>6 DEF RmName
    <2>2. CASE Removed(r) /\ unsure' = unsure \ {r} /\ Finish(r, r \notin boxes)
      <3>1. box'[r] = "none"
        BY <2>2 DEF Removed, RecordInv, TypeOK
      <3>2. ServingKnowsAll' /\ RecoveryHasAll'
        BY <1>e, <2>1, <2>2, <3>1, FinishSettles
        DEF Removed, RecordInv, TypeOK, CleanupInv, ServingKnowsAll, RecoveryHasAll
      <3>q. QED BY <1>e, <2>2, <3>1, <3>2, <1>i, <1>g, FinishSettles DEF CleanupInv
    <2>3. CASE UNCHANGED <<engineVars, unsure>> /\ Finish(r, FALSE)
      <3>1. ServingKnowsAll' /\ RecoveryHasAll'
        BY <1>e, <2>1, <2>3, FinishSettles DEF CleanupInv, ServingKnowsAll, RecoveryHasAll
      <3>q. QED BY <1>e, <2>3, <3>1, <1>i, <1>g, FinishSettles DEF CleanupInv
    <2>q. QED BY <1>6, <2>2, <2>3 DEF RmName
  <1>q. QED BY <1>1, <1>2, <1>3, <1>4, <1>5, <1>6 DEF Removal

\* So do they every step of a tool call.
LEMMA CallKeepsCleanupInv ==
  ASSUME RecordInv, CleanupInv, NEW r \in Runs, Execute(r) \/ CallStep(r) \/ Cancelled(r)
  PROVE  CleanupInv'
  <1> DEFINE Rest == /\ phase' = "up" /\ todo' = todo /\ owned' = owned /\ run[r] # "gone"
                     /\ run' \in {run, [run EXCEPT ![r] = "open"]}
                     /\ ~ (guard.by = "service" /\ guard.run = r)
                     /\ \A q \in Runs \ {r} : call'[q] = call[q] /\ box'[q] = box[q] /\ record'[q] = record[q]
  <1>1. phase = "up" /\ run[r] # "gone" /\ ~ (guard.by = "service" /\ guard.run = r)
    <2>1. CASE Execute(r)
      BY <2>1 DEF Execute, CleanupInv, CleanupIsLast
    <2>2. CASE call[r] # "idle"
      BY <2>2 DEF CleanupInv, CallsNeedService, GoneIsGone, CleanupIsLast
    <2>q. QED BY <2>1, <2>2 DEF CallStep, Cancelled, CancelWaiting, LosesShield, CutShort, EnterGuard, CreateIntent, RunAnswers, RunFails,
       ConfirmIdentity, StartExec, ExecReturns, ExecBreaks, Drop
  <1>2. Rest
    <2>1. CASE Execute(r) \/ CancelWaiting(r) \/ LosesShield(r)
      BY <1>1, <2>1 DEF Execute, CancelWaiting, LosesShield, Mishap, RecordInv, TypeOK
    <2>5. CASE CutShort(r)
      BY <1>1, <2>5 DEF CutShort, RemovesOwn, Finish, Removed, Mishap, RecordInv, TypeOK
    <2>2. CASE EnterGuard(r) \/ CreateIntent(r)
      BY <1>1, <2>2 DEF EnterGuard, CreateIntent, Submit, Mishap, RecordInv, TypeOK
    <2>3. CASE RunAnswers(r) \/ RunFails(r) \/ ConfirmIdentity(r)
      BY <1>1, <2>3 DEF RunAnswers, RunFails, ConfirmIdentity, Known, Undo, Mishap, RecordInv, TypeOK
    <2>4. CASE StartExec(r) \/ ExecReturns(r) \/ ExecBreaks(r) \/ Drop(r)
      BY <1>1, <2>4 DEF StartExec, ExecReturns, ExecBreaks, Drop, Mishap, RecordInv, TypeOK
    <2>q. QED BY <2>1, <2>2, <2>3, <2>4, <2>5 DEF CallStep, Cancelled
  <1> HIDE DEF Rest
  <1>3. RecoveryHasAll' /\ CallsNeedService'
    BY <1>2 DEF Rest, RecoveryHasAll, CallsNeedService
  <1>4. GoneIsGone'
    BY <1>2 DEF Rest, RecordInv, TypeOK, CleanupInv, GoneIsGone
  <1>5. ServingKnowsAll' /\ IntentIsNew' /\ CleanupIsLast' /\ KnownIsKnown'
    <2> USE DEF ServingKnowsAll, IntentIsNew, CleanupIsLast, KnownIsKnown, Nobody
    <2>1. CASE Execute(r) \/ CancelWaiting(r) \/ LosesShield(r)
      BY <1>1, <2>1 DEF Execute, CancelWaiting, LosesShield, Mishap, RecordInv, TypeOK, CleanupInv
    <2>9. CASE CutShort(r)
      BY <1>1, <2>9 DEF CutShort, RemovesOwn, Finish, Removed, Mishap, RecordInv, TypeOK, CleanupInv
    <2>2. CASE EnterGuard(r)
      BY <1>1, <2>2 DEF EnterGuard, Submit, RecordInv, TypeOK, CleanupInv
    <2>3. CASE CreateIntent(r)
      BY <1>1, <2>3 DEF CreateIntent, Submit, Mishap, RecordInv, TypeOK, StartsHoldGuard, CleanupInv
    <2>4. CASE RunAnswers(r)
      BY <1>1, <2>4 DEF RunAnswers, Known, RecordInv, TypeOK, StartsHoldGuard, CleanupInv
    <2>5. CASE RunFails(r)
      BY <1>1, <2>5 DEF RunFails, Undo, Mishap, RecordInv, TypeOK, StartsHoldGuard, CleanupInv
    <2>6. CASE ConfirmIdentity(r)
      BY <1>1, <2>6 DEF ConfirmIdentity, Known, Undo, Mishap, RecordInv, TypeOK, StartsHoldGuard, CleanupInv,
         ContainersAreRecorded, Held
    <2>7. CASE StartExec(r) \/ ExecReturns(r) \/ ExecBreaks(r)
      BY <1>1, <2>7 DEF StartExec, ExecReturns, ExecBreaks, Mishap, RecordInv, TypeOK, CleanupInv
    <2>8. CASE Drop(r)
      BY <1>1, <2>8 DEF Drop, StartRemoval, FirstStep, RecordInv, TypeOK, CleanupInv
    <2>q. QED BY <2>1, <2>2, <2>3, <2>4, <2>5, <2>6, <2>7, <2>8, <2>9 DEF CallStep, Cancelled
  <1>q. QED BY <1>3, <1>4, <1>5 DEF CleanupInv

\* Every step keeps the facts about cleanups: whoever confirms one has seen everything removed.
LEMMA NextKeepsCleanupInv == RecordInv /\ CleanupInv /\ [Next]_vars => CleanupInv'
  <1> SUFFICES ASSUME RecordInv, CleanupInv, [Next]_vars PROVE CleanupInv'
    OBVIOUS
  <1> USE DEF CleanupInv
  <1>1. CASE UNCHANGED vars
    BY <1>1 DEF vars, ServingKnowsAll, RecoveryHasAll, CallsNeedService, IntentIsNew, CleanupIsLast,
       KnownIsKnown, GoneIsGone
  <1>2. ASSUME NEW r \in Runs, DaemonCreates(r) \/ DaemonDrops(r) \/ ContainerDies(r)
        PROVE  CleanupInv'
    BY <1>2 DEF RecordInv, TypeOK, DaemonCreates, DaemonDrops, ContainerDies, Mishap,
       ServingKnowsAll, RecoveryHasAll, CallsNeedService, IntentIsNew, CleanupIsLast, KnownIsKnown, GoneIsGone
  <1>3. ASSUME NEW r \in Runs, CleanupRun(r) PROVE CleanupInv'
    <2>1. r \notin Pending => box[r] = "none"
      BY <1>3 DEF CleanupRun, Pending, RecordInv, TypeOK, ContainersAreRecorded, Held, ServingKnowsAll
    <2>q. QED BY <1>3, <2>1 DEF RecordInv, TypeOK, CleanupRun, StartRemoval, FirstStep, Nobody,
       ServingKnowsAll, RecoveryHasAll, CallsNeedService, IntentIsNew, CleanupIsLast, KnownIsKnown, GoneIsGone
  <1>4. ASSUME NEW r \in Runs, SweepNext(r) PROVE CleanupInv'
    BY <1>4 DEF RecordInv, TypeOK, SweepNext, StartRemoval, FirstStep, Nobody,
       ServingKnowsAll, RecoveryHasAll, CallsNeedService, IntentIsNew, CleanupIsLast, KnownIsKnown, GoneIsGone
  <1>5. CASE Shutdown
    BY <1>5 DEF Shutdown, Nobody,
       ServingKnowsAll, RecoveryHasAll, CallsNeedService, IntentIsNew, CleanupIsLast, KnownIsKnown, GoneIsGone
  <1>6. CASE Reap
    BY <1>6 DEF RecordInv, TypeOK, Reap, ReapsAll, Mishap, Nobody,
       ServingKnowsAll, RecoveryHasAll, CallsNeedService, IntentIsNew, CleanupIsLast, KnownIsKnown, GoneIsGone
  <1>7. CASE Stopped \/ Crash
    BY <1>7 DEF RecordInv, TypeOK, Stopped, Crash, ProcessGone, Nobody,
       ServingKnowsAll, RecoveryHasAll, CallsNeedService, IntentIsNew, CleanupIsLast, KnownIsKnown, GoneIsGone
  <1>8. CASE Recover
    BY <1>8 DEF RecordInv, TypeOK, Recover, LeftBehind,
       ServingKnowsAll, RecoveryHasAll, CallsNeedService, IntentIsNew, CleanupIsLast, KnownIsKnown, GoneIsGone
  <1>9. CASE Serve
    <2>1. owned /\ \A r \in Runs : record[r] = "none" /\ box[r] = "none" /\ call[r] = "idle"
      BY <1>9 DEF Serve, RecordInv, TypeOK, ContainersAreRecorded, Held, RecoveryHasAll, CallsNeedService
    <2>q. QED BY <1>9, <2>1 DEF RecordInv, TypeOK, Serve, Nobody,
       ServingKnowsAll, RecoveryHasAll, CallsNeedService, IntentIsNew, CleanupIsLast, KnownIsKnown, GoneIsGone
  <1>q. QED BY <1>1, <1>2, <1>3, <1>4, <1>5, <1>6, <1>7, <1>8, <1>9,
              RemovalKeepsCleanupInv, CallKeepsCleanupInv DEF Next

-------------------------------------------------------------------------------
(* Writers *)

\* A removal kills workers and starts none; one that succeeds leaves no container.
LEMMA RemovalKills ==
  ASSUME RecordInv, CleanupInv, WriterInv, NEW r \in Runs, Removal(r)
  PROVE  /\ guard.run = r
         /\ \/ UNCHANGED engineVars
            \/ Removed(r)
         /\ \/ \E at \in {"look", "rm", "verify"} : Advance(at)
            \/ Finish(r, FALSE)
            \/ \E ok \in BOOLEAN : Finish(r, ok) /\ ~ work'[r]
  <1> USE DEF RecordInv, TypeOK, CleanupInv, WriterInv, WorkNeedsBox
  <1>1. CASE Inspect(r)
    BY <1>1 DEF Inspect
  <1>2. CASE Rm(r)
    BY <1>2 DEF Rm
  <1>3. CASE Verify(r)
    <2>1. box[r] = "none" /\ guard.run = r /\ UNCHANGED engineVars
      BY <1>3 DEF Verify, VerifiedIsAbsent
    <2>2. ~ work'[r]
      BY <2>1
    <2>q. QED BY <1>3, <2>1, <2>2 DEF Verify, Forget
  <1>4. CASE RmKnown(r)
    <2>1. guard.run = r /\ r \in boxes
      BY <1>4 DEF RmKnown, KnownIsKnown
    <2>2. CASE Removed(r) /\ boxes' = boxes \ {r}
      BY <1>4, <2>1, <2>2 DEF RmKnown, Removed
    <2>3. CASE UNCHANGED <<engineVars, boxes>>
      BY <1>4, <2>1, <2>3 DEF RmKnown
    <2>q. QED BY <1>4, <2>2, <2>3 DEF RmKnown
  <1>5. CASE InspectName(r)
    BY <1>5 DEF InspectName
  <1>6. CASE RmName(r)
    <2>1. Removed(r) => ~ work'[r]
      BY DEF Removed
    <2>2. (r \notin boxes) \in BOOLEAN
      OBVIOUS
    <2>q. QED BY <1>6, <2>1, <2>2 DEF RmName
  <1>q. QED BY <1>1, <1>2, <1>3, <1>4, <1>5, <1>6 DEF Removal

\* The facts about writers survive every step of a removal.
LEMMA RemovalKeepsWriterInv ==
  ASSUME RecordInv, CleanupInv, WriterInv, NEW r \in Runs, Removal(r)
  PROVE  WriterInv'
  <1> USE DEF RecordInv, TypeOK, WriterInv, WorkNeedsBox, ExecHoldsWorkspace,
              WorkersHoldWorkspace, WritersAreExclusive
  <1>1. WorkNeedsBox' /\ \A q \in Runs : work'[q] => work[q]
    BY RemovalKills DEF Removed
  <1>2. CASE \E at \in {"look", "rm", "verify"} : Advance(at)
    BY <1>1, <1>2, RemovalKills DEF Advance
  <1>3. CASE Finish(r, FALSE)
    BY <1>1, <1>3, RemovalKills DEF Finish
  <1>4. ASSUME NEW ok \in BOOLEAN, Finish(r, ok), ~ work'[r] PROVE WriterInv'
    BY <1>1, <1>4, RemovalKills DEF Finish
  <1>q. QED BY <1>2, <1>3, <1>4, RemovalKills

\* And every step of a tool call: a worker is started only by who holds the workspace.
LEMMA CallKeepsWriterInv ==
  ASSUME RecordInv, CleanupInv, WriterInv, NEW r \in Runs, Execute(r) \/ CallStep(r) \/ Cancelled(r)
  PROVE  WriterInv'
  <1> USE DEF RecordInv, TypeOK, WriterInv, WorkNeedsBox, ExecHoldsWorkspace,
              WorkersHoldWorkspace, WritersAreExclusive
  <1>1. CASE Execute(r) \/ CancelWaiting(r) \/ LosesShield(r)
    BY <1>1 DEF Execute, CancelWaiting, LosesShield, Mishap
  <1>9. CASE CutShort(r)
    <2>1. blocked' = blocked \union {r} /\ (UNCHANGED engineVars \/ Removed(r))
      BY <1>9 DEF CutShort, Finish
    <2>2. phase' = phase \/ phase' # "up"
      BY <1>9 DEF CutShort, Finish
    <2>3. call' = [call EXCEPT ![r] = "idle"]
      BY <1>9 DEF CutShort, RemovesOwn, Finish
    <2>4. \A q \in Runs \ {r} : wlock = q => wlock' = q
      <3>1. CASE Finish(r, FALSE)
        BY <3>1 DEF Finish
      <3>2. CASE call[r] = "drop" /\ wlock' = NoRun
        BY <3>2
      <3>q. QED BY <1>9, <3>1, <3>2 DEF CutShort
    <2>q. QED BY <2>1, <2>2, <2>3, <2>4 DEF Removed
  <1>2. CASE EnterGuard(r)
    BY <1>2 DEF EnterGuard, Submit, CleanupInv, CallsNeedService
  <1>3. CASE CreateIntent(r)
    <2>1. box[r] = "none" /\ ~ work[r]
      BY <1>3 DEF CreateIntent, CleanupInv, CallsNeedService, IntentIsNew, ServingKnowsAll,
         ContainersAreRecorded, Held
    <2>q. QED BY <1>3, <2>1 DEF CreateIntent, Submit
  <1>4. CASE RunAnswers(r) \/ RunFails(r) \/ ConfirmIdentity(r)
    BY <1>4 DEF RunAnswers, RunFails, ConfirmIdentity, Known, Undo
  <1>5. CASE StartExec(r)
    BY <1>5, SandboxAssumption DEF StartExec, CleanupInv, CallsNeedService
  <1>6. CASE ExecReturns(r)
    BY <1>6 DEF ExecReturns
  <1>7. CASE ExecBreaks(r)
    BY <1>7 DEF ExecBreaks, KeepsWorkspace
  <1>8. CASE Drop(r)
    BY <1>8 DEF Drop
  <1>q. QED BY <1>1, <1>2, <1>3, <1>4, <1>5, <1>6, <1>7, <1>8, <1>9 DEF CallStep, Cancelled

\* Every step keeps the facts about writers.
LEMMA NextKeepsWriterInv == RecordInv /\ CleanupInv /\ WriterInv /\ [Next]_vars => WriterInv'
  <1> SUFFICES ASSUME RecordInv, CleanupInv, WriterInv, [Next]_vars PROVE WriterInv'
    OBVIOUS
  <1> USE DEF RecordInv, TypeOK, WriterInv, WorkNeedsBox, ExecHoldsWorkspace,
              WorkersHoldWorkspace, WritersAreExclusive
  <1>1. CASE UNCHANGED vars
    BY <1>1 DEF vars
  <1>2. ASSUME NEW r \in Runs, DaemonCreates(r) \/ DaemonDrops(r) \/ ContainerDies(r)
        PROVE  WriterInv'
    BY <1>2 DEF DaemonCreates, DaemonDrops, ContainerDies
  <1>3. ASSUME NEW r \in Runs, CleanupRun(r) \/ SweepNext(r) PROVE WriterInv'
    BY <1>3 DEF CleanupRun, SweepNext
  <1>4. CASE Shutdown \/ Reap
    BY <1>4 DEF Shutdown, Reap, ReapsAll, CleanupInv, CallsNeedService
  <1>5. CASE Stopped \/ Crash
    BY <1>5 DEF Stopped, Crash, ProcessGone
  <1>6. CASE Recover
    BY <1>6 DEF Recover
  <1>7. CASE Serve
    <2>1. \A r \in Runs : box[r] = "none"
      BY <1>7 DEF Serve, ContainersAreRecorded, Held, CleanupInv, RecoveryHasAll
    <2>q. QED BY <1>7, <2>1 DEF Serve, CleanupInv, CallsNeedService
  <1>q. QED BY <1>1, <1>2, <1>3, <1>4, <1>5, <1>6, <1>7,
              RemovalKeepsWriterInv, CallKeepsWriterInv DEF Next

-------------------------------------------------------------------------------
(* The theorems *)

\* The invariant holds initially.
LEMMA InitInv == Init => Inv
  <1> SUFFICES ASSUME Init PROVE Inv
    OBVIOUS
  <1>1. TypeOK
    <2>1. owned \in BOOLEAN /\ mishaps \in 0..Mishaps /\ stops \in 0..Stops
      BY SandboxAssumption DEF Init
    <2>2. "new" \in RunState
      BY DEF RunState
    <2>3. /\ box \in [Runs -> BoxState] /\ record \in [Runs -> RecordState]
          /\ call \in [Runs -> CallState] /\ run \in [Runs -> RunState]
          /\ work \in [Runs -> BOOLEAN]
      BY <2>2, Values DEF Init
    <2>q. QED BY <2>1, <2>3, Values DEF Init, TypeOK
  <1>2. RecordInv
    BY <1>1 DEF Init, RecordInv, StopLeft, ContainersAreRecorded, Held, ConfirmedExisted, VerifiedIsAbsent,
       StartsHoldGuard, Nobody
  <1>3. CleanupInv
    BY DEF Init, CleanupInv, ServingKnowsAll, RecoveryHasAll, CallsNeedService, IntentIsNew, CleanupIsLast,
       KnownIsKnown, GoneIsGone, Nobody
  <1>4. WriterInv
    BY DEF Init, WriterInv, WorkNeedsBox, ExecHoldsWorkspace, WorkersHoldWorkspace, WritersAreExclusive
  <1>q. QED BY <1>2, <1>3, <1>4 DEF Inv

\* And for ever after.
THEOREM InvHolds == Spec => []Inv
  <1>1. Inv /\ [Next]_vars => Inv'
    BY NextKeepsRecordInv, NextKeepsCleanupInv, NextKeepsWriterInv DEF Inv
  <1>q. QED BY InitInv, <1>1, PTL DEF Spec

\* Every variable keeps its type, the counters their bounds.
THEOREM SandboxTypeCorrect == Spec => []TypeOK
  <1>1. Inv => TypeOK
    BY DEF Inv, RecordInv
  <1>q. QED BY InvHolds, <1>1, PTL

(***************************************************************************)
(* A container the engine has, or may still make, is on record, whatever   *)
(* fails and whenever the process dies: SandboxOwner.create_intent before  *)
(* docker run, and the record deleted only after _confirm_absent.          *)
(***************************************************************************)
THEOREM ContainersAlwaysRecorded == Spec => []ContainersAreRecorded
  <1>1. Inv => ContainersAreRecorded
    BY DEF Inv, RecordInv
  <1>q. QED BY InvHolds, <1>1, PTL

(***************************************************************************)
(* Two runs never change the workspace at once unless a removal failed or  *)
(* was cut short by a cancellation: DockerRuntime.execute keeps its lock   *)
(* until the worker is gone or the await of cleanup_run is given up.       *)
(***************************************************************************)
THEOREM WritersAlwaysExclusive == Spec => []WritersAreExclusive
  <1>1. Inv => WritersAreExclusive
    BY DEF Inv, WriterInv
  <1>q. QED BY InvHolds, <1>1, PTL

\* Only a tool call acquires, and what acquires was never confirmed.
LEMMA CallsAcquire ==
  ASSUME Inv, NEW r \in Runs, Execute(r) \/ CallStep(r) \/ Cancelled(r)
  PROVE  \/ Held' \in {Held, Held \union {r}} /\ Gone' = Gone /\ r \notin Gone
         \/ Held' \subseteq Held /\ Gone' = Gone
  <1> USE DEF Inv, RecordInv, TypeOK
  <1>1. CASE CutShort(r)
    <2>1. run' = run
      BY <1>1 DEF CutShort, RemovesOwn, Finish
    <2>2. UNCHANGED engineVars \/ Removed(r)
      BY <1>1 DEF CutShort
    <2>q. QED BY <2>1, <2>2 DEF Held, Gone, Removed
  <1>2. CASE Execute(r) \/ CallStep(r) \/ CancelWaiting(r) \/ LosesShield(r)
    <2>1. r \notin Gone
      BY <1>2 DEF CleanupInv, GoneIsGone, Gone, Execute, CallStep, CancelWaiting, LosesShield,
         EnterGuard, CreateIntent, RunAnswers, RunFails, ConfirmIdentity, StartExec, ExecReturns, ExecBreaks,
         Drop
    <2>2. box' \in {box, [box EXCEPT ![r] = "asked"]} /\ run' \in {run, [run EXCEPT ![r] = "open"]}
      BY <1>2 DEF Execute, CallStep, CancelWaiting, LosesShield, EnterGuard, CreateIntent, RunAnswers,
         RunFails, ConfirmIdentity, StartExec, ExecReturns, ExecBreaks, Drop, Submit
    <2>3. Gone' = Gone
      BY <2>1, <2>2 DEF Gone
    <2>4. Held' \in {Held, Held \union {r}}
      BY <2>2 DEF Held
    <2>q. QED BY <2>1, <2>3, <2>4
  <1>q. QED BY <1>1, <1>2 DEF Cancelled

\* Nothing else does, and no cleanup is taken back.
LEMMA OthersRelease ==
  ASSUME Inv, Next
  PROVE  \/ Held' \subseteq Held /\ Gone \subseteq Gone'
         \/ \E r \in Runs : Execute(r) \/ CallStep(r) \/ Cancelled(r)
  <1> USE DEF Inv, RecordInv, TypeOK, Held, Gone
  <1>1. ASSUME NEW r \in Runs, DaemonCreates(r) \/ DaemonDrops(r) \/ ContainerDies(r)
        PROVE  Held' \subseteq Held /\ Gone \subseteq Gone'
    BY <1>1 DEF DaemonCreates, DaemonDrops, ContainerDies
  <1>2. ASSUME NEW r \in Runs, Removal(r)
        PROVE  Held' \subseteq Held /\ Gone \subseteq Gone'
    BY <1>2, RemovalKills DEF Removed, Advance, Finish
  <1>3. ASSUME NEW r \in Runs, CleanupRun(r) \/ SweepNext(r)
        PROVE  Held' \subseteq Held /\ Gone \subseteq Gone'
    BY <1>3 DEF CleanupRun, SweepNext
  <1>4. CASE Shutdown \/ Reap \/ Recover
    BY <1>4 DEF Shutdown, Reap, ReapsAll, Recover
  <1>5. CASE Stopped \/ Crash \/ Serve
    BY <1>5 DEF Stopped, Crash, ProcessGone, Serve
  <1>q. QED BY <1>1, <1>2, <1>3, <1>4, <1>5 DEF Next

(***************************************************************************)
(* The containers implement the contract: after a confirmed cleanup, by    *)
(* cleanup_run or by recover_core_sandboxes, nothing of a run exists, and  *)
(* nothing ever appears again.                                             *)
(***************************************************************************)
THEOREM SandboxImplementsContract == Spec => ContractSpec
  <1>1. Init => Contract!Init
    BY DEF Init, Contract!Init, Held, Gone
  <1>2. Inv /\ Inv' /\ [Next]_vars => [Contract!Next]_<<Held, Gone>>
    <2> SUFFICES ASSUME Inv, Inv', [Next]_vars PROVE [Contract!Next]_<<Held, Gone>>
      OBVIOUS
    <2>1. CASE UNCHANGED vars
      BY <2>1 DEF vars, Held, Gone
    <2>2. ASSUME NEW r \in Runs, Execute(r) \/ CallStep(r) \/ Cancelled(r)
          PROVE  \/ [Contract!Next]_<<Held, Gone>>
                 \/ Held' \subseteq Held /\ Gone \subseteq Gone'
      BY <2>2, CallsAcquire DEF Contract!Next, Contract!Acquire
    <2>3. CASE Held' \subseteq Held /\ Gone \subseteq Gone'
      <3>1. Gone' \intersect Held' = {} /\ Gone' \subseteq Runs
        BY DEF Inv, CleanupInv, GoneIsGone, Gone, Held
      <3>q. QED BY <2>3, <3>1 DEF Contract!Next, Contract!Confirm
    <2>q. QED BY <2>1, <2>2, <2>3, OthersRelease
  <1>q. QED BY InvHolds, <1>1, <1>2, PTL DEF Spec, ContractSpec, Contract!Spec

===============================================================================
