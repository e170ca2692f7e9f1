------------------------- MODULE RunLifecycle_proofs -------------------------
(***************************************************************************)
(* What holds of RunLifecycle for any sets of sessions, runs, callers,     *)
(* keys and tools, and any number of stops.                                *)
(***************************************************************************)
EXTENDS RunLifecycle, TLAPS

USE DEF vars, sessionVars, originVars, pastVars, runVars, toolVars, taskVars, cleanVars,
        daemonVars, eventVars

-------------------------------------------------------------------------------
(* Well-formed states: the types, and what the types alone do not say      *)

(***************************************************************************)
(* A task that is about to record an outcome has one: without this the     *)
(* status of a settled run could be the "none" of a task at work.          *)
(***************************************************************************)
OutcomesKnown ==
    \A r \in Runs : task[r] \in {"abort", "finish"} => outcome[r] \in Terminal

\* A run belongs to a session and a turn exactly when it exists.
OriginsKnown ==
    \A r \in Runs :
        /\ status[r] = "absent" => turn[r] = NoRun /\ key[r] = NoKey
        /\ status[r] # "absent" =>
              /\ home[r] \in Sessions
              /\ sessStatus[home[r]] # "absent"
              /\ turn[r] \in Runs
              /\ status[turn[r]] # "absent"

\* An operation in progress names a session, and the run it is about.
CallKnown(c) ==
    /\ call[c].pc # "idle" => call[c].s \in Sessions /\ sessStatus[call[c].s] # "absent"
    /\ call[c].pc \in {"start", "cancelling"} => call[c].r \in Runs
    /\ call[c].pc = "start" => Owned(call[c].op)
    /\ call[c].pc \in {"cancelling", "closing"} => call[c].op = "close"
    /\ call[c].op = "retry" /\ call[c].pc = "wait" =>
          /\ call[c].r \in Runs
          /\ status[call[c].r] # "absent"
          /\ home[call[c].r] = call[c].s

CallsKnown == \A c \in Callers : CallKnown(c)

WellFormed == TypeOK /\ OutcomesKnown /\ OriginsKnown /\ CallsKnown

\* The daemon starts well formed.
LEMMA InitWellFormed == Init => WellFormed
  BY ConstantsAssumption
  DEF Init, WellFormed, TypeOK, OutcomesKnown, OriginsKnown, CallsKnown, CallKnown, Idle, Call, Free,
      Holder, RunStatus, SessStatus, Phases, TaskPc, CleanupPc, Terminal, Unfinished

(***************************************************************************)
(* Rows are never deleted: what was there stays there.                     *)
(***************************************************************************)
RowsKept ==
    /\ \A r \in Runs : status'[r] = "absent" <=> status[r] = "absent"
    /\ \A s \in Sessions : sessStatus[s] # "absent" => sessStatus'[s] # "absent"

\* The frame of a step that adds no row and touches neither tasks nor calls.
LEMMA RowsKeptWellFormed ==
  ASSUME WellFormed, TypeOK', OutcomesKnown', RowsKept, UNCHANGED <<originVars, call>>
  PROVE  WellFormed'
  <1>1. OriginsKnown'
    BY DEF WellFormed, TypeOK, OriginsKnown, RowsKept
  <1>2. CallsKnown'
    <2> SUFFICES ASSUME NEW c \in Callers PROVE CallKnown(c)'
      BY DEF CallsKnown
    <2>q. QED BY DEF WellFormed, CallsKnown, CallKnown, RowsKept
  <1>q. QED BY <1>1, <1>2 DEF WellFormed

\* The transactions that settle a run keep the rows well typed.
LEMMA SettleRows ==
  ASSUME WellFormed, NEW r \in Runs, NEW st \in Terminal,
         MayFinish(r), FinishRun(r, st) \/ Finalize(r, st)
  PROVE  /\ sessStatus' \in [Sessions -> SessStatus]
         /\ active' \in [Sessions -> Runs \union {NoRun}]
         /\ status' \in [Runs -> RunStatus]
         /\ turnStatus' \in [Runs -> RunStatus]
         /\ openTool' \in [Runs -> BOOLEAN]
         /\ UNCHANGED <<pastVars, begun, effects, held>>
         /\ RowsKept
  <1>1. /\ status' \in [Runs -> RunStatus]
        /\ turnStatus' \in [Runs -> RunStatus]
        /\ openTool' \in [Runs -> BOOLEAN]
        /\ UNCHANGED <<pastVars, begun, effects, held>>
    <2>1. Settle(r, st) /\ st \in RunStatus
      BY DEF FinishRun, Finalize, RunStatus
    <2>q. QED BY <2>1 DEF Settle, WellFormed, TypeOK
  <1>2. /\ sessStatus' \in [Sessions -> SessStatus]
        /\ active' \in [Sessions -> Runs \union {NoRun}]
        /\ \A s \in Sessions : sessStatus[s] # "absent" => sessStatus'[s] # "absent"
    BY DEF FinishRun, Finalize, FreeSlot, StatusAfterRun, WellFormed, TypeOK, SessStatus
  <1>3. \A q \in Runs : status'[q] = "absent" <=> status[q] = "absent"
    <2>1. /\ status[r] # "absent" /\ st # "absent"
          /\ status' = [status EXCEPT ![r] = st]
      BY DEF FinishRun, Finalize, Settle, MayFinish, Unfinished, Terminal
    <2>q. QED BY <2>1 DEF WellFormed, TypeOK
  <1>q. QED BY <1>1, <1>2, <1>3 DEF RowsKept

-------------------------------------------------------------------------------
(* Every step keeps the state well formed *)

\* Reading the fields of an operation in progress.
LEMMA CallFields ==
  ASSUME NEW x \in Call,
         NEW p \in {"idle", "wait", "start", "cancelling", "closing"},
         NEW r \in Runs \union {NoRun}
  PROVE  /\ [x EXCEPT !.pc = p] \in Call
         /\ [x EXCEPT !.pc = p, !.r = r] \in Call
  BY DEF Call

\* A new request is well formed when it names what it has to name.
LEMMA RequestWellFormed ==
  ASSUME WellFormed, NEW c \in Callers, NEW request \in Call, AcceptCall(c, request),
         request.pc = "wait", request.s \in Sessions, sessStatus[request.s] # "absent",
         request.op = "retry" =>
            request.r \in Runs /\ status[request.r] # "absent" /\ home[request.r] = request.s
  PROVE  WellFormed'
  <1>1. call' = [call EXCEPT ![c] = request] /\ call' \in [Callers -> Call]
    BY DEF AcceptCall, WellFormed, TypeOK
  <1>2. CallsKnown'
    BY <1>1 DEF AcceptCall, WellFormed, TypeOK, CallsKnown, CallKnown
  <1>q. QED BY <1>1, <1>2 DEF AcceptCall, WellFormed, TypeOK, OutcomesKnown, OriginsKnown

\* A client request only adds an operation that names what exists.
LEMMA ClientWellFormed == WellFormed /\ ClientStep => WellFormed'
  <1> SUFFICES ASSUME WellFormed, ClientStep PROVE WellFormed'
    OBVIOUS
  <1>1. ASSUME NEW s \in Sessions, CreateSession(s) PROVE WellFormed'
    BY <1>1, RowsKeptWellFormed
    DEF CreateSession, WellFormed, TypeOK, OutcomesKnown, SessStatus, RowsKept
  <1>2. ASSUME NEW r \in Runs, RequestCancel(r) PROVE WellFormed'
    BY <1>2 DEF RequestCancel, StartCleanup, CleanupPc,
                WellFormed, TypeOK, OutcomesKnown, OriginsKnown, CallsKnown, CallKnown
  <1>3. ASSUME NEW c \in Callers, NEW s \in Sessions, AcceptClose(c, s) PROVE WellFormed'
    <2> DEFINE request == [Idle EXCEPT !.op = "close", !.pc = "wait", !.s = s]
    <2>1. request \in Call /\ request.pc = "wait" /\ request.s = s /\ request.op = "close"
      BY DEF Idle, Call
    <2>q. QED BY <1>3, <2>1, RequestWellFormed DEF AcceptClose
  <1>4. ASSUME NEW c \in Callers, NEW s \in Sessions, NEW k \in Keys \union {NoKey},
               AcceptSubmit(c, s, k)
        PROVE  WellFormed'
    <2> DEFINE request == [Idle EXCEPT !.op = "submit", !.pc = "wait", !.s = s, !.k = k]
    <2>1. request \in Call /\ request.pc = "wait" /\ request.s = s /\ request.op = "submit"
      BY DEF Idle, Call
    <2>q. QED BY <1>4, <2>1, RequestWellFormed DEF AcceptSubmit
  <1>5. ASSUME NEW c \in Callers, NEW r \in Runs, NEW ok \in BOOLEAN, AcceptRetry(c, r, ok)
        PROVE  WellFormed'
    <2> DEFINE request == [Idle EXCEPT !.op = "retry", !.pc = "wait", !.s = home[r],
                                       !.r = r, !.ok = ok]
    <2>1. status[r] # "absent" /\ home[r] \in Sessions /\ sessStatus[home[r]] # "absent"
      BY <1>5 DEF AcceptRetry, WellFormed, OriginsKnown
    <2>2. /\ request \in Call /\ request.pc = "wait" /\ request.s = home[r]
          /\ request.r = r
      BY <2>1 DEF Idle, Call
    <2>q. QED BY <1>5, <2>1, <2>2, RequestWellFormed DEF AcceptRetry
  <1>q. QED BY <1>1, <1>2, <1>3, <1>4, <1>5 DEF ClientStep

\* The transaction that accepts a run gives it a session, a turn and a status.
LEMMA AddRunWellFormed ==
  ASSUME WellFormed, NEW c \in Callers, NEW r \in Runs, NEW t \in Runs,
         NEW k \in Keys \union {NoKey}, NEW n \in Nat, NEW original \in Runs \union {NoRun},
         call[c].pc = "wait", Owned(call[c].op), t = r \/ status[t] # "absent",
         AddRun(c, r, t, k, n, original)
  PROVE  WellFormed'
  <1>1. /\ call[c] \in Call
        /\ call[c].s \in Sessions
        /\ call[c].ok \in BOOLEAN
    BY DEF WellFormed, TypeOK, CallsKnown, CallKnown, Call
  <1>2. call' = [call EXCEPT ![c] = [call[c] EXCEPT !.pc = "start", !.r = r]]
    BY <1>1 DEF AddRun, WellFormed, TypeOK, Call
  <1>3. call' \in [Callers -> Call]
    BY <1>1, <1>2, CallFields DEF WellFormed, TypeOK
  <1>4. /\ status' \in [Runs -> RunStatus]
        /\ turnStatus' \in [Runs -> RunStatus]
        /\ sessStatus' \in [Sessions -> SessStatus]
        /\ active' \in [Sessions -> Runs \union {NoRun}]
        /\ home' \in [Runs -> Sessions \union {NoSession}]
        /\ turn' \in [Runs -> Runs \union {NoRun}]
        /\ key' \in [Runs -> Keys \union {NoKey}]
        /\ attempt' \in [Runs -> Nat]
        /\ retryOf' \in [Runs -> Runs \union {NoRun}]
        /\ confirmed' \in [Runs -> BOOLEAN]
    BY <1>1 DEF AddRun, WellFormed, TypeOK, RunStatus, Unfinished, SessStatus
  <1>5. TypeOK' /\ OutcomesKnown'
    BY <1>3, <1>4 DEF AddRun, WellFormed, TypeOK, OutcomesKnown
  <1>6. OriginsKnown'
    BY <1>1 DEF AddRun, WellFormed, TypeOK, OriginsKnown
  <1>7. CallsKnown'
    <2> SUFFICES ASSUME NEW d \in Callers PROVE CallKnown(d)'
      BY DEF CallsKnown
    <2>1. \A s \in Sessions : sessStatus[s] # "absent" => sessStatus'[s] # "absent"
      BY <1>1 DEF AddRun, WellFormed, TypeOK
    <2>2. CASE d = c
      <3>1. call'[d] = [call[c] EXCEPT !.pc = "start", !.r = r]
        BY <1>2, <2>2 DEF WellFormed, TypeOK
      <3>2. /\ call'[d].pc = "start" /\ call'[d].s = call[c].s
            /\ call'[d].r = r /\ call'[d].op = call[c].op
        BY <1>1, <3>1 DEF Call
      <3>q. QED BY <1>1, <2>1, <3>2 DEF WellFormed, CallsKnown, CallKnown
    <2>3. CASE d # c
      <3>1. call'[d] = call[d]
        BY <1>2, <2>3 DEF WellFormed, TypeOK
      <3>2. \A q \in Runs : status[q] # "absent" => status'[q] # "absent" /\ home'[q] = home[q]
        BY DEF AddRun, WellFormed, TypeOK
      <3>q. QED BY <2>1, <3>1, <3>2 DEF WellFormed, CallsKnown, CallKnown
    <2>q. QED BY <2>2, <2>3
  <1>q. QED BY <1>5, <1>6, <1>7 DEF WellFormed

\* The steps of an accepted submission, retry or close.
LEMMA CallWellFormed ==
  ASSUME WellFormed, NEW c \in Callers, CallStep(c)
  PROVE  WellFormed'
  <1>0. /\ call[c] \in Call
        /\ call[c].k \in Keys \union {NoKey}
    BY DEF WellFormed, TypeOK, Call
  <1>a. ASSUME Return(c), UNCHANGED <<originVars, status>>,
               \A s \in Sessions : sessStatus[s] # "absent" => sessStatus'[s] # "absent"
        PROVE  OriginsKnown' /\ CallsKnown' /\ call' \in [Callers -> Call]
    <2>1. /\ call' \in [Callers -> Call]
          /\ call'[c].pc = "idle" /\ call'[c].op = "none"
          /\ \A d \in Callers : d # c => call'[d] = call[d]
      BY <1>a DEF Return, Idle, Call, WellFormed, TypeOK
    <2>2. CallsKnown'
      BY <1>a, <2>1 DEF WellFormed, TypeOK, CallsKnown, CallKnown, Owned
    <2>q. QED BY <1>a, <2>1, <2>2 DEF WellFormed, OriginsKnown
  <1>1. CASE SubmitAnswered(c)
    BY <1>1, <1>a DEF SubmitAnswered, WellFormed, TypeOK, OutcomesKnown
  <1>2. CASE RetryAnswered(c)
    BY <1>2, <1>a DEF RetryAnswered, WellFormed, TypeOK, OutcomesKnown
  <1>3. CASE StartRun(c)
    BY <1>3, <1>a DEF StartRun, TaskPc, WellFormed, TypeOK, OutcomesKnown
  <1>b. ASSUME NEW p \in {"cancelling", "closing"}, NEW r \in Runs \union {NoRun},
               p = "cancelling" => r \in Runs, call[c].op = "close", call[c].pc # "idle",
               call' = [call EXCEPT ![c] = [call[c] EXCEPT !.pc = p, !.r = r]],
               UNCHANGED <<originVars, status, sessStatus>>
        PROVE  OriginsKnown' /\ CallsKnown' /\ call' \in [Callers -> Call]
    <2>1. call' \in [Callers -> Call]
      BY <1>0, <1>b, CallFields DEF WellFormed, TypeOK
    <2>2. /\ call'[c] = [call[c] EXCEPT !.pc = p, !.r = r]
          /\ \A d \in Callers : d # c => call'[d] = call[d]
      BY <1>b DEF WellFormed, TypeOK
    <2>3. /\ call'[c].pc = p /\ call'[c].r = r
          /\ call'[c].s = call[c].s /\ call'[c].op = call[c].op
      BY <1>0, <2>2 DEF Call
    <2>4. CallsKnown'
      <3> SUFFICES ASSUME NEW d \in Callers PROVE CallKnown(d)'
        BY DEF CallsKnown
      <3>1. CallKnown(c) /\ CallKnown(d)
        BY DEF WellFormed, CallsKnown
      <3>2. CASE d = c
        BY <1>b, <2>3, <3>1, <3>2 DEF CallKnown
      <3>3. CASE d # c
        BY <1>b, <2>2, <3>1, <3>3 DEF CallKnown
      <3>q. QED BY <3>2, <3>3
    <2>q. QED BY <1>b, <2>1, <2>4 DEF WellFormed, OriginsKnown
  <1>4. CASE CloseBegins(c)
    <2> DEFINE r == RunToCancel(call[c].s)
    <2>1. call[c].op = "close" /\ call[c].pc = "wait" /\ call[c].s \in Sessions
      BY <1>4 DEF CloseBegins, HasLock, WellFormed, CallsKnown, CallKnown
    <2>2. r \in Runs \union {NoRun}
      BY <2>1 DEF RunToCancel, WellFormed, TypeOK
    <2>3. CASE r = NoRun
      <3>1. call' = [call EXCEPT ![c] = [call[c] EXCEPT !.pc = "closing", !.r = call[c].r]]
        BY <1>0, <1>4, <2>3 DEF CloseBegins, WellFormed, TypeOK, Call
      <3>2. call[c].r \in Runs \union {NoRun}
        BY <1>0 DEF Call
      <3>q. QED BY <1>4, <1>b, <2>1, <2>3, <3>1, <3>2
                DEF CloseBegins, WellFormed, TypeOK, OutcomesKnown
    <2>4. CASE r # NoRun
      <3>1. call' = [call EXCEPT ![c] = [call[c] EXCEPT !.pc = "cancelling", !.r = r]]
        BY <1>0, <1>4, <2>4 DEF CloseBegins, WellFormed, TypeOK, Call
      <3>2. cleanup' \in [Runs -> CleanupPc]
        BY <1>4 DEF CloseBegins, StartCleanup, WellFormed, TypeOK, CleanupPc
      <3>q. QED BY <1>4, <1>b, <2>1, <2>2, <2>4, <3>1, <3>2
                DEF CloseBegins, WellFormed, TypeOK, OutcomesKnown
    <2>q. QED BY <2>3, <2>4
  <1>5. CASE CloseWaited(c)
    <2>1. call[c].pc = "cancelling" /\ call[c].r \in Runs
      BY <1>5 DEF CloseWaited, WellFormed, CallsKnown, CallKnown
    <2>2. call[c].op = "close"
      BY <2>1 DEF WellFormed, CallsKnown, CallKnown
    <2>3. call' = [call EXCEPT ![c] = [call[c] EXCEPT !.pc = "closing", !.r = call[c].r]]
      BY <1>0, <1>5 DEF CloseWaited, WellFormed, TypeOK, Call
    <2>q. QED BY <1>5, <1>b, <2>1, <2>2, <2>3
              DEF CloseWaited, WellFormed, TypeOK, OutcomesKnown
  <1>6. CASE CloseCommit(c)
    <2>1. /\ sessStatus' \in [Sessions -> SessStatus]
          /\ active' \in [Sessions -> Runs \union {NoRun}]
          /\ \A s \in Sessions : sessStatus[s] # "absent" => sessStatus'[s] # "absent"
      BY <1>6 DEF CloseCommit, WellFormed, TypeOK, SessStatus
    <2>q. QED BY <1>6, <1>a, <2>1 DEF CloseCommit, WellFormed, TypeOK, OutcomesKnown
  <1>7. CASE CloseAborted(c)
    BY <1>7, <1>a DEF CloseAborted, WellFormed, TypeOK, OutcomesKnown
  <1>8. ASSUME NEW r \in Runs, SubmitCommit(c, r) PROVE WellFormed'
    BY <1>0, <1>8, AddRunWellFormed DEF SubmitCommit, HasLock, Owned
  <1>9. ASSUME NEW r \in Runs, NEW latest \in Runs, RetryCommit(c, r, latest) PROVE WellFormed'
    <2> DEFINE original == call[c].r
    <2>1. /\ original \in Runs
          /\ turn[original] \in Runs
          /\ status[turn[original]] # "absent"
          /\ key[original] \in Keys \union {NoKey}
          /\ NextAttempt(original, latest) \in Nat
      BY <1>9 DEF RetryCommit, HasLock, NextAttempt, WellFormed, TypeOK, CallsKnown, CallKnown, OriginsKnown
    <2>q. QED BY <1>9, <2>1, AddRunWellFormed DEF RetryCommit, HasLock, Owned
  <1>q. QED BY <1>1, <1>2, <1>3, <1>4, <1>5, <1>6, <1>7, <1>8, <1>9 DEF CallStep

\* Tool rows do not concern the origin of a run.
LEMMA ToolWellFormed ==
  ASSUME WellFormed, NEW r \in Runs, ToolStep(r)
  PROVE  WellFormed'
  <1>1. CASE ToolStarts(r)
    <2>1. PICK tool \in Tools, container \in BOOLEAN :
              /\ effects' = [effects EXCEPT ![r] = effects[r] \/ tool \in SideEffecting]
              /\ held' = [held EXCEPT ![r] = held[r] \/ container]
      BY <1>1 DEF ToolStarts
    <2>2. effects' \in [Runs -> BOOLEAN] /\ held' \in [Runs -> BOOLEAN]
      BY <2>1 DEF WellFormed, TypeOK
    <2>3. TypeOK'
      BY <1>1, <2>2 DEF ToolStarts, WellFormed, TypeOK
    <2>q. QED BY <1>1, <2>3, RowsKeptWellFormed DEF ToolStarts, RowsKept, WellFormed, OutcomesKnown
  <1>2. CASE ToolEnds(r)
    BY <1>2, RowsKeptWellFormed DEF ToolEnds, RowsKept, WellFormed, TypeOK, OutcomesKnown
  <1>q. QED BY <1>1, <1>2 DEF ToolStep

\* The task of a run settles it, or leaves the rows of runs and sessions alone.
LEMMA TaskWellFormed ==
  ASSUME WellFormed, NEW r \in Runs, TaskStep(r)
  PROVE  WellFormed'
  <1>a. ASSUME TypeOK', OutcomesKnown', RowsKept, UNCHANGED <<originVars, call>>
        PROVE  WellFormed'
    BY <1>a, RowsKeptWellFormed
  <1>b. ASSUME UNCHANGED <<status, sessStatus>> PROVE RowsKept
    BY <1>b DEF RowsKept
  <1>c. ASSUME MayBegin(r), MarkRunning(r), UNCHANGED sessStatus
        PROVE  /\ RowsKept
               /\ status' \in [Runs -> RunStatus]
               /\ turnStatus' \in [Runs -> RunStatus]
               /\ begun' \in [Runs -> BOOLEAN]
    BY <1>c DEF MayBegin, MarkRunning, RowsKept, WellFormed, TypeOK, RunStatus, Unfinished
  <1>1. CASE FirstStep(r)
    <2>1. CASE cancelReq[r] = "sent"
      BY <1>1, <1>a, <1>b, <2>1 DEF FirstStep, TaskEnds, TaskPc, WellFormed, TypeOK, OutcomesKnown
    <2>2. CASE cancelReq[r] # "sent"
      BY <1>1, <1>a, <1>b, <2>2 DEF FirstStep, Proceed, TaskPc, WellFormed, TypeOK, OutcomesKnown
    <2>q. QED BY <2>1, <2>2
  <1>2. CASE BeginRun(r)
    BY <1>2, <1>a, <1>c DEF BeginRun, Proceed, TaskPc, WellFormed, TypeOK, OutcomesKnown
  <1>3. CASE BeginFails(r)
    BY <1>3, <1>a, <1>b DEF BeginFails, Proceed, TaskPc, Terminal, WellFormed, TypeOK, OutcomesKnown
  <1>4. CASE BeginCancelled(r)
    <2>1. /\ RowsKept
          /\ status' \in [Runs -> RunStatus]
          /\ turnStatus' \in [Runs -> RunStatus]
          /\ begun' \in [Runs -> BOOLEAN]
      BY <1>4, <1>b, <1>c DEF BeginCancelled, WellFormed, TypeOK
    <2>q. QED BY <1>4, <1>a, <2>1 DEF BeginCancelled, Proceed, TaskPc, Terminal,
                                      WellFormed, TypeOK, OutcomesKnown
  <1>5. CASE AbortCommit(r)
    <2>1. outcome[r] \in Terminal /\ Finalize(r, outcome[r]) /\ MayFinish(r)
      BY <1>5 DEF AbortCommit, WellFormed, OutcomesKnown
    <2>2. TypeOK' /\ OutcomesKnown'
      BY <1>5, <2>1, SettleRows DEF AbortCommit, Lock, Proceed, TaskPc, Holder, Free,
                                    WellFormed, TypeOK, OutcomesKnown
    <2>q. QED BY <1>5, <1>a, <2>1, <2>2, SettleRows DEF AbortCommit
  <1>6. CASE AbortSettled(r)
    BY <1>6, <1>a, <1>b DEF AbortSettled, TaskEnds, TaskPc, WellFormed, TypeOK, OutcomesKnown
  <1>7. CASE AbortCancelled(r)
    <2>1. TypeOK' /\ OutcomesKnown' /\ RowsKept /\ UNCHANGED originVars
      <3>1. CASE UNCHANGED <<sessionVars, pastVars, runVars, toolVars>>
        BY <1>7, <1>b, <3>1 DEF AbortCancelled, TaskEnds, TaskPc, WellFormed, TypeOK, OutcomesKnown
      <3>2. CASE MayFinish(r) /\ Finalize(r, outcome[r])
        <4>1. outcome[r] \in Terminal
          BY <1>7 DEF AbortCancelled, WellFormed, OutcomesKnown
        <4>q. QED BY <1>7, <3>2, <4>1, SettleRows
                  DEF AbortCancelled, TaskEnds, TaskPc, WellFormed, TypeOK, OutcomesKnown
      <3>q. QED BY <1>7, <3>1, <3>2 DEF AbortCancelled
    <2>q. QED BY <1>7, <1>a, <2>1 DEF AbortCancelled
  <1>8. CASE RunnerReturns(r)
    BY <1>8, <1>a, <1>b DEF RunnerReturns, Outcomes, DbStatus, Terminal, Proceed, TaskPc,
                            WellFormed, TypeOK, OutcomesKnown
  <1>9. CASE RunnerLeavesResources(r)
    BY <1>9, <1>a, <1>b DEF RunnerLeavesResources, Proceed, TaskPc, WellFormed, TypeOK, OutcomesKnown
  <1>10. CASE FinishCommit(r)
    <2>1. outcome[r] \in Terminal /\ FinishRun(r, outcome[r]) /\ MayFinish(r)
      BY <1>10 DEF FinishCommit, WellFormed, OutcomesKnown
    <2>2. TypeOK' /\ OutcomesKnown'
      BY <1>10, <2>1, SettleRows DEF FinishCommit, Lock, Proceed, TaskPc, Holder, Free,
                                     WellFormed, TypeOK, OutcomesKnown
    <2>q. QED BY <1>10, <1>a, <2>1, <2>2, SettleRows DEF FinishCommit
  <1>11. CASE FinishSettled(r)
    BY <1>11, <1>a, <1>b DEF FinishSettled, TaskEnds, TaskPc, WellFormed, TypeOK, OutcomesKnown
  <1>12. CASE TaskAnnounces(r)
    BY <1>12, <1>a, <1>b DEF TaskAnnounces, Announce, TaskEnds, TaskPc, Free,
                             WellFormed, TypeOK, OutcomesKnown
  <1>13. CASE NotifyCancelled(r)
    BY <1>13, <1>a, <1>b DEF NotifyCancelled, TaskEnds, TaskPc, Free, WellFormed, TypeOK, OutcomesKnown
  <1>14. CASE MarkPending(r)
    BY <1>14, <1>a, <1>b DEF MarkPending, StartCleanup, CleanupPc, TaskEnds, TaskPc,
                             WellFormed, TypeOK, OutcomesKnown
  <1>15. CASE MarkCancelled(r)
    BY <1>15, <1>a, <1>b DEF MarkCancelled, TaskEnds, TaskPc, WellFormed, TypeOK, OutcomesKnown
  <1>q. QED BY <1>1, <1>2, <1>3, <1>4, <1>5, <1>6, <1>7, <1>8, <1>9, <1>10, <1>11, <1>12,
               <1>13, <1>14, <1>15 DEF TaskStep

\* The steps of a cancellation task.
LEMMA CleanupWellFormed ==
  ASSUME WellFormed, NEW r \in Runs, CleanupTaskStep(r)
  PROVE  WellFormed'
  <1>a. ASSUME TypeOK', UNCHANGED <<status, sessStatus, originVars, call, task, outcome>>
        PROVE  WellFormed'
    BY <1>a, RowsKeptWellFormed DEF RowsKept, WellFormed, OutcomesKnown
  <1>1. CASE CleanupSignals(r)
    BY <1>1, <1>a DEF CleanupSignals, CleanupStep, CleanupPc, Signal, WellFormed, TypeOK
  <1>2. CASE CleanupAwaited(r)
    BY <1>2, <1>a DEF CleanupAwaited, CleanupStep, CleanupPc, WellFormed, TypeOK
  <1>3. CASE CleanupChecks(r)
    BY <1>3, <1>a DEF CleanupChecks, CleanupStep, CleanupPc, WellFormed, TypeOK
  <1>4. CASE CleanupGivesUp(r)
    BY <1>4, <1>a DEF CleanupGivesUp, MissesEnd, CleanupStep, CleanupPc, WellFormed, TypeOK
  <1>5. CASE CleanupConfirmed(r)
    BY <1>5, <1>a DEF CleanupConfirmed, CleanupStep, CleanupPc, WellFormed, TypeOK
  <1>6. CASE CleanupUnconfirmed(r)
    BY <1>6, <1>a DEF CleanupUnconfirmed, CleanupStep, CleanupPc, WellFormed, TypeOK
  <1>7. CASE CleanupCommit(r)
    <2> DEFINE st == IF r \in failedRoot THEN "failed" ELSE "cancelled"
    <2>1. st \in Terminal /\ Finalize(r, st) /\ MayFinish(r)
      BY <1>7 DEF CleanupCommit, Terminal
    <2> HIDE DEF st
    <2>2. TypeOK' /\ OutcomesKnown'
      BY <1>7, <2>1, SettleRows DEF CleanupCommit, CleanupStep, CleanupPc, Lock, Holder, Free,
                                    WellFormed, TypeOK, OutcomesKnown
    <2>q. QED BY <1>7, <2>1, <2>2, SettleRows, RowsKeptWellFormed DEF CleanupCommit
  <1>8. CASE CleanupSettled(r)
    BY <1>8, <1>a DEF CleanupSettled, CleanupStep, CleanupPc, WellFormed, TypeOK
  <1>9. CASE CleanupAnnounces(r)
    BY <1>9, <1>a DEF CleanupAnnounces, CleanupStep, CleanupPc, Announce, Free, WellFormed, TypeOK
  <1>q. QED BY <1>1, <1>2, <1>3, <1>4, <1>5, <1>6, <1>7, <1>8, <1>9 DEF CleanupTaskStep

\* The finalizations of shutdown and of recovery.
LEMMA BootWellFormed ==
  ASSUME WellFormed, NEW r \in Runs, BootStep(r)
  PROVE  WellFormed'
  <1>1. CASE BootCommit(r)
    <2>1. BootStatus \in Terminal /\ Finalize(r, BootStatus) /\ MayFinish(r)
      BY <1>1 DEF BootCommit, BootMaySettle, BootStatus, Terminal
    <2>2. TypeOK' /\ OutcomesKnown'
      BY <1>1, <2>1, SettleRows DEF BootCommit, Lock, Holder, Free,
                                    WellFormed, TypeOK, OutcomesKnown
    <2>q. QED BY <1>1, <2>1, <2>2, SettleRows, RowsKeptWellFormed DEF BootCommit
  <1>2. CASE BootAnnounces(r)
    BY <1>2, RowsKeptWellFormed
    DEF BootAnnounces, Announce, Free, RowsKept, WellFormed, TypeOK, OutcomesKnown
  <1>3. CASE BootSkips(r) \/ CancellationEnded(r)
    BY <1>3, RowsKeptWellFormed
    DEF BootSkips, CancellationEnded, RowsKept, WellFormed, TypeOK, OutcomesKnown
  <1>q. QED BY <1>1, <1>2, <1>3 DEF BootStep

\* The end of a process leaves no call and no task to be well formed about.
LEMMA LoseVolatileWellFormed ==
  ASSUME WellFormed, LoseVolatile, pendingRes' \subseteq Runs, phase' \in Phases,
         stops' \in 0..Stops, UNCHANGED <<sessionVars, originVars, runVars, toolVars, announced>>
  PROVE  WellFormed'
  <1>1. TypeOK'
    BY DEF LoseVolatile, MissesEnd, Idle, Call, TaskPc, CleanupPc, Free, WellFormed, TypeOK
  <1>2. CallsKnown'
    BY DEF LoseVolatile, Idle, CallsKnown, CallKnown, Owned
  <1>q. QED BY <1>1, <1>2 DEF LoseVolatile, WellFormed, OutcomesKnown, OriginsKnown

\* The ends and the starts of the daemon process.
LEMMA ProcessWellFormed ==
  ASSUME WellFormed,
         BeginShutdown \/ WaitForCancellations \/ SupervisorShutdown \/ TasksEnded \/ Stop \/ Crash
           \/ Restart \/ Recovered
  PROVE  WellFormed'
  <1>1. CASE BeginShutdown
    BY <1>1, ConstantsAssumption, RowsKeptWellFormed
    DEF BeginShutdown, Phases, RowsKept, WellFormed, TypeOK, OutcomesKnown
  <1>2. CASE SupervisorShutdown
    BY <1>2, RowsKeptWellFormed
    DEF SupervisorShutdown, Phases, Signal, RowsKept, WellFormed, TypeOK, OutcomesKnown
  <1>3. CASE WaitForCancellations \/ TasksEnded
    BY <1>3, RowsKeptWellFormed
    DEF WaitForCancellations, Cancellations, TasksEnded, Phases, RowsKept, WellFormed, TypeOK,
        OutcomesKnown
  <1>4. CASE Stop
    BY <1>4, LoseVolatileWellFormed DEF Stop, Phases, WellFormed, TypeOK
  <1>5. CASE Crash
    BY <1>5, ConstantsAssumption, LoseVolatileWellFormed DEF Crash, Phases, WellFormed, TypeOK
  <1>6. CASE Restart
    BY <1>6, RowsKeptWellFormed
    DEF Restart, LeftUnfinished, Phases, RowsKept, WellFormed, TypeOK, OutcomesKnown
  <1>7. CASE Recovered
    BY <1>7, RowsKeptWellFormed DEF Recovered, Phases, RowsKept, WellFormed, TypeOK, OutcomesKnown
  <1>q. QED BY <1>1, <1>2, <1>3, <1>4, <1>5, <1>6, <1>7

\* Every step of the daemon and of its clients.
LEMMA NextWellFormed == WellFormed /\ [Next]_vars => WellFormed'
  <1> SUFFICES ASSUME WellFormed, [Next]_vars PROVE WellFormed'
    OBVIOUS
  <1>1. CASE Environment
    BY <1>1, ClientWellFormed, ProcessWellFormed DEF Environment
  <1>2. ASSUME NEW c \in Callers, CallStep(c) PROVE WellFormed'
    BY <1>2, CallWellFormed
  <1>3. ASSUME NEW r \in Runs, ToolStep(r) \/ TaskStep(r) \/ CleanupTaskStep(r) PROVE WellFormed'
    BY <1>3, ToolWellFormed, TaskWellFormed, CleanupWellFormed
  <1>4. CASE DaemonStep
    BY <1>4, BootWellFormed, ProcessWellFormed DEF DaemonStep
  <1>5. CASE UNCHANGED vars
    BY <1>5 DEF WellFormed, TypeOK, OutcomesKnown, OriginsKnown, CallsKnown, CallKnown
  <1>q. QED BY <1>1, <1>2, <1>3, <1>4, <1>5 DEF Next

(***************************************************************************)
(* Every reachable state is well typed: in particular no unmapped outcome  *)
(* word, and no outcome that was never set, reaches the status of a run.   *)
(***************************************************************************)
THEOREM WellFormedAlways == Spec => []WellFormed
  BY InitWellFormed, NextWellFormed, PTL DEF Spec

\* Every variable keeps its type, in particular every stored status is a known one.
THEOREM TypeCorrect == Spec => []TypeOK
  <1>1. WellFormed => TypeOK
    BY DEF WellFormed
  <1>q. QED BY <1>1, WellFormedAlways, PTL

-------------------------------------------------------------------------------
(* Sessions and runs implement RunContract *)

contractVars == <<sessStatus, active, status, home>>

\* A transaction that settles a run settles it in its own session.
LEMMA SettleRefines ==
  ASSUME WellFormed, SlotsMatchRuns, NEW r \in Runs, NEW st \in Terminal,
         MayFinish(r), FinishRun(r, st) \/ Finalize(r, st)
  PROVE  Contract!Next
  <1> DEFINE s == home[r]
  <1>1. /\ s \in Sessions
        /\ status[r] \in {"queued", "running"}
        /\ st \in Contract!Settled
        /\ sessStatus[s] = "closed" \/ active[s] = r
    BY DEF MayFinish, Unfinished, Terminal, WellFormed, OriginsKnown, SlotsMatchRuns,
           IsUnfinished, Contract!Settled
  <1>2. Settle(r, st)
    BY DEF FinishRun, Finalize
  <1>3. CASE sessStatus[s] = "closed"
    <2>1. active[s] = NoRun
      BY <1>1, <1>3 DEF SlotsMatchRuns
    <2>2. UNCHANGED <<sessStatus, active>>
      BY <1>1, <1>3, <2>1 DEF FinishRun, Finalize, FreeSlot, StatusAfterRun, WellFormed, TypeOK
    <2>3. Contract!SettleInClosedSession(s, r, st)
      BY <1>1, <1>2, <1>3, <2>2 DEF Settle, Contract!SettleInClosedSession
    <2>q. QED BY <1>1, <2>3 DEF Contract!Next
  <1>4. CASE sessStatus[s] # "closed"
    <2>1. active[s] = r /\ FreeSlot(s)
      BY <1>1, <1>4 DEF FinishRun, Finalize
    <2>2. Contract!SettleInOpenSession(s, r, st)
      BY <1>1, <1>2, <1>4, <2>1
      DEF Settle, FreeSlot, StatusAfterRun, Contract!SettleInOpenSession, Contract!StatusAfterRun
    <2>q. QED BY <1>1, <2>2 DEF Contract!Next
  <1>q. QED BY <1>3, <1>4

\* Accepting a run is Accept of the contract: the session was ready and is occupied.
LEMMA AcceptRefines ==
  ASSUME WellFormed, NEW c \in Callers, NEW r \in Runs, NEW t, NEW k, NEW n, NEW original,
         call[c].pc = "wait", CanAccept(call[c].s), AddRun(c, r, t, k, n, original)
  PROVE  Contract!Next
  <1>1. call[c].s \in Sessions
    BY DEF WellFormed, CallsKnown, CallKnown
  <1>2. Contract!Accept(call[c].s, r)
    BY <1>1 DEF CanAccept, AddRun, Contract!Accept
  <1>q. QED BY <1>1, <1>2 DEF Contract!Next

\* _begin_run is Begin of the contract: it starts a queued run only.
LEMMA BeginRefines ==
  ASSUME NEW r \in Runs, MayBegin(r), MarkRunning(r), UNCHANGED <<sessStatus, active, home>>
  PROVE  Contract!Next
  BY DEF MayBegin, MarkRunning, Contract!Begin, Contract!Next

\* A run's own task begins it, settles it in its session, or is invisible.
LEMMA TaskRefines ==
  ASSUME WellFormed, SlotsMatchRuns, NEW r \in Runs, TaskStep(r)
  PROVE  Contract!Next \/ UNCHANGED contractVars
  <1>1. CASE BeginRun(r)
    BY <1>1, BeginRefines DEF BeginRun
  <1>2. CASE BeginCancelled(r)
    BY <1>2, BeginRefines DEF BeginCancelled, contractVars
  <1>3. CASE AbortCommit(r)
    <2>1. outcome[r] \in Terminal /\ Finalize(r, outcome[r]) /\ MayFinish(r)
      BY <1>3 DEF AbortCommit, WellFormed, OutcomesKnown
    <2>q. QED BY <2>1, SettleRefines
  <1>4. CASE AbortCancelled(r)
    <2>1. outcome[r] \in Terminal
      BY <1>4 DEF AbortCancelled, WellFormed, OutcomesKnown
    <2>q. QED BY <1>4, <2>1, SettleRefines DEF AbortCancelled, contractVars
  <1>5. CASE FinishCommit(r)
    <2>1. outcome[r] \in Terminal /\ FinishRun(r, outcome[r]) /\ MayFinish(r)
      BY <1>5 DEF FinishCommit, WellFormed, OutcomesKnown
    <2>q. QED BY <2>1, SettleRefines
  <1>6. CASE \/ FirstStep(r) \/ BeginFails(r) \/ AbortSettled(r) \/ RunnerReturns(r)
             \/ RunnerLeavesResources(r) \/ FinishSettled(r) \/ TaskAnnounces(r)
             \/ NotifyCancelled(r) \/ MarkPending(r) \/ MarkCancelled(r)
    BY <1>6 DEF FirstStep, BeginFails, AbortSettled, RunnerReturns, RunnerLeavesResources,
                FinishSettled, TaskAnnounces, NotifyCancelled, MarkPending, MarkCancelled,
                contractVars
  <1>q. QED BY <1>1, <1>2, <1>3, <1>4, <1>5, <1>6 DEF TaskStep

\* A cancellation task settles the run in its session, or is invisible.
LEMMA CleanupRefines ==
  ASSUME WellFormed, SlotsMatchRuns, NEW r \in Runs, CleanupTaskStep(r)
  PROVE  Contract!Next \/ UNCHANGED contractVars
  <1>1. CASE CleanupCommit(r)
    <2> DEFINE st == IF r \in failedRoot THEN "failed" ELSE "cancelled"
    <2>1. st \in Terminal /\ Finalize(r, st) /\ MayFinish(r)
      BY <1>1 DEF CleanupCommit, Terminal
    <2> HIDE DEF st
    <2>q. QED BY <2>1, SettleRefines
  <1>2. CASE ~ CleanupCommit(r)
    BY <1>2 DEF CleanupTaskStep, CleanupSignals, CleanupAwaited, CleanupChecks, CleanupGivesUp,
                CleanupConfirmed, CleanupUnconfirmed, CleanupSettled, CleanupAnnounces, contractVars
  <1>q. QED BY <1>1, <1>2

\* A client operation accepts a run, closes a session, or is invisible.
LEMMA CallRefines ==
  ASSUME WellFormed, NEW c \in Callers, CallStep(c)
  PROVE  Contract!Next \/ UNCHANGED contractVars
  <1>1. ASSUME NEW r \in Runs, SubmitCommit(c, r) PROVE Contract!Next
    BY <1>1, AcceptRefines DEF SubmitCommit, HasLock
  <1>2. ASSUME NEW r \in Runs, NEW latest \in Runs, RetryCommit(c, r, latest) PROVE Contract!Next
    BY <1>2, AcceptRefines DEF RetryCommit, HasLock
  <1>3. CASE CloseCommit(c)
    <2>1. call[c].s \in Sessions /\ sessStatus[call[c].s] # "absent"
      BY <1>3 DEF CloseCommit, WellFormed, CallsKnown, CallKnown
    <2>2. Contract!Close(call[c].s)
      BY <1>3, <2>1 DEF CloseCommit, Contract!Close
    <2>q. QED BY <2>1, <2>2 DEF Contract!Next
  <1>4. CASE \/ SubmitAnswered(c) \/ RetryAnswered(c) \/ StartRun(c)
             \/ CloseBegins(c) \/ CloseWaited(c) \/ CloseAborted(c)
    BY <1>4 DEF SubmitAnswered, RetryAnswered, StartRun, CloseBegins, CloseWaited, CloseAborted,
                contractVars
  <1>q. QED BY <1>1, <1>2, <1>3, <1>4 DEF CallStep

\* Every step is a step of the contract, or is invisible to it.
LEMMA NextRefines ==
  ASSUME WellFormed, SlotsMatchRuns, [Next]_vars
  PROVE  [Contract!Next]_contractVars
  <1>1. CASE ClientStep
    <2>1. ASSUME NEW s \in Sessions, CreateSession(s) PROVE Contract!Next
      BY <2>1 DEF CreateSession, Contract!Open, Contract!Next
    <2>2. CASE ~ \E s \in Sessions : CreateSession(s)
      BY <1>1, <2>2 DEF ClientStep, RequestCancel, AcceptClose, AcceptSubmit, AcceptRetry,
                        AcceptCall, contractVars
    <2>q. QED BY <2>1, <2>2
  <1>2. CASE BeginShutdown \/ WaitForCancellations \/ SupervisorShutdown \/ TasksEnded \/ Stop \/ Crash
               \/ Restart \/ Recovered
    BY <1>2 DEF BeginShutdown, WaitForCancellations, SupervisorShutdown, TasksEnded, Stop, Crash, Restart,
       Recovered,
                contractVars
  <1>3. ASSUME NEW r \in Runs, BootStep(r) PROVE Contract!Next \/ UNCHANGED contractVars
    <2>1. CASE BootCommit(r)
      <3>1. BootStatus \in Terminal /\ Finalize(r, BootStatus) /\ MayFinish(r)
        BY <2>1 DEF BootCommit, BootMaySettle, BootStatus, Terminal
      <3>q. QED BY <3>1, SettleRefines
    <2>2. CASE CancellationEnded(r) \/ BootAnnounces(r) \/ BootSkips(r)
      BY <2>2 DEF CancellationEnded, BootAnnounces, BootSkips, contractVars
    <2>q. QED BY <1>3, <2>1, <2>2 DEF BootStep
  <1>4. ASSUME NEW r \in Runs, ToolStep(r) PROVE UNCHANGED contractVars
    BY <1>4 DEF ToolStep, ToolStarts, ToolEnds, contractVars
  <1>5. CASE UNCHANGED vars
    BY <1>5 DEF contractVars
  <1>q. QED BY <1>1, <1>2, <1>3, <1>4, <1>5, CallRefines, TaskRefines, CleanupRefines
            DEF Next, Environment, DaemonStep

\* The slots stay matched because the contract keeps them matched.
LEMMA ContractKeepsSlots ==
  ASSUME WellFormed, SlotsMatchRuns, [Contract!Next]_contractVars
  PROVE  SlotsMatchRuns'
  <1>1. CASE UNCHANGED contractVars
    BY <1>1 DEF contractVars, SlotsMatchRuns, IsUnfinished
  <1>2. ASSUME NEW s \in Sessions, Contract!Open(s) PROVE SlotsMatchRuns'
    BY <1>2 DEF Contract!Open, SlotsMatchRuns, IsUnfinished, WellFormed, TypeOK, OriginsKnown, Unfinished
  <1>3. ASSUME NEW s \in Sessions, Contract!Close(s) PROVE SlotsMatchRuns'
    BY <1>3 DEF Contract!Close, SlotsMatchRuns, IsUnfinished, WellFormed, TypeOK
  <1>4. ASSUME NEW s \in Sessions, NEW r \in Runs, Contract!Accept(s, r) PROVE SlotsMatchRuns'
    BY <1>4, ConstantsAssumption
    DEF Contract!Accept, SlotsMatchRuns, IsUnfinished, Unfinished, WellFormed, TypeOK, OriginsKnown
  <1>5. ASSUME NEW r \in Runs, Contract!Begin(r) PROVE SlotsMatchRuns'
    BY <1>5 DEF Contract!Begin, SlotsMatchRuns, IsUnfinished, Unfinished, WellFormed, TypeOK
  <1>6. ASSUME NEW s \in Sessions, NEW r \in Runs, NEW st \in Contract!Settled,
               Contract!SettleInOpenSession(s, r, st)
        PROVE  SlotsMatchRuns'
    <2>1. /\ active[s] = r /\ home[r] = s
          /\ status' = [status EXCEPT ![r] = st]
          /\ active' = [active EXCEPT ![s] = NoRun]
          /\ home' = home
          /\ st \notin Unfinished
      BY <1>6, ConstantsAssumption
      DEF Contract!SettleInOpenSession, Contract!Settled, SlotsMatchRuns, Unfinished
    <2>2. PICK after \in {"ready", "closed"} : sessStatus' = [sessStatus EXCEPT ![s] = after]
      BY <1>6 DEF Contract!SettleInOpenSession, Contract!StatusAfterRun
    <2>q. QED BY <2>1, <2>2, ConstantsAssumption
              DEF SlotsMatchRuns, IsUnfinished, WellFormed, TypeOK, OriginsKnown
  <1>7. ASSUME NEW s \in Sessions, NEW r \in Runs, NEW st \in Contract!Settled,
               Contract!SettleInClosedSession(s, r, st)
        PROVE  SlotsMatchRuns'
    BY <1>7 DEF Contract!SettleInClosedSession, Contract!Settled,
                SlotsMatchRuns, IsUnfinished, Unfinished, WellFormed, TypeOK, OriginsKnown
  <1>q. QED BY <1>1, <1>2, <1>3, <1>4, <1>5, <1>6, <1>7 DEF Contract!Next

\* The slots of the sessions match the runs in every reachable, well formed state.
THEOREM SlotsAlwaysMatch == Spec => [](WellFormed /\ SlotsMatchRuns)
  <1>1. Init => SlotsMatchRuns
    BY DEF Init, SlotsMatchRuns, IsUnfinished, Unfinished
  <1>2. WellFormed /\ SlotsMatchRuns /\ [Next]_vars => SlotsMatchRuns'
    BY NextRefines, ContractKeepsSlots
  <1>q. QED BY <1>1, <1>2, InitWellFormed, NextWellFormed, PTL DEF Spec

(***************************************************************************)
(* A session names its unfinished run, and only that one, in every         *)
(* reachable state, whatever tasks, cancellations and stops interleave.    *)
(***************************************************************************)
THEOREM SlotsCorrect == Spec => []SlotsMatchRuns
  BY SlotsAlwaysMatch, PTL

(***************************************************************************)
(* RunLifecycle implements RunContract: every step of the service is a     *)
(* step of the contract or leaves sessions and runs alone.                 *)
(***************************************************************************)
THEOREM ImplementsContract == Spec => ContractSpec
  <1>1. Init => Contract!Init
    BY DEF Init, Contract!Init
  <1>2. WellFormed /\ SlotsMatchRuns /\ [Next]_vars => [Contract!Next]_(Contract!contractVars)
    BY NextRefines DEF contractVars, Contract!contractVars
  <1>q. QED BY <1>1, <1>2, SlotsAlwaysMatch, PTL DEF Spec, ContractSpec, Contract!Spec

\* What a step of the contract never does to a settled run.
LEMMA SettledStaysSettled ==
  ASSUME WellFormed, SlotsMatchRuns, [Next]_vars, NEW r \in Runs, IsTerminal(r)
  PROVE  status'[r] = status[r]
  <1>1. [Contract!Next]_contractVars
    BY NextRefines
  <1>2. status[r] \notin {"absent", "queued", "running"}
    BY DEF IsTerminal, Terminal
  <1>q. QED BY <1>1, <1>2
            DEF Contract!Next, Contract!Open, Contract!Close, Contract!Accept, Contract!Begin,
                Contract!SettleInOpenSession, Contract!SettleInClosedSession, contractVars,
                WellFormed, TypeOK

(***************************************************************************)
(* The status of a settled run never changes again: not by a late          *)
(* finalization, a second cancellation, a shutdown or a recovery.          *)
(***************************************************************************)
THEOREM TerminalIsAlwaysFinal == Spec => TerminalIsFinal
  <1>1. WellFormed /\ SlotsMatchRuns /\ [Next]_vars =>
           [\A r \in Runs : IsTerminal(r) => status'[r] = status[r]]_vars
    BY SettledStaysSettled
  <1>q. QED BY <1>1, SlotsAlwaysMatch, PTL DEF Spec, TerminalIsFinal

-------------------------------------------------------------------------------
(* Announcements *)

\* The holder of the terminal lock has settled its run and not announced it.
AnnouncementsInOrder ==
    \A r \in Runs :
        /\ announced[r] > 0 => announced[r] = 1 /\ IsTerminal(r)
        /\ term.run = r => announced[r] = 0 /\ IsTerminal(r)

\* The ways a step may treat the lock and the announcements.
LEMMA EventSteps ==
  ASSUME WellFormed, [Next]_vars
  PROVE  \/ UNCHANGED eventVars
         \/ term' = Free /\ UNCHANGED announced
         \/ \E r \in Runs : \E by \in {"task", "cleanup", "boot"} :
               \/ Lock(r, by) /\ MayFinish(r) /\ IsTerminal(r)' /\ UNCHANGED announced
               \/ Announce(r, by)
  <1> DEFINE Goal == \/ UNCHANGED eventVars
                     \/ term' = Free /\ UNCHANGED announced
                     \/ \E r \in Runs : \E by \in {"task", "cleanup", "boot"} :
                           \/ Lock(r, by) /\ MayFinish(r) /\ IsTerminal(r)' /\ UNCHANGED announced
                           \/ Announce(r, by)
  <1>a. ASSUME NEW r \in Runs, NEW st \in Terminal, Settle(r, st) PROVE IsTerminal(r)'
    BY <1>a DEF Settle, IsTerminal, WellFormed, TypeOK
  <1>1. CASE ClientStep
    BY <1>1 DEF ClientStep, CreateSession, RequestCancel, AcceptClose, AcceptSubmit, AcceptRetry,
                AcceptCall
  <1>2. CASE BeginShutdown \/ WaitForCancellations \/ SupervisorShutdown \/ TasksEnded \/ Stop \/ Crash
               \/ Restart \/ Recovered
    BY <1>2 DEF BeginShutdown, WaitForCancellations, SupervisorShutdown, TasksEnded, Stop, Crash,
       LoseVolatile, Restart,
                Recovered
  <1>3. ASSUME NEW c \in Callers, CallStep(c) PROVE UNCHANGED eventVars
    BY <1>3 DEF CallStep, SubmitAnswered, RetryAnswered, StartRun, CloseBegins, CloseWaited,
                CloseCommit, CloseAborted, SubmitCommit, RetryCommit, AddRun
  <1>4. ASSUME NEW r \in Runs, ToolStep(r) PROVE UNCHANGED eventVars
    BY <1>4 DEF ToolStep, ToolStarts, ToolEnds
  <1>5. ASSUME NEW r \in Runs, TaskStep(r) PROVE Goal
    <2>1. CASE AbortCommit(r)
      <3>1. outcome[r] \in Terminal /\ Settle(r, outcome[r])
        BY <2>1 DEF AbortCommit, Finalize, WellFormed, OutcomesKnown
      <3>q. QED BY <1>a, <2>1, <3>1 DEF AbortCommit
    <2>2. CASE FinishCommit(r)
      <3>1. outcome[r] \in Terminal /\ Settle(r, outcome[r])
        BY <2>2 DEF FinishCommit, FinishRun, WellFormed, OutcomesKnown
      <3>q. QED BY <1>a, <2>2, <3>1 DEF FinishCommit
    <2>3. CASE TaskAnnounces(r)
      BY <2>3 DEF TaskAnnounces
    <2>4. CASE NotifyCancelled(r)
      BY <2>4 DEF NotifyCancelled
    <2>5. CASE \/ FirstStep(r) \/ BeginRun(r) \/ BeginFails(r) \/ BeginCancelled(r)
               \/ AbortSettled(r) \/ AbortCancelled(r) \/ RunnerReturns(r)
               \/ RunnerLeavesResources(r) \/ FinishSettled(r) \/ MarkPending(r) \/ MarkCancelled(r)
      BY <2>5 DEF FirstStep, BeginRun, BeginFails, BeginCancelled, AbortSettled, AbortCancelled,
                  RunnerReturns, RunnerLeavesResources, FinishSettled, MarkPending, MarkCancelled
    <2>q. QED BY <1>5, <2>1, <2>2, <2>3, <2>4, <2>5 DEF TaskStep
  <1>6. ASSUME NEW r \in Runs, CleanupTaskStep(r) PROVE Goal
    <2>1. CASE CleanupCommit(r)
      <3>1. \E st \in Terminal : Settle(r, st)
        BY <2>1 DEF CleanupCommit, Finalize, Terminal
      <3>q. QED BY <1>a, <2>1, <3>1 DEF CleanupCommit
    <2>2. CASE CleanupAnnounces(r)
      BY <2>2 DEF CleanupAnnounces
    <2>3. CASE \/ CleanupSignals(r) \/ CleanupAwaited(r) \/ CleanupChecks(r) \/ CleanupGivesUp(r)
               \/ CleanupConfirmed(r) \/ CleanupUnconfirmed(r) \/ CleanupSettled(r)
      BY <2>3 DEF CleanupSignals, CleanupAwaited, CleanupChecks, CleanupGivesUp, CleanupConfirmed,
                  CleanupUnconfirmed, CleanupSettled
    <2>q. QED BY <1>6, <2>1, <2>2, <2>3 DEF CleanupTaskStep
  <1>7. ASSUME NEW r \in Runs, BootStep(r) PROVE Goal
    <2>1. CASE BootCommit(r)
      <3>1. BootStatus \in Terminal /\ Settle(r, BootStatus) /\ MayFinish(r)
        BY <2>1 DEF BootCommit, BootMaySettle, BootStatus, Finalize, Terminal
      <3>q. QED BY <1>a, <2>1, <3>1 DEF BootCommit
    <2>2. CASE CancellationEnded(r) \/ BootAnnounces(r) \/ BootSkips(r)
      BY <2>2 DEF CancellationEnded, BootAnnounces, BootSkips
    <2>q. QED BY <1>7, <2>1, <2>2 DEF BootStep
  <1>8. CASE UNCHANGED vars
    BY <1>8
  <1>q. QED BY <1>1, <1>2, <1>3, <1>4, <1>5, <1>6, <1>7, <1>8 DEF Next, Environment, DaemonStep

\* No step announces a run before it settles, or a second time.
LEMMA NextInOrder ==
  ASSUME WellFormed, SlotsMatchRuns, AnnouncementsInOrder, [Next]_vars
  PROVE  AnnouncementsInOrder'
  <1>0. \A r \in Runs : IsTerminal(r) => IsTerminal(r)'
    BY SettledStaysSettled DEF IsTerminal
  <1>1. CASE UNCHANGED eventVars
    BY <1>0, <1>1 DEF AnnouncementsInOrder
  <1>2. CASE term' = Free /\ UNCHANGED announced
    BY <1>0, <1>2, ConstantsAssumption DEF AnnouncementsInOrder, Free
  <1>3. ASSUME NEW r \in Runs, NEW by \in {"task", "cleanup", "boot"},
               Lock(r, by), MayFinish(r), IsTerminal(r)', UNCHANGED announced
        PROVE  AnnouncementsInOrder'
    <2>1. announced[r] = 0
      BY <1>3 DEF AnnouncementsInOrder, IsTerminal, Terminal, MayFinish, Unfinished, WellFormed, TypeOK
    <2>q. QED BY <1>0, <1>3, <2>1 DEF AnnouncementsInOrder, Lock
  <1>4. ASSUME NEW r \in Runs, NEW by \in {"task", "cleanup", "boot"}, Announce(r, by)
        PROVE  AnnouncementsInOrder'
    <2>1. term.run = r /\ term'.run = NoRun
      BY <1>4 DEF Announce, Free
    <2>2. announced[r] = 0 /\ IsTerminal(r)
      BY <2>1 DEF AnnouncementsInOrder
    <2>3. announced' = [announced EXCEPT ![r] = 1]
      BY <1>4, <2>2 DEF Announce
    <2>q. QED BY <1>0, <2>1, <2>2, <2>3, ConstantsAssumption
              DEF AnnouncementsInOrder, WellFormed, TypeOK
  <1>q. QED BY <1>1, <1>2, <1>3, <1>4, EventSteps

(***************************************************************************)
(* The end of a run is announced at most once, after it has settled and    *)
(* never while another finalization of the run is announcing it.           *)
(***************************************************************************)
THEOREM AnnouncedAtMostOnce == Spec => []AnnouncedOnce
  <1>1. Init => AnnouncementsInOrder
    BY ConstantsAssumption DEF Init, AnnouncementsInOrder, Free
  <1>2. AnnouncementsInOrder => AnnouncedOnce
    BY DEF AnnouncementsInOrder, AnnouncedOnce
  <1>q. QED BY <1>1, <1>2, NextInOrder, SlotsAlwaysMatch, PTL DEF Spec

-------------------------------------------------------------------------------
(* Attempts of a turn *)

\* Only an accepted submission or retry writes the origin of a run.
LEMMA OriginSteps ==
  ASSUME [Next]_vars
  PROVE  \/ UNCHANGED originVars
         \/ \E c \in Callers, r \in Runs : SubmitCommit(c, r)
         \/ \E c \in Callers, r \in Runs, latest \in Runs : RetryCommit(c, r, latest)
  <1>1. ClientStep => UNCHANGED originVars
    BY DEF ClientStep, CreateSession, RequestCancel, AcceptClose, AcceptSubmit, AcceptRetry,
           AcceptCall
  <1>2. BeginShutdown \/ WaitForCancellations \/ SupervisorShutdown \/ TasksEnded \/ Stop \/ Crash
          \/ Restart \/ Recovered
        => UNCHANGED originVars
    BY DEF BeginShutdown, WaitForCancellations, SupervisorShutdown, TasksEnded, Stop, Crash, Restart,
       Recovered
  <1>3. ASSUME NEW r \in Runs, ToolStep(r) \/ CleanupTaskStep(r) \/ BootStep(r)
        PROVE  UNCHANGED originVars
    BY <1>3 DEF ToolStep, ToolStarts, ToolEnds,
                CleanupTaskStep, CleanupSignals, CleanupAwaited, CleanupChecks, CleanupGivesUp,
                CleanupConfirmed, CleanupUnconfirmed, CleanupCommit, CleanupSettled,
                CleanupAnnounces, BootStep, CancellationEnded, BootCommit, BootAnnounces, BootSkips,
                  Finalize, Settle
  <1>4. ASSUME NEW r \in Runs, TaskStep(r) PROVE UNCHANGED originVars
    BY <1>4 DEF TaskStep, FirstStep, BeginRun, BeginFails, BeginCancelled, AbortCommit,
                AbortSettled, AbortCancelled, RunnerReturns, RunnerLeavesResources, FinishCommit,
                FinishSettled, TaskAnnounces, NotifyCancelled, MarkPending, MarkCancelled,
                FinishRun, Finalize, Settle
  <1>q. QED BY <1>1, <1>2, <1>3, <1>4
            DEF Next, Environment, DaemonStep, CallStep, SubmitAnswered, RetryAnswered, StartRun,
                CloseBegins, CloseWaited, CloseCommit, CloseAborted

\* Runs of a turn share its session and its key.
TurnsAreUniform ==
    \A q, r \in Runs : turn[q] # NoRun /\ turn[q] = turn[r] => home[q] = home[r] /\ key[q] = key[r]

TurnInv == TurnsAreUniform /\ AttemptsAreDistinct /\ OneTurnPerMessage

\* A submission makes a turn only for a key its session does not know.
LEMMA SubmitKeepsTurns ==
  ASSUME WellFormed, TurnInv, NEW c \in Callers, NEW r \in Runs, SubmitCommit(c, r)
  PROVE  TurnInv'
  <1>1. /\ status[r] = "absent" /\ turn[r] = NoRun /\ call[c].s \in Sessions
        /\ \A q \in Runs : turn[q] # r
    BY ConstantsAssumption
    DEF SubmitCommit, AddRun, HasLock, WellFormed, OriginsKnown, CallsKnown, CallKnown
  <1>2. /\ home' = [home EXCEPT ![r] = call[c].s]
        /\ turn' = [turn EXCEPT ![r] = r]
        /\ key' = [key EXCEPT ![r] = call[c].k]
        /\ attempt' = [attempt EXCEPT ![r] = 1]
    BY DEF SubmitCommit, AddRun
  <1>3. TurnsAreUniform' /\ AttemptsAreDistinct'
    BY <1>1, <1>2 DEF TurnInv, TurnsAreUniform, AttemptsAreDistinct, WellFormed, TypeOK
  <1>4. ~ KeyKnown(call[c].s, call[c].k)
    BY DEF SubmitCommit
  <1>5. OneTurnPerMessage'
    BY <1>1, <1>2, <1>4 DEF KeyKnown, TurnInv, OneTurnPerMessage, WellFormed, TypeOK
  <1>q. QED BY <1>3, <1>5 DEF TurnInv

\* A retry takes a number above all those of its turn, and the key of the turn.
LEMMA RetryKeepsTurns ==
  ASSUME WellFormed, TurnInv, NEW c \in Callers, NEW r \in Runs, NEW latest \in Runs,
         RetryCommit(c, r, latest)
  PROVE  TurnInv'
  <1> DEFINE original == call[c].r
  <1>1. /\ status[r] = "absent" /\ turn[r] = NoRun
        /\ original \in Runs /\ status[original] # "absent" /\ turn[original] \in Runs
        /\ home[original] = call[c].s
    BY DEF RetryCommit, AddRun, HasLock, WellFormed, OriginsKnown, CallsKnown, CallKnown
  <1>2. /\ home' = [home EXCEPT ![r] = home[original]]
        /\ turn' = [turn EXCEPT ![r] = turn[original]]
        /\ key' = [key EXCEPT ![r] = key[original]]
        /\ attempt' = [attempt EXCEPT ![r] = attempt[latest] + 1]
    BY <1>1 DEF RetryCommit, AddRun, NextAttempt
  <1>3. turn[original] # NoRun
    BY <1>1, ConstantsAssumption
  <1>4. \A q \in Runs : turn[q] = turn[original] => attempt[q] <= attempt[latest]
    BY DEF RetryCommit, IsLatest, Attempts
  <1>5. \A q \in Runs : turn[q] = turn[original] => attempt[q] # attempt[latest] + 1
    BY <1>4 DEF WellFormed, TypeOK
  <1> HIDE DEF original
  <1>6. TurnsAreUniform'
    BY <1>1, <1>2, <1>3 DEF TurnInv, TurnsAreUniform, WellFormed, TypeOK
  <1>7. AttemptsAreDistinct'
    BY <1>1, <1>2, <1>3, <1>5 DEF TurnInv, AttemptsAreDistinct, WellFormed, TypeOK
  <1>8. OneTurnPerMessage'
    BY <1>1, <1>2, <1>3 DEF TurnInv, OneTurnPerMessage, WellFormed, TypeOK
  <1>q. QED BY <1>6, <1>7, <1>8 DEF TurnInv

\* Turns are uniform in session and key, and number their attempts differently.
THEOREM TurnsAlwaysHold == Spec => []TurnInv
  <1>1. Init => TurnInv
    BY DEF Init, TurnInv, TurnsAreUniform, AttemptsAreDistinct, OneTurnPerMessage
  <1>2. WellFormed /\ TurnInv /\ [Next]_vars => TurnInv'
    <2>1. UNCHANGED originVars /\ TurnInv => TurnInv'
      BY DEF TurnInv, TurnsAreUniform, AttemptsAreDistinct, OneTurnPerMessage
    <2>q. QED BY <2>1, OriginSteps, SubmitKeepsTurns, RetryKeepsTurns
  <1>q. QED BY <1>1, <1>2, WellFormedAlways, PTL DEF Spec

(***************************************************************************)
(* Two attempts of a turn never share a number, whichever of the earlier   *)
(* attempts was retried and however many clients retry at once.            *)
(***************************************************************************)
THEOREM AttemptsAlwaysDistinct == Spec => []AttemptsAreDistinct
  <1>1. TurnInv => AttemptsAreDistinct
    BY DEF TurnInv
  <1>q. QED BY <1>1, TurnsAlwaysHold, PTL

(***************************************************************************)
(* A client message makes one turn of its session, however often and       *)
(* however concurrently it is submitted, and whenever the daemon stops.    *)
(***************************************************************************)
THEOREM OneTurnForEachMessage == Spec => []OneTurnPerMessage
  <1>1. TurnInv => OneTurnPerMessage
    BY DEF TurnInv
  <1>q. QED BY <1>1, TurnsAlwaysHold, PTL

\* An unfinished run is the latest attempt of its turn, whose status the turn has.
LatestInv == TurnsFollowLatestAttempt /\ \A r \in Runs : IsUnfinished(r) => IsLatest(r)

Highest(r) == \A q \in Runs : turn[q] = turn[r] => attempt[q] <= attempt[r]

\* IsLatest without the set of the attempts.
LEMMA LatestIsHighest ==
  ASSUME NEW r \in Runs
  PROVE  (IsLatest(r) <=> Highest(r)) /\ (IsLatest(r)' <=> Highest(r)')
  BY DEF IsLatest, Attempts, Highest

(***************************************************************************)
(* A step that gives an unfinished run r a status and its turn the same    *)
(* keeps the turns right: r is the latest, and no other run is as high.    *)
(***************************************************************************)
LEMMA WriteKeepsLatest ==
  ASSUME WellFormed, TurnInv, LatestInv, NEW r \in Runs, NEW st, IsUnfinished(r),
         status' = [status EXCEPT ![r] = st],
         turnStatus' = [turnStatus EXCEPT ![turn[r]] = st],
         UNCHANGED <<turn, attempt>>
  PROVE  LatestInv'
  <1>1. turn[r] \in Runs /\ turn[r] # NoRun /\ Highest(r)
    BY LatestIsHighest, ConstantsAssumption
    DEF LatestInv, IsUnfinished, Unfinished, WellFormed, OriginsKnown
  <1>2. ASSUME NEW q \in Runs, Highest(q), turn[q] = turn[r] PROVE q = r
    <2>1. attempt[q] <= attempt[r] /\ attempt[r] <= attempt[q] /\ attempt[q] \in Nat /\ attempt[r] \in Nat
      BY <1>1, <1>2 DEF Highest, WellFormed, TypeOK
    <2>2. attempt[q] = attempt[r]
      BY <2>1
    <2>q. QED BY <1>1, <1>2, <2>2 DEF TurnInv, AttemptsAreDistinct
  <1>3. ASSUME NEW q \in Runs PROVE Highest(q)' <=> Highest(q)
    BY DEF Highest
  <1>4. ASSUME NEW q \in Runs, turn[q] # NoRun, Highest(q) PROVE turnStatus'[turn[q]] = status'[q]
    <2>1. turnStatus[turn[q]] = status[q] /\ turn[q] \in Runs
      BY <1>4, LatestIsHighest DEF LatestInv, TurnsFollowLatestAttempt, WellFormed, OriginsKnown
    <2>q. QED BY <1>1, <1>2, <1>4, <2>1 DEF WellFormed, TypeOK
  <1>5. TurnsFollowLatestAttempt'
    BY <1>3, <1>4, LatestIsHighest DEF TurnsFollowLatestAttempt
  <1>6. ASSUME NEW q \in Runs, IsUnfinished(q)' PROVE Highest(q)
    BY <1>1, <1>6, LatestIsHighest DEF LatestInv, IsUnfinished, WellFormed, TypeOK
  <1>q. QED BY <1>3, <1>5, <1>6, LatestIsHighest DEF LatestInv

\* A run that is added is the latest of its turn, and no other run of the turn is unfinished.
LEMMA AddKeepsLatest ==
  ASSUME WellFormed, SlotsMatchRuns, TurnInv, LatestInv, NEW c \in Callers, NEW r \in Runs,
         NEW t \in Runs, NEW k, NEW n \in Nat, NEW original,
         CanAccept(call[c].s), AddRun(c, r, t, k, n, original),
         \A q \in Runs : turn[q] = t => home[q] = call[c].s /\ attempt[q] < n
  PROVE  LatestInv'
  <1>1. /\ turn[r] = NoRun /\ t # NoRun
        /\ turn' = [turn EXCEPT ![r] = t]
        /\ attempt' = [attempt EXCEPT ![r] = n]
        /\ status' = [status EXCEPT ![r] = "queued"]
        /\ turnStatus' = [turnStatus EXCEPT ![t] = "queued"]
        /\ status[r] = "absent"
    BY ConstantsAssumption DEF AddRun, WellFormed, OriginsKnown
  <1>2. ASSUME NEW q \in Runs, turn[q] = t PROVE ~ IsUnfinished(q)
    BY <1>2, ConstantsAssumption DEF CanAccept, SlotsMatchRuns
  <1>3. ASSUME NEW q \in Runs, q # r, turn[q] # t, turn[q] # NoRun, Highest(q)' PROVE Highest(q)
    <2> SUFFICES ASSUME NEW p \in Runs, turn[p] = turn[q] PROVE attempt[p] <= attempt[q]
      BY DEF Highest
    <2>1. p # r /\ turn'[p] = turn'[q] /\ attempt'[p] = attempt[p] /\ attempt'[q] = attempt[q]
      BY <1>1, <1>3 DEF WellFormed, TypeOK
    <2>q. QED BY <1>3, <2>1 DEF Highest
  <1>4. ASSUME NEW q \in Runs, q # r, turn[q] = t PROVE ~ Highest(q)'
    <2>1. attempt[q] \in Nat /\ attempt[q] < n
      BY <1>4 DEF WellFormed, TypeOK
    <2>2. turn'[r] = turn'[q] /\ attempt'[r] = n /\ attempt'[q] = attempt[q]
      BY <1>1, <1>4 DEF WellFormed, TypeOK
    <2>q. QED BY <2>1, <2>2 DEF Highest
  <1>5. TurnsFollowLatestAttempt'
    <2> SUFFICES ASSUME NEW q \in Runs, turn'[q] # NoRun, Highest(q)'
                 PROVE  turnStatus'[turn'[q]] = status'[q]
      BY LatestIsHighest DEF TurnsFollowLatestAttempt
    <2>1. CASE q = r
      BY <1>1, <2>1 DEF WellFormed, TypeOK
    <2>2. CASE q # r
      <3>1. turn'[q] = turn[q] /\ turn[q] # t /\ Highest(q) /\ status'[q] = status[q]
        BY <1>1, <1>3, <1>4, <2>2 DEF WellFormed, TypeOK
      <3>2. turnStatus[turn[q]] = status[q] /\ turn[q] \in Runs
        BY <1>1, <3>1, LatestIsHighest DEF LatestInv, TurnsFollowLatestAttempt, WellFormed, TypeOK
      <3>q. QED BY <1>1, <3>1, <3>2 DEF WellFormed, TypeOK
    <2>q. QED BY <2>1, <2>2
  <1>6. ASSUME NEW q \in Runs, IsUnfinished(q)' PROVE Highest(q)'
    <2>1. CASE q = r
      <3>1. ASSUME NEW p \in Runs, turn'[p] = turn'[r] PROVE attempt'[p] <= attempt'[r]
        BY <1>1, <3>1 DEF WellFormed, TypeOK
      <3>q. QED BY <2>1, <3>1 DEF Highest
    <2>2. CASE q # r
      <3>1. IsUnfinished(q) /\ turn'[q] = turn[q] /\ turn[q] # t /\ Highest(q)
        BY <1>1, <1>2, <1>6, <2>2, LatestIsHighest DEF LatestInv, IsUnfinished, WellFormed, TypeOK
      <3>2. ASSUME NEW p \in Runs, turn'[p] = turn'[q] PROVE attempt'[p] <= attempt'[q]
        BY <1>1, <2>2, <3>1, <3>2 DEF Highest, WellFormed, TypeOK
      <3>q. QED BY <3>2 DEF Highest
    <2>q. QED BY <2>1, <2>2
  <1>q. QED BY <1>5, <1>6, LatestIsHighest DEF LatestInv

latestVars == <<status, turnStatus, turn, attempt>>

\* Settling an unfinished run keeps the turns right.
LEMMA SettleKeepsLatest ==
  ASSUME WellFormed, TurnInv, LatestInv, NEW r \in Runs, NEW st, MayFinish(r),
         FinishRun(r, st) \/ Finalize(r, st)
  PROVE  LatestInv'
  BY WriteKeepsLatest DEF FinishRun, Finalize, Settle, MayFinish, IsUnfinished

\* So does beginning a queued one.
LEMMA BeginKeepsLatest ==
  ASSUME WellFormed, TurnInv, LatestInv, NEW r \in Runs, MayBegin(r), MarkRunning(r),
         UNCHANGED originVars
  PROVE  LatestInv'
  BY WriteKeepsLatest DEF MarkRunning, MayBegin, IsUnfinished, Unfinished

\* The steps of a task, a cleanup or a boot write only through those two.
LEMMA WorkKeepsLatest ==
  ASSUME WellFormed, TurnInv, LatestInv, NEW r \in Runs,
         TaskStep(r) \/ CleanupTaskStep(r) \/ BootStep(r) \/ ToolStep(r)
  PROVE  LatestInv' \/ UNCHANGED latestVars
  <1>1. CASE BeginRun(r)
    BY <1>1, BeginKeepsLatest DEF BeginRun
  <1>2. CASE BeginCancelled(r)
    BY <1>2, BeginKeepsLatest DEF BeginCancelled, latestVars
  <1>3. CASE AbortCommit(r) \/ FinishCommit(r) \/ CleanupCommit(r) \/ BootCommit(r)
    BY <1>3, SettleKeepsLatest DEF AbortCommit, FinishCommit, CleanupCommit, BootCommit, BootMaySettle
  <1>4. CASE AbortCancelled(r)
    BY <1>4, SettleKeepsLatest DEF AbortCancelled, latestVars
  <1>5. CASE \/ FirstStep(r) \/ BeginFails(r) \/ AbortSettled(r) \/ RunnerReturns(r)
             \/ RunnerLeavesResources(r) \/ FinishSettled(r) \/ TaskAnnounces(r)
             \/ NotifyCancelled(r) \/ MarkPending(r) \/ MarkCancelled(r)
    BY <1>5 DEF FirstStep, BeginFails, AbortSettled, RunnerReturns, RunnerLeavesResources,
                FinishSettled, TaskAnnounces, NotifyCancelled, MarkPending, MarkCancelled,
                latestVars
  <1>6. CASE CleanupTaskStep(r) /\ ~ CleanupCommit(r)
    BY <1>6 DEF CleanupTaskStep, CleanupSignals, CleanupAwaited, CleanupChecks, CleanupGivesUp,
                CleanupConfirmed, CleanupUnconfirmed, CleanupSettled, CleanupAnnounces, latestVars
  <1>7. CASE \/ CancellationEnded(r) \/ BootAnnounces(r) \/ BootSkips(r)
             \/ ToolStarts(r) \/ ToolEnds(r)
    BY <1>7 DEF CancellationEnded, BootAnnounces, BootSkips, ToolStarts, ToolEnds, latestVars
  <1>q. QED BY <1>1, <1>2, <1>3, <1>4, <1>5, <1>6, <1>7 DEF TaskStep, BootStep, ToolStep

\* A client operation adds the latest run of a turn, or leaves the turns alone.
LEMMA CallKeepsLatest ==
  ASSUME WellFormed, SlotsMatchRuns, TurnInv, LatestInv, NEW c \in Callers, CallStep(c)
  PROVE  LatestInv' \/ UNCHANGED latestVars
  <1>1. ASSUME NEW r \in Runs, SubmitCommit(c, r) PROVE LatestInv'
    <2>1. \A q \in Runs : turn[q] # r
      BY <1>1, ConstantsAssumption DEF SubmitCommit, AddRun, WellFormed, OriginsKnown
    <2>q. QED BY <1>1, <2>1, AddKeepsLatest DEF SubmitCommit
  <1>2. ASSUME NEW r \in Runs, NEW latest \in Runs, RetryCommit(c, r, latest) PROVE LatestInv'
    <2> DEFINE original == call[c].r
               n == NextAttempt(original, latest)
    <2>1. /\ original \in Runs /\ turn[original] \in Runs /\ turn[original] # NoRun
          /\ home[original] = call[c].s
      BY <1>2, ConstantsAssumption
      DEF RetryCommit, HasLock, WellFormed, OriginsKnown, CallsKnown, CallKnown
    <2>2. n \in Nat /\ \A q \in Runs : turn[q] = turn[original] => attempt[q] < n
      <3>1. \A q \in Runs : turn[q] = turn[original] => attempt[q] <= attempt[latest]
        BY <1>2 DEF RetryCommit, IsLatest, Attempts
      <3>2. \A q \in Runs : attempt[q] \in Nat
        BY DEF WellFormed, TypeOK
      <3>q. QED BY <3>1, <3>2 DEF NextAttempt
    <2>3. \A q \in Runs : turn[q] = turn[original] => home[q] = call[c].s
      BY <2>1 DEF TurnInv, TurnsAreUniform
    <2>4. CanAccept(call[c].s) /\ AddRun(c, r, turn[original], key[original], n, original)
      BY <1>2 DEF RetryCommit
    <2> HIDE DEF n, original
    <2>q. QED BY <2>1, <2>2, <2>3, <2>4, AddKeepsLatest
  <1>3. CASE \/ SubmitAnswered(c) \/ RetryAnswered(c) \/ StartRun(c)
             \/ CloseBegins(c) \/ CloseWaited(c) \/ CloseCommit(c) \/ CloseAborted(c)
    BY <1>3 DEF SubmitAnswered, RetryAnswered, StartRun, CloseBegins, CloseWaited, CloseCommit,
                CloseAborted, latestVars
  <1>q. QED BY <1>1, <1>2, <1>3 DEF CallStep

\* Every step keeps the status of the turns right.
LEMMA NextKeepsLatest ==
  ASSUME WellFormed, SlotsMatchRuns, TurnInv, LatestInv, [Next]_vars
  PROVE  LatestInv'
  <1>1. CASE UNCHANGED latestVars
    BY <1>1 DEF latestVars, LatestInv, TurnsFollowLatestAttempt, IsUnfinished, IsLatest, Attempts
  <1>2. ClientStep => UNCHANGED latestVars
    BY DEF ClientStep, CreateSession, RequestCancel, AcceptClose, AcceptSubmit, AcceptRetry,
           AcceptCall, latestVars
  <1>3. \/ BeginShutdown \/ WaitForCancellations \/ SupervisorShutdown \/ TasksEnded
        \/ Stop \/ Crash \/ Restart \/ Recovered
        => UNCHANGED latestVars
    BY DEF BeginShutdown, WaitForCancellations, SupervisorShutdown, TasksEnded, Stop, Crash,
           Restart, Recovered, latestVars
  <1>4. UNCHANGED vars => UNCHANGED latestVars
    BY DEF latestVars
  <1>q. QED BY <1>1, <1>2, <1>3, <1>4, CallKeepsLatest, WorkKeepsLatest
            DEF Next, Environment, DaemonStep

\* The status of a turn is the status of its latest attempt, in every reachable state.
THEOREM TurnsAlwaysFollow == Spec => []TurnsFollowLatestAttempt
  <1>1. Init => LatestInv
    BY ConstantsAssumption DEF Init, LatestInv, TurnsFollowLatestAttempt, IsUnfinished, Unfinished, IsLatest
  <1>2. WellFormed /\ SlotsMatchRuns /\ TurnInv /\ LatestInv /\ [Next]_vars => LatestInv'
    BY NextKeepsLatest
  <1>3. LatestInv => TurnsFollowLatestAttempt
    BY DEF LatestInv
  <1>q. QED BY <1>1, <1>2, <1>3, SlotsAlwaysMatch, TurnsAlwaysHold, PTL DEF Spec

(***************************************************************************)
(* A turn keeps what it promises for any number of sessions, clients,      *)
(* messages, attempts and stops of the daemon.                             *)
(***************************************************************************)
THEOREM TurnsAlwaysSound == Spec => []TurnsAreSound
  <1>1. AttemptsAreDistinct /\ OneTurnPerMessage /\ TurnsFollowLatestAttempt => TurnsAreSound
    BY DEF TurnsAreSound
  <1>q. QED BY <1>1, AttemptsAlwaysDistinct, OneTurnForEachMessage, TurnsAlwaysFollow, PTL

-------------------------------------------------------------------------------
(* The supervisor is open while submissions are in progress *)

\* Once the supervisor is closed no accepted submission is left.
SubmissionsPrecedeClose ==
    \A c \in Callers : Owned(call[c].op) => phase \in {"up", "stopping"}

\* No step leaves the phase that accepts submissions while one is in progress.
LEMMA NextPrecedesClose ==
  ASSUME WellFormed, SubmissionsPrecedeClose, [Next]_vars
  PROVE  SubmissionsPrecedeClose'
  <1>a. ASSUME UNCHANGED phase, \A c \in Callers : Owned(call'[c].op) => Owned(call[c].op)
        PROVE  SubmissionsPrecedeClose'
    BY <1>a DEF SubmissionsPrecedeClose
  <1>b. ASSUME UNCHANGED <<phase, call>> PROVE SubmissionsPrecedeClose'
    BY <1>b DEF SubmissionsPrecedeClose
  <1>1. CASE ClientStep
    <2>1. CASE UNCHANGED <<phase, call>>
      BY <1>b, <2>1
    <2>2. CASE phase = "up" /\ phase' = "up"
      BY <2>2 DEF SubmissionsPrecedeClose
    <2>q. QED BY <1>1, <2>1, <2>2 DEF ClientStep, CreateSession, RequestCancel, AcceptClose,
                                      AcceptSubmit, AcceptRetry, AcceptCall
  <1>2. CASE BeginShutdown \/ Recovered
    BY <1>2 DEF BeginShutdown, Recovered, SubmissionsPrecedeClose
  <1>3. CASE WaitForCancellations \/ SupervisorShutdown \/ TasksEnded
    BY <1>3 DEF WaitForCancellations, Drained, SupervisorShutdown, TasksEnded, SubmissionsPrecedeClose
  <1>4. CASE Stop \/ Crash
    BY <1>4 DEF Stop, Crash, LoseVolatile, Idle, Owned, SubmissionsPrecedeClose
  <1>5. CASE Restart
    BY <1>5 DEF Restart, SubmissionsPrecedeClose
  <1>6. ASSUME NEW c \in Callers, CallStep(c) PROVE SubmissionsPrecedeClose'
    <2>1. UNCHANGED phase
      BY <1>6 DEF CallStep, SubmitAnswered, RetryAnswered, StartRun, CloseBegins, CloseWaited,
                  CloseCommit, CloseAborted, SubmitCommit, RetryCommit, AddRun
    <2>2. call'[c].op \in {call[c].op, "none"} /\ \A d \in Callers : d # c => call'[d] = call[d]
      <3>0. call[c] \in Call
        BY DEF WellFormed, TypeOK
      <3>1. ASSUME Return(c)
            PROVE  call'[c].op = "none" /\ \A d \in Callers : d # c => call'[d] = call[d]
        BY <3>1 DEF Return, Idle, WellFormed, TypeOK
      <3>2. ASSUME NEW p, NEW r, call' = [call EXCEPT ![c].pc = p, ![c].r = r]
            PROVE  call'[c].op = call[c].op /\ \A d \in Callers : d # c => call'[d] = call[d]
        BY <3>0, <3>2 DEF WellFormed, TypeOK, Call
      <3>3. ASSUME NEW p, call' = [call EXCEPT ![c].pc = p]
            PROVE  call'[c].op = call[c].op /\ \A d \in Callers : d # c => call'[d] = call[d]
        BY <3>0, <3>3 DEF WellFormed, TypeOK, Call
      <3>4. \/ Return(c)
            \/ \E p : call' = [call EXCEPT ![c].pc = p]
            \/ \E p, r : call' = [call EXCEPT ![c].pc = p, ![c].r = r]
        BY <1>6 DEF CallStep, SubmitAnswered, RetryAnswered, StartRun, CloseBegins, CloseWaited,
                    CloseCommit, CloseAborted, SubmitCommit, RetryCommit, AddRun
      <3>q. QED BY <3>1, <3>2, <3>3, <3>4
    <2>q. QED BY <1>a, <2>1, <2>2 DEF Owned
  <1>7. ASSUME NEW r \in Runs, TaskStep(r) PROVE UNCHANGED <<phase, call>>
    BY <1>7 DEF TaskStep, FirstStep, BeginRun, BeginFails, BeginCancelled, AbortCommit,
                AbortSettled, AbortCancelled, RunnerReturns, RunnerLeavesResources, FinishCommit,
                FinishSettled, TaskAnnounces, NotifyCancelled, MarkPending, MarkCancelled
  <1>8. ASSUME NEW r \in Runs, ToolStep(r) \/ CleanupTaskStep(r) \/ BootStep(r)
        PROVE  UNCHANGED <<phase, call>>
    BY <1>8 DEF ToolStep, ToolStarts, ToolEnds,
                CleanupTaskStep, CleanupSignals, CleanupAwaited, CleanupChecks, CleanupGivesUp,
                CleanupConfirmed, CleanupUnconfirmed, CleanupCommit, CleanupSettled,
                CleanupAnnounces, BootStep, CancellationEnded, BootCommit, BootAnnounces, BootSkips
  <1>q. QED BY <1>b, <1>1, <1>2, <1>3, <1>4, <1>5, <1>6, <1>7, <1>8
            DEF Next, Environment, DaemonStep

(***************************************************************************)
(* _start_run never meets a closed supervisor, so that the task of a       *)
(* committed run is always created: shutdown waits for the submissions it  *)
(* still has, and accepts no more.                                         *)
(***************************************************************************)
THEOREM SupervisorAlwaysOpen == Spec => []SupervisorIsOpen
  <1>1. Init => SubmissionsPrecedeClose
    BY DEF Init, Idle, Owned, SubmissionsPrecedeClose
  <1>2. WellFormed /\ SubmissionsPrecedeClose => SupervisorIsOpen
    BY DEF WellFormed, CallsKnown, CallKnown, SubmissionsPrecedeClose, SupervisorIsOpen
  <1>q. QED BY <1>1, <1>2, NextPrecedesClose, WellFormedAlways, PTL DEF Spec

-------------------------------------------------------------------------------
(* Unfinished runs have an owner: the inductive invariant *)

Past(c) == call[c].pc \notin {"idle", "wait"}

\* The submission lock of a session has one holder.
LocksAreExclusive ==
    \A c, d \in Callers : Past(c) /\ Past(d) /\ call[c].s = call[d].s => c = d

(***************************************************************************)
(* A caller that starts a run finds it as its transaction left it; one     *)
(* that closes a session has waited for the run the session was at work on.*)
(***************************************************************************)
CallIsSound(c) ==
    LET r == call[c].r IN
    /\ call[c].pc = "start" =>
          /\ home[r] = call[c].s /\ status[r] # "absent"
          /\ task[r] = "none" /\ ~ begun[r]
    /\ phase = "up" /\ call[c].pc = "cancelling" =>
          /\ active[call[c].s] \in {NoRun, r}
          /\ cleanup[r] # "none" \/ IsTerminal(r)
    /\ phase = "up" /\ call[c].pc = "closing" => active[call[c].s] = NoRun

\* Where the task and the cleanup of a run are says how far the run is.
RunIsSound(r) ==
    /\ status[r] = "running" => begun[r]
    /\ task[r] # "none" \/ cleanup[r] # "none" \/ begun[r] => status[r] # "absent"
    /\ task[r] = "none" => cancelReq[r] = "no"
    /\ task[r] \in {"new", "prep"} => ~ begun[r]
    /\ task[r] \in {"abort", "notify"} /\ begun[r] => cancelReq[r] = "taken"
    /\ task[r] \in {"announce", "notify"} \/ cleanup[r] = "announce" => IsTerminal(r)

Serving == phase \notin {"down", "dead", "recovering"}

(***************************************************************************)
(* Who settles a run, in each phase of the daemon.  A task that was told   *)
(* to stop is awaited by the cleanup that told it; a run whose task is     *)
(* gone is left running only while its containers may be there; what       *)
(* shutdown and recovery have still to do covers the rest.                 *)
(***************************************************************************)
RunIsKept(r) ==
    /\ phase = "up" =>
          /\ cancelReq[r] = "sent" => cleanup[r] = "await"
          /\ IsUnfinished(r) =>
                /\ AwaitsStart(r) \/ Supervised(r) \/ cleanup[r] # "none"
                /\ sessStatus[home[r]] # "closed"
    /\ Serving /\ status[r] = "running" /\ task[r] \in {"none", "mark"} =>
          r \in pendingRes \/ cleanup[r] = "finalize"
    /\ phase \in {"draining", "cancelling", "finalizing"} =>
          (cleanup[r] \in {"attempt", "finalize", "announce"} => phase = "draining" /\ r \in todo)
    /\ phase \in {"cancelling", "finalizing"} =>
          /\ Supervised(r) => r \in todo /\ phase = "cancelling"
          /\ status[r] = "running" => r \in todo \union pendingRes
    /\ ~ Serving => task[r] = "none" /\ cleanup[r] = "none"
    /\ phase = "down" => (status[r] = "running" => r \in pendingRes)
    /\ phase = "recovering" => (IsUnfinished(r) => r \in todo)

\* A process that ended took the operations of its clients with it.
DeadIsEmpty ==
    /\ ~ Serving => \A c \in Callers : call[c] = Idle
    /\ phase = "recovering" => pendingRes = {}

OwnInv ==
    /\ LocksAreExclusive
    /\ \A c \in Callers : CallIsSound(c)
    /\ \A r \in Runs : RunIsSound(r) /\ RunIsKept(r)
    /\ DeadIsEmpty

\* Only a daemon that stops or starts announces runs that nobody else settled.
BootAnnouncesAlone == term.by = "boot" => phase \in {"finalizing", "recovering"}

\* After every step, only a daemon that stops or starts announces runs nobody else settled.
LEMMA NextKeepsBootAlone ==
  ASSUME BootAnnouncesAlone, [Next]_vars
  PROVE  BootAnnouncesAlone'
  <1> USE DEF BootAnnouncesAlone
  <1>1. CASE ClientStep
    BY <1>1 DEF ClientStep, CreateSession, RequestCancel, AcceptClose, AcceptSubmit, AcceptRetry, AcceptCall
  <1>2. CASE BeginShutdown \/ WaitForCancellations \/ SupervisorShutdown \/ TasksEnded \/ Restart
    BY <1>2 DEF BeginShutdown, WaitForCancellations, SupervisorShutdown, TasksEnded, Restart
  <1>3. CASE Stop \/ Crash \/ Recovered
    BY <1>3 DEF Stop, Crash, Recovered, LoseVolatile, Free
  <1>4. ASSUME NEW c \in Callers, CallStep(c) PROVE BootAnnouncesAlone'
    BY <1>4 DEF CallStep, SubmitAnswered, RetryAnswered, StartRun, CloseBegins, CloseWaited, CloseCommit,
       CloseAborted, SubmitCommit, RetryCommit, AddRun
  <1>5. ASSUME NEW r \in Runs, ToolStep(r) PROVE BootAnnouncesAlone'
    BY <1>5 DEF ToolStep, ToolStarts, ToolEnds
  <1>6. ASSUME NEW r \in Runs, TaskStep(r) PROVE BootAnnouncesAlone'
    BY <1>6 DEF TaskStep, FirstStep, BeginRun, BeginFails, BeginCancelled, AbortCommit, AbortSettled,
       AbortCancelled, RunnerReturns, RunnerLeavesResources, FinishCommit, FinishSettled, TaskAnnounces,
       NotifyCancelled, MarkPending, MarkCancelled, Lock, Announce, Free
  <1>7. ASSUME NEW r \in Runs, CleanupTaskStep(r) PROVE BootAnnouncesAlone'
    BY <1>7 DEF CleanupTaskStep, CleanupSignals, CleanupAwaited, CleanupChecks, CleanupGivesUp,
       CleanupConfirmed, CleanupUnconfirmed, CleanupCommit, CleanupSettled, CleanupAnnounces, Lock,
       Announce, Free
  <1>8. ASSUME NEW r \in Runs, BootStep(r) PROVE BootAnnouncesAlone'
    BY <1>8 DEF BootStep, CancellationEnded, BootCommit, BootAnnounces, BootSkips, Lock, Announce, Free
  <1>9. CASE UNCHANGED vars
    BY <1>9
  <1>q. QED BY <1>1, <1>2, <1>3, <1>4, <1>5, <1>6, <1>7, <1>8, <1>9 DEF Next, Environment, DaemonStep

\* What was proved above, about a state.
Base == WellFormed /\ SlotsMatchRuns /\ AnnouncementsInOrder /\ SubmissionsPrecedeClose
        /\ BootAnnouncesAlone

\* The facts proved above are kept by every step.
LEMMA NextKeepsBase == Base /\ [Next]_vars => Base'
  <1> SUFFICES ASSUME Base, [Next]_vars PROVE Base'
    OBVIOUS
  <1>1. WellFormed' /\ SlotsMatchRuns'
    <2>1. WellFormed'
      BY NextWellFormed DEF Base
    <2>2. [Contract!Next]_contractVars
      BY NextRefines DEF Base
    <2>q. QED BY <2>1, <2>2, ContractKeepsSlots DEF Base
  <1>q. QED BY <1>1, NextInOrder, NextPrecedesClose, NextKeepsBootAlone DEF Base

\* A step on one run leaves the others as sound and as well kept as they were.
LEMMA RunMovesKeepOwn ==
  ASSUME Base, WellFormed', OwnInv, NEW r \in Runs,
         UNCHANGED <<phase, call, home>>,
         \A q \in Runs \ {r} :
            /\ status'[q] = status[q] /\ begun'[q] = begun[q] /\ task'[q] = task[q]
            /\ cancelReq'[q] = cancelReq[q] /\ cleanup'[q] = cleanup[q]
            /\ q \in pendingRes' <=> q \in pendingRes
            /\ q \in todo' <=> q \in todo,
         \A s \in Sessions : active'[s] \in {active[s], NoRun},
         phase = "up" => \A q \in Runs \ {r} :
            IsUnfinished(q) /\ sessStatus[home[q]] # "closed" => sessStatus'[home[q]] # "closed",
         phase = "recovering" => pendingRes' = {},
         AwaitsStart(r) => task'[r] = "none" /\ ~ begun'[r],
         status[r] # "absent" => status'[r] # "absent",
         phase = "up" /\ (cleanup[r] # "none" \/ IsTerminal(r)) =>
            cleanup'[r] # "none" \/ IsTerminal(r)',
         RunIsSound(r)', RunIsKept(r)'
  PROVE  OwnInv'
  <1>1. LocksAreExclusive'
    BY DEF OwnInv, LocksAreExclusive, Past
  <1>2. DeadIsEmpty'
    BY DEF OwnInv, DeadIsEmpty, Serving
  <1>3. ASSUME NEW q \in Runs, q # r PROVE RunIsSound(q)' /\ RunIsKept(q)'
    <2>1. RunIsSound(q) /\ RunIsKept(q)
      BY DEF OwnInv
    <2>2. /\ status'[q] = status[q] /\ begun'[q] = begun[q] /\ task'[q] = task[q]
          /\ cancelReq'[q] = cancelReq[q] /\ cleanup'[q] = cleanup[q]
          /\ q \in pendingRes' <=> q \in pendingRes
          /\ q \in todo' <=> q \in todo
      BY <1>3
    <2>3. IsTerminal(q)' = IsTerminal(q) /\ IsUnfinished(q)' = IsUnfinished(q)
          /\ Supervised(q)' = Supervised(q) /\ AwaitsStart(q)' = AwaitsStart(q)
          /\ Serving' = Serving
      BY <2>2 DEF IsTerminal, IsUnfinished, Supervised, AwaitsStart, Serving
    <2>4. phase = "up" /\ IsUnfinished(q) => sessStatus'[home'[q]] # "closed"
      BY <1>3, <2>1 DEF RunIsKept
    <2>5. RunIsSound(q)'
      BY <2>1, <2>2, <2>3 DEF RunIsSound
    <2>6. RunIsKept(q)'
      BY <2>1, <2>2, <2>3, <2>4 DEF RunIsKept
    <2>q. QED BY <2>5, <2>6
  <1>4. ASSUME NEW c \in Callers PROVE CallIsSound(c)'
    <2> DEFINE q == call[c].r
    <2>1. CallIsSound(c) /\ (call[c].pc \in {"start", "cancelling"} => q \in Runs)
          /\ (Past(c) => call[c].s \in Sessions)
      BY DEF OwnInv, Base, WellFormed, CallsKnown, CallKnown, Past, TypeOK, Call
    <2>2. call[c].pc = "start" /\ q = r => AwaitsStart(r)
      BY DEF AwaitsStart
    <2>3. CASE q = r
      BY <2>1, <2>2, <2>3 DEF CallIsSound, Past
    <2>4. CASE q # r
      <3>1. call[c].pc \in {"start", "cancelling"} => IsTerminal(q)' = IsTerminal(q)
        BY <2>1, <2>4 DEF IsTerminal
      <3>q. QED BY <2>1, <2>4, <3>1 DEF CallIsSound, Past
    <2>q. QED BY <2>3, <2>4
  <1>q. QED BY <1>1, <1>2, <1>3, <1>4 DEF OwnInv

\* What a transaction that settles a run does to the others.
LEMMA SettleSpares ==
  ASSUME Base, NEW r \in Runs, NEW st \in Terminal, MayFinish(r), FinishRun(r, st) \/ Finalize(r, st)
  PROVE  /\ IsTerminal(r)' /\ status'[r] = st
         /\ \A q \in Runs \ {r} : status'[q] = status[q]
         /\ UNCHANGED <<home, begun>>
         /\ \A s \in Sessions : active'[s] \in {active[s], NoRun}
         /\ \A q \in Runs \ {r} :
               IsUnfinished(q) /\ sessStatus[home[q]] # "closed" => sessStatus'[home[q]] # "closed"
  <1>1. status' = [status EXCEPT ![r] = st] /\ UNCHANGED <<home, begun>>
    BY DEF FinishRun, Finalize, Settle
  <1>2. \A s \in Sessions : active'[s] \in {active[s], NoRun}
    BY DEF FinishRun, Finalize, FreeSlot, Base, WellFormed, TypeOK
  <1>3. ASSUME NEW q \in Runs, q # r, IsUnfinished(q), sessStatus[home[q]] # "closed"
        PROVE  sessStatus'[home[q]] # "closed"
    <2>1. home[q] \in Sessions
      BY <1>3 DEF Base, WellFormed, OriginsKnown, IsUnfinished, Unfinished
    <2>2. home[r] # home[q]
      BY <1>3 DEF Base, SlotsMatchRuns, MayFinish, IsUnfinished
    <2>q. QED BY <1>3, <2>1, <2>2 DEF FinishRun, Finalize, FreeSlot, Base, WellFormed, TypeOK
  <1>4. status'[r] = st /\ \A q \in Runs \ {r} : status'[q] = status[q]
    BY <1>1 DEF Base, WellFormed, TypeOK
  <1>q. QED BY <1>1, <1>2, <1>3, <1>4 DEF IsTerminal

\* The task of a run is at work only in a daemon that serves, on a run that was started.
LEMMA WorkingTasks ==
  ASSUME Base, OwnInv, NEW r \in Runs, Supervised(r)
  PROVE  /\ RunIsSound(r) /\ RunIsKept(r) /\ ~ AwaitsStart(r) /\ status[r] # "absent"
         /\ Serving /\ phase # "finalizing"
  <1>1. RunIsSound(r) /\ RunIsKept(r)
    BY DEF OwnInv
  <1>2. ~ AwaitsStart(r)
    BY DEF AwaitsStart, OwnInv, CallIsSound, Supervised
  <1>q. QED BY <1>1, <1>2 DEF RunIsSound, RunIsKept, Supervised

\* A step of the task that settles nothing and leaves sessions and cleanups alone.
OthersRest(r) ==
    \A q \in Runs \ {r} :
        /\ status'[q] = status[q] /\ begun'[q] = begun[q] /\ task'[q] = task[q]
        /\ cancelReq'[q] = cancelReq[q]
        /\ q \in pendingRes' <=> q \in pendingRes

QuietTask(r) ==
    /\ UNCHANGED <<sessStatus, active, home, phase, call, todo, cleanup>>
    /\ OthersRest(r)
    /\ r \in pendingRes => r \in pendingRes'
    /\ \/ status'[r] = status[r] /\ begun'[r] = begun[r]
       \/ status'[r] = "running" /\ begun'[r] /\ status[r] = "queued"
    /\ task'[r] = "none" => cancelReq'[r] = "no"
    /\ task'[r] \in {"new", "prep"} => ~ begun'[r]
    /\ task'[r] \in {"abort", "notify"} /\ begun'[r] => cancelReq'[r] = "taken"
    /\ task'[r] \in {"announce", "notify"} => task[r] \in {"announce", "notify"}
    /\ cancelReq'[r] = "sent" => cancelReq[r] = "sent"
    /\ task'[r] = "none" /\ phase = "up" => IsTerminal(r) \/ cleanup[r] # "none"
    /\ task'[r] \in {"none", "mark"} /\ status'[r] = "running" =>
          r \in pendingRes' \/ cleanup[r] = "finalize"

\* A task that stays supervised and settles nothing keeps its run owned.
LEMMA QuietTaskKeepsOwn ==
  ASSUME Base, WellFormed', OwnInv, NEW r \in Runs, Supervised(r), QuietTask(r)
  PROVE  OwnInv'
  <1>0. /\ RunIsSound(r) /\ RunIsKept(r) /\ ~ AwaitsStart(r) /\ status[r] # "absent"
        /\ Serving /\ phase # "finalizing" /\ home[r] \in Sessions
    BY WorkingTasks DEF Base, WellFormed, OriginsKnown
  <1> USE DEF QuietTask
  <1>1. /\ IsTerminal(r)' = IsTerminal(r) /\ IsUnfinished(r)' = IsUnfinished(r)
        /\ AwaitsStart(r)' = AwaitsStart(r) /\ Serving' = Serving /\ status'[r] # "absent"
    BY <1>0 DEF IsTerminal, IsUnfinished, Unfinished, Terminal, AwaitsStart, Serving
  <1>2. RunIsSound(r)'
    BY <1>0, <1>1 DEF RunIsSound
  <1>3. IsUnfinished(r) /\ IsTerminal(r) => FALSE
    BY DEF IsTerminal, IsUnfinished, Unfinished, Terminal
  <1>4. RunIsKept(r)'
    <2>1. phase = "up" =>
             /\ cancelReq'[r] = "sent" => cleanup[r] = "await"
             /\ IsUnfinished(r) => task'[r] # "none" \/ cleanup[r] # "none"
             /\ IsUnfinished(r) => sessStatus[home[r]] # "closed"
      BY <1>0, <1>3 DEF RunIsKept
    <2>2. phase \in {"draining", "cancelling", "finalizing"} =>
             (cleanup[r] \in {"attempt", "finalize", "announce"} => phase = "draining" /\ r \in todo)
      BY <1>0 DEF RunIsKept
    <2>3. phase \in {"cancelling", "finalizing"} => r \in todo /\ phase = "cancelling"
      BY <1>0 DEF RunIsKept
    <2>q. QED BY <1>0, <1>1, <2>1, <2>2, <2>3 DEF RunIsKept, Supervised, Serving
  <1>5. phase = "recovering" => pendingRes' = {}
    BY <1>0 DEF Serving
  <1>6. phase = "up" /\ (cleanup[r] # "none" \/ IsTerminal(r)) => cleanup'[r] # "none" \/ IsTerminal(r)'
    BY <1>1
  <1>7. \A s \in Sessions : active'[s] \in {active[s], NoRun}
    OBVIOUS
  <1>8. phase = "up" => \A q \in Runs \ {r} :
            IsUnfinished(q) /\ sessStatus[home[q]] # "closed" => sessStatus'[home[q]] # "closed"
    OBVIOUS
  <1>9. \A q \in Runs \ {r} :
            /\ status'[q] = status[q] /\ begun'[q] = begun[q] /\ task'[q] = task[q]
            /\ cancelReq'[q] = cancelReq[q] /\ cleanup'[q] = cleanup[q]
            /\ q \in pendingRes' <=> q \in pendingRes
            /\ q \in todo' <=> q \in todo
    BY DEF OthersRest
  <1>10. UNCHANGED <<phase, call, home>>
    OBVIOUS
  <1>11. AwaitsStart(r) => task'[r] = "none" /\ ~ begun'[r]
    BY <1>0
  <1>q. QED BY <1>1, <1>2, <1>4, <1>5, <1>6, <1>7, <1>8, <1>9, <1>10, <1>11, RunMovesKeepOwn

\* The steps of a task that neither settle its run nor ask for a cleanup.
QuietTaskStep(r) ==
    \/ FirstStep(r) \/ BeginRun(r) \/ BeginFails(r) \/ BeginCancelled(r)
    \/ AbortSettled(r)
    \/ AbortCancelled(r) /\ status' = status
    \/ RunnerReturns(r) \/ RunnerLeavesResources(r) \/ FinishSettled(r)
    \/ TaskAnnounces(r) \/ NotifyCancelled(r) \/ MarkCancelled(r)
    \/ MarkPending(r) /\ ~ RequestsCleanup(r)

\* The steps of a task before its run settles are of that kind.
LEMMA QuietTaskSteps ==
  ASSUME Base, OwnInv, NEW r \in Runs, QuietTaskStep(r)
  PROVE  Supervised(r) /\ QuietTask(r)
  <1>0. Supervised(r)
    BY DEF QuietTaskStep, Supervised, FirstStep, BeginRun, BeginFails, BeginCancelled, AbortSettled,
       AbortCancelled, RunnerReturns, RunnerLeavesResources, FinishSettled, TaskAnnounces, NotifyCancelled,
       Unshielded, MarkCancelled, MarkPending
  <1>1. RunIsSound(r) /\ RunIsKept(r) /\ status[r] # "absent" /\ Serving
    BY <1>0, WorkingTasks
  <1>2. TypeOK
    BY DEF Base, WellFormed
  <1>3. ~ MayFinish(r) => IsTerminal(r)
    BY <1>1, <1>2 DEF MayFinish, IsTerminal, TypeOK, RunStatus
  <1> USE <1>0, <1>1, <1>2 DEF QuietTask, OthersRest, TypeOK
  <1>4. CASE FirstStep(r)
    BY <1>4, <1>3 DEF FirstStep, Proceed, TaskEnds, RunIsSound, RunIsKept, Serving
  <1>5. CASE BeginRun(r)
    BY <1>5, <1>3 DEF BeginRun, MayBegin, MarkRunning, Proceed
  <1>6. CASE BeginFails(r)
    BY <1>6, <1>3 DEF BeginFails, Proceed, RunIsSound
  <1>7. CASE BeginCancelled(r)
    BY <1>7, <1>3 DEF BeginCancelled, MayBegin, MarkRunning, Proceed
  <1>8. CASE AbortSettled(r)
    BY <1>8, <1>3 DEF AbortSettled, TaskEnds, IsTerminal, Terminal
  <1>9. CASE AbortCancelled(r) /\ status' = status
    <2>1. ~ (MayFinish(r) /\ Finalize(r, outcome[r]))
      <3>1. outcome[r] \in Terminal
        BY <1>9 DEF AbortCancelled, Base, WellFormed, OutcomesKnown
      <3>q. QED BY <3>1, <1>9 DEF MayFinish, Unfinished, Terminal, Finalize, Settle
    <2>2. UNCHANGED <<sessionVars, originVars, runVars, toolVars>>
      BY <1>9, <2>1 DEF AbortCancelled
    <2>q. QED BY <1>9, <2>2 DEF AbortCancelled, TaskEnds, RunIsSound, RunIsKept
  <1>10. CASE RunnerReturns(r)
    BY <1>10, <1>3 DEF RunnerReturns, Proceed
  <1>11. CASE RunnerLeavesResources(r)
    BY <1>11, <1>3 DEF RunnerLeavesResources, Proceed
  <1>12. CASE FinishSettled(r)
    BY <1>12, <1>3 DEF FinishSettled, TaskEnds, IsTerminal, Terminal
  <1>13. CASE TaskAnnounces(r)
    BY <1>13, <1>3 DEF TaskAnnounces, TaskEnds, RunIsSound, IsTerminal, Terminal
  <1>14. CASE NotifyCancelled(r)
    BY <1>14, <1>3 DEF NotifyCancelled, Unshielded, TaskEnds, RunIsSound, IsTerminal, Terminal
  <1>15. CASE MarkCancelled(r)
    BY <1>15, <1>3 DEF MarkCancelled, TaskEnds, RunIsKept
  <1>16. CASE MarkPending(r) /\ ~ RequestsCleanup(r)
    BY <1>16, <1>3 DEF MarkPending, TaskEnds, RequestsCleanup, Closed, RunIsKept
  <1>q. QED BY <1>0, <1>4, <1>5, <1>6, <1>7, <1>8, <1>9, <1>10, <1>11, <1>12, <1>13, <1>14, <1>15, <1>16 DEF
     QuietTaskStep

\* A transaction that settles a run, by whomever, with what the step does around it.
LEMMA SettlingKeepsOwn ==
  ASSUME Base, WellFormed', OwnInv, NEW r \in Runs, NEW st \in Terminal,
         MayFinish(r), FinishRun(r, st) \/ Finalize(r, st),
         UNCHANGED <<phase, call, todo, pendingRes>>,
         \A q \in Runs \ {r} :
            task'[q] = task[q] /\ cancelReq'[q] = cancelReq[q] /\ cleanup'[q] = cleanup[q],
         AwaitsStart(r) => task'[r] = "none",
         task'[r] = "none" => cancelReq'[r] = "no",
         task'[r] \in {"new", "prep"} => ~ begun[r],
         task'[r] \in {"abort", "notify"} /\ begun[r] => cancelReq'[r] = "taken",
         phase = "up" /\ cancelReq'[r] = "sent" => cleanup'[r] = "await",
         phase \in {"draining", "cancelling", "finalizing"} =>
            (cleanup'[r] \in {"attempt", "finalize", "announce"} => phase = "draining" /\ r \in todo),
         phase \in {"cancelling", "finalizing"} =>
            (task'[r] # "none" => r \in todo /\ phase = "cancelling"),
         ~ Serving => task'[r] = "none" /\ cleanup'[r] = "none"
  PROVE  OwnInv'
  <1>1. /\ IsTerminal(r)' /\ status'[r] = st
        /\ \A q \in Runs \ {r} : status'[q] = status[q]
        /\ UNCHANGED <<home, begun>>
        /\ \A s \in Sessions : active'[s] \in {active[s], NoRun}
        /\ \A q \in Runs \ {r} :
              IsUnfinished(q) /\ sessStatus[home[q]] # "closed" => sessStatus'[home[q]] # "closed"
    BY SettleSpares
  <1>2. st # "running" /\ st # "absent" /\ status'[r] # "queued" /\ ~ IsUnfinished(r)'
    BY <1>1 DEF Terminal, IsUnfinished, Unfinished
  <1>3. RunIsSound(r)'
    BY <1>1, <1>2 DEF RunIsSound
  <1>4. RunIsKept(r)'
    BY <1>1, <1>2 DEF RunIsKept, Serving, Supervised
  <1>5. DeadIsEmpty /\ \A c \in Callers : CallIsSound(c)
    BY DEF OwnInv
  <1>6. phase = "recovering" => pendingRes' = {}
    BY <1>5 DEF DeadIsEmpty
  <1>7. AwaitsStart(r) => task'[r] = "none" /\ ~ begun'[r]
    BY <1>1, <1>5 DEF AwaitsStart, CallIsSound
  <1>8. \A q \in Runs \ {r} :
            /\ status'[q] = status[q] /\ begun'[q] = begun[q] /\ task'[q] = task[q]
            /\ cancelReq'[q] = cancelReq[q] /\ cleanup'[q] = cleanup[q]
            /\ q \in pendingRes' <=> q \in pendingRes
            /\ q \in todo' <=> q \in todo
    BY <1>1
  <1>9. phase = "up" /\ (cleanup[r] # "none" \/ IsTerminal(r)) => cleanup'[r] # "none" \/ IsTerminal(r)'
    BY <1>1
  <1>10. UNCHANGED <<phase, call, home>>
    BY <1>1
  <1>11. phase = "up" => \A q \in Runs \ {r} :
            IsUnfinished(q) /\ sessStatus[home[q]] # "closed" => sessStatus'[home[q]] # "closed"
    BY <1>1
  <1>12. status[r] # "absent" => status'[r] # "absent"
    BY <1>1, <1>2
  <1>q. QED BY <1>1, <1>3, <1>4, <1>6, <1>7, <1>8, <1>9, <1>10, <1>11, <1>12, RunMovesKeepOwn

\* A transaction of the task of a run.
LEMMA TaskSettlesKeepsOwn ==
  ASSUME Base, WellFormed', OwnInv, NEW r \in Runs,
         \/ AbortCommit(r) \/ FinishCommit(r)
         \/ AbortCancelled(r) /\ MayFinish(r) /\ Finalize(r, outcome[r])
  PROVE  OwnInv'
  <1>1. Supervised(r) /\ MayFinish(r) /\ outcome[r] \in Terminal
        /\ (FinishRun(r, outcome[r]) \/ Finalize(r, outcome[r]))
        /\ UNCHANGED <<phase, call, todo, pendingRes, cleanup>>
    BY DEF AbortCommit, FinishCommit, AbortCancelled, Supervised, Base, WellFormed, OutcomesKnown
  <1>2. /\ RunIsSound(r) /\ RunIsKept(r) /\ ~ AwaitsStart(r) /\ Serving
    BY <1>1, WorkingTasks
  <1>3. TypeOK
    BY DEF Base, WellFormed
  <1>4. \A q \in Runs \ {r} :
            task'[q] = task[q] /\ cancelReq'[q] = cancelReq[q] /\ cleanup'[q] = cleanup[q]
    BY <1>1, <1>3 DEF AbortCommit, FinishCommit, AbortCancelled, Proceed, TaskEnds, TypeOK
  <1>5. \/ task[r] = "abort" /\ task'[r] = "notify" /\ cancelReq'[r] = cancelReq[r]
        \/ task'[r] = "announce" /\ cancelReq'[r] = cancelReq[r]
        \/ task'[r] = "none" /\ cancelReq'[r] = "no"
    BY <1>3 DEF AbortCommit, FinishCommit, AbortCancelled, Proceed, TaskEnds, TypeOK
  <1>6. task'[r] = "none" => cancelReq'[r] = "no"
    BY <1>5
  <1>7. task'[r] \notin {"new", "prep"}
    BY <1>5
  <1>8. task'[r] \in {"abort", "notify"} /\ begun[r] => cancelReq'[r] = "taken"
    BY <1>5, <1>2 DEF RunIsSound
  <1>9. phase = "up" /\ cancelReq'[r] = "sent" => cleanup'[r] = "await"
    BY <1>1, <1>2, <1>5 DEF RunIsKept
  <1>10. phase \in {"draining", "cancelling", "finalizing"} =>
            (cleanup'[r] \in {"attempt", "finalize", "announce"} => phase = "draining" /\ r \in todo)
    BY <1>1, <1>2 DEF RunIsKept
  <1>11. phase \in {"cancelling", "finalizing"} =>
            (task'[r] # "none" => r \in todo /\ phase = "cancelling")
    BY <1>1, <1>2 DEF RunIsKept
  <1>12. UNCHANGED <<phase, call, todo, pendingRes>>
    BY <1>1
  <1>q. QED BY <1>1, <1>2, <1>4, <1>6, <1>7, <1>8, <1>9, <1>10, <1>11, <1>12, SettlingKeepsOwn

\* The transaction of a cleanup.
LEMMA CleanupSettlesKeepsOwn ==
  ASSUME Base, WellFormed', OwnInv, NEW r \in Runs, CleanupCommit(r)
  PROVE  OwnInv'
  <1> DEFINE st == IF r \in failedRoot THEN "failed" ELSE "cancelled"
  <1>1. MayFinish(r) /\ Finalize(r, st) /\ st \in Terminal
    BY DEF CleanupCommit, Terminal
  <1>2. RunIsSound(r) /\ RunIsKept(r) /\ TypeOK /\ \A c \in Callers : CallIsSound(c)
    BY DEF OwnInv, Base, WellFormed
  <1>3. /\ cleanup[r] = "finalize" /\ cleanup'[r] = "announce"
        /\ \A q \in Runs \ {r} : cleanup'[q] = cleanup[q]
        /\ UNCHANGED <<phase, call, todo, pendingRes, task, cancelReq>>
    BY <1>2 DEF CleanupCommit, CleanupStep, TypeOK
  <1>4. AwaitsStart(r) => task'[r] = "none"
    BY <1>2, <1>3 DEF AwaitsStart, CallIsSound
  <1>5. task'[r] = "none" => cancelReq'[r] = "no"
    BY <1>2, <1>3 DEF RunIsSound
  <1>6. task'[r] \in {"new", "prep"} => ~ begun[r]
    BY <1>2, <1>3 DEF RunIsSound
  <1>7. task'[r] \in {"abort", "notify"} /\ begun[r] => cancelReq'[r] = "taken"
    BY <1>2, <1>3 DEF RunIsSound
  <1>8. phase = "up" /\ cancelReq'[r] = "sent" => cleanup'[r] = "await"
    BY <1>2, <1>3 DEF RunIsKept
  <1>9. phase \in {"draining", "cancelling", "finalizing"} =>
            (cleanup'[r] \in {"attempt", "finalize", "announce"} => phase = "draining" /\ r \in todo)
    BY <1>2, <1>3 DEF RunIsKept
  <1>10. phase \in {"cancelling", "finalizing"} =>
            (task'[r] # "none" => r \in todo /\ phase = "cancelling")
    BY <1>2, <1>3 DEF RunIsKept, Supervised
  <1>11. Serving
    BY <1>2, <1>3 DEF RunIsKept
  <1>12. \A q \in Runs \ {r} :
            task'[q] = task[q] /\ cancelReq'[q] = cancelReq[q] /\ cleanup'[q] = cleanup[q]
    BY <1>3
  <1>13. UNCHANGED <<phase, call, todo, pendingRes>>
    BY <1>3
  <1> HIDE DEF st
  <1>q. QED BY <1>1, <1>4, <1>5, <1>6, <1>7, <1>8, <1>9, <1>10, <1>11, <1>12, <1>13, SettlingKeepsOwn

\* The transaction of a daemon that stops or starts.
LEMMA BootSettlesKeepsOwn ==
  ASSUME Base, WellFormed', OwnInv, NEW r \in Runs, BootCommit(r)
  PROVE  OwnInv'
  <1>1. MayFinish(r) /\ Finalize(r, BootStatus) /\ BootStatus \in Terminal
    BY DEF BootCommit, BootMaySettle, BootStatus, Terminal
  <1>2. RunIsSound(r) /\ RunIsKept(r) /\ \A c \in Callers : CallIsSound(c)
    BY DEF OwnInv
  <1>3. /\ phase \in {"finalizing", "recovering"}
        /\ UNCHANGED <<phase, call, todo, pendingRes, task, cancelReq, cleanup>>
    BY DEF BootCommit
  <1>4. task'[r] = "none"
    BY <1>2, <1>3 DEF RunIsKept, Supervised, Serving
  <1>5. task'[r] = "none" => cancelReq'[r] = "no"
    BY <1>2, <1>3 DEF RunIsSound
  <1>6. cancelReq'[r] = "sent" => cleanup'[r] = "await"
    BY <1>4, <1>5
  <1>7. phase \in {"draining", "cancelling", "finalizing"} =>
            (cleanup'[r] \in {"attempt", "finalize", "announce"} => phase = "draining" /\ r \in todo)
    BY <1>2, <1>3 DEF RunIsKept
  <1>8. ~ Serving => task'[r] = "none" /\ cleanup'[r] = "none"
    BY <1>2, <1>3, <1>4 DEF RunIsKept
  <1>9. \A q \in Runs \ {r} :
            task'[q] = task[q] /\ cancelReq'[q] = cancelReq[q] /\ cleanup'[q] = cleanup[q]
    BY <1>3
  <1>10. UNCHANGED <<phase, call, todo, pendingRes>>
    BY <1>3
  <1>q. QED BY <1>1, <1>4, <1>5, <1>6, <1>7, <1>8, <1>9, <1>10, SettlingKeepsOwn

\* A step that only works on the cleanup of a run, or on what is still to be done.
LEMMA CareMovesKeepOwn ==
  ASSUME Base, WellFormed', OwnInv, NEW r \in Runs,
         UNCHANGED <<sessionVars, originVars, runVars, task, phase, call>>,
         \A q \in Runs \ {r} :
            /\ cancelReq'[q] = cancelReq[q] /\ cleanup'[q] = cleanup[q]
            /\ q \in pendingRes' <=> q \in pendingRes
            /\ q \in todo' <=> q \in todo,
         phase = "recovering" => pendingRes' = {},
         cleanup'[r] # "none" => status[r] # "absent",
         phase = "up" /\ cleanup[r] # "none" => cleanup'[r] # "none" \/ IsTerminal(r),
         task[r] = "none" => cancelReq'[r] = "no",
         task[r] \in {"abort", "notify"} /\ begun[r] => cancelReq'[r] = "taken",
         cleanup'[r] = "announce" => cleanup[r] = "announce",
         RunIsKept(r)'
  PROVE  OwnInv'
  <1>1. RunIsSound(r) /\ \A c \in Callers : CallIsSound(c)
    BY DEF OwnInv
  <1>2. IsTerminal(r)' = IsTerminal(r)
    BY DEF IsTerminal
  <1>3. RunIsSound(r)'
    BY <1>1, <1>2 DEF RunIsSound
  <1>4. \A s \in Sessions : active'[s] \in {active[s], NoRun}
    OBVIOUS
  <1>5. phase = "up" => \A q \in Runs \ {r} :
            IsUnfinished(q) /\ sessStatus[home[q]] # "closed" => sessStatus'[home[q]] # "closed"
    OBVIOUS
  <1>6. AwaitsStart(r) => task'[r] = "none" /\ ~ begun'[r]
    BY <1>1 DEF AwaitsStart, CallIsSound
  <1>7. \A q \in Runs \ {r} :
            /\ status'[q] = status[q] /\ begun'[q] = begun[q] /\ task'[q] = task[q]
            /\ cancelReq'[q] = cancelReq[q] /\ cleanup'[q] = cleanup[q]
            /\ q \in pendingRes' <=> q \in pendingRes
            /\ q \in todo' <=> q \in todo
    OBVIOUS
  <1>8. UNCHANGED <<phase, call, home>>
    OBVIOUS
  <1>9. phase = "up" /\ (cleanup[r] # "none" \/ IsTerminal(r)) => cleanup'[r] # "none" \/ IsTerminal(r)'
    BY <1>2
  <1>10. status[r] # "absent" => status'[r] # "absent"
    OBVIOUS
  <1>q. QED BY <1>3, <1>4, <1>5, <1>6, <1>7, <1>8, <1>9, <1>10, RunMovesKeepOwn

\* Steps of a cancellation task.
LEMMA CleanupKeepsOwn ==
  ASSUME Base, WellFormed', OwnInv, NEW r \in Runs, CleanupTaskStep(r), ~ CleanupCommit(r)
  PROVE  OwnInv'
  <1>1. RunIsSound(r) /\ RunIsKept(r) /\ TypeOK
    BY DEF OwnInv, Base, WellFormed
  <1>2. /\ UNCHANGED <<sessionVars, originVars, runVars, task, phase, call, todo>>
        /\ cleanup[r] # "none"
    BY DEF CleanupTaskStep, CleanupStep, CleanupSignals, CleanupAwaited, CleanupChecks, CleanupGivesUp,
       CleanupConfirmed, CleanupUnconfirmed, CleanupSettled, CleanupAnnounces
  <1>3. status[r] # "absent" /\ Serving
    BY <1>1, <1>2 DEF RunIsSound, RunIsKept
  <1>4. \A q \in Runs \ {r} :
            /\ cancelReq'[q] = cancelReq[q] /\ cleanup'[q] = cleanup[q]
            /\ q \in pendingRes' <=> q \in pendingRes
            /\ q \in todo' <=> q \in todo
    BY <1>1, <1>2 DEF TypeOK, CleanupTaskStep, CleanupStep, CleanupSignals, CleanupAwaited, CleanupChecks,
       CleanupGivesUp, CleanupConfirmed, CleanupUnconfirmed, CleanupSettled, CleanupAnnounces
  <1>5. IsTerminal(r)' = IsTerminal(r) /\ IsUnfinished(r)' = IsUnfinished(r)
        /\ AwaitsStart(r)' = AwaitsStart(r) /\ Supervised(r)' = Supervised(r) /\ Serving' = Serving
    BY <1>2 DEF IsTerminal, IsUnfinished, AwaitsStart, Supervised, Serving
  <1>6. IsUnfinished(r) => ~ IsTerminal(r)
    BY DEF IsTerminal, IsUnfinished, Terminal, Unfinished
  <1>7. ~ MayFinish(r) => IsTerminal(r)
    BY <1>1, <1>3 DEF MayFinish, IsTerminal, TypeOK, RunStatus
  <1> DEFINE Rules ==
        /\ phase = "up" => cleanup'[r] # "none" \/ IsTerminal(r)
        /\ task[r] = "none" => cancelReq'[r] = "no"
        /\ task[r] \in {"abort", "notify"} /\ begun[r] => cancelReq'[r] = "taken"
        /\ cleanup'[r] # "announce"
  <1> USE <1>1, <1>2, <1>3, <1>5, <1>6 DEF CleanupStep, TypeOK, RunIsSound, RunIsKept
  <1>8. ASSUME CleanupSignals(r) PROVE Rules /\ RunIsKept(r)'
    <2>1. Rules
      BY <1>8, <1>7 DEF CleanupSignals, Signal, Supervised
    <2>2. RunIsKept(r)'
      BY <1>8, <1>7 DEF CleanupSignals, Signal, Supervised
    <2>q. QED BY <2>1, <2>2
  <1>9. ASSUME CleanupAwaited(r) PROVE Rules /\ RunIsKept(r)'
    <2>1. Rules
      BY <1>9, <1>7 DEF CleanupAwaited, Supervised
    <2>2. RunIsKept(r)'
      BY <1>9, <1>7 DEF CleanupAwaited, Supervised
    <2>q. QED BY <2>1, <2>2
  <1>10. ASSUME CleanupChecks(r) PROVE Rules /\ RunIsKept(r)'
    <2>1. Rules
      BY <1>10, <1>7 DEF CleanupChecks, Closed
    <2>2. RunIsKept(r)'
      BY <1>10, <1>7 DEF CleanupChecks, Closed
    <2>q. QED BY <2>1, <2>2
  <1>11. ASSUME CleanupGivesUp(r) PROVE Rules /\ RunIsKept(r)'
    <2>1. Rules
      BY <1>11, <1>7 DEF CleanupGivesUp, Closed
    <2>2. RunIsKept(r)'
      BY <1>11, <1>7 DEF CleanupGivesUp, Closed
    <2>q. QED BY <2>1, <2>2
  <1>12. ASSUME CleanupConfirmed(r) PROVE Rules /\ RunIsKept(r)'
    <2>1. Rules
      BY <1>12, <1>7 DEF CleanupConfirmed
    <2>2. RunIsKept(r)'
      <3>1. /\ cleanup[r] = "attempt" /\ cleanup'[r] = "finalize"
            /\ UNCHANGED <<cancelReq, sessStatus, home, status>> /\ pendingRes' = pendingRes \ {r}
            /\ phase \notin {"cancelling", "finalizing"}
        BY <1>12 DEF CleanupConfirmed
      <3>q. QED BY <3>1 DEF Serving
    <2>q. QED BY <2>1, <2>2
  <1>13. ASSUME CleanupUnconfirmed(r) PROVE Rules /\ RunIsKept(r)'
    <2>1. Rules
      BY <1>13, <1>7 DEF CleanupUnconfirmed
    <2>2. RunIsKept(r)'
      BY <1>13, <1>7 DEF CleanupUnconfirmed
    <2>q. QED BY <2>1, <2>2
  <1>14. ASSUME CleanupSettled(r) PROVE Rules /\ RunIsKept(r)'
    <2>1. Rules
      BY <1>14, <1>7 DEF CleanupSettled, IsTerminal, Terminal
    <2>2. RunIsKept(r)'
      BY <1>14, <1>7 DEF CleanupSettled, IsTerminal, Terminal
    <2>q. QED BY <2>1, <2>2
  <1>15. ASSUME CleanupAnnounces(r) PROVE Rules /\ RunIsKept(r)'
    <2>1. Rules
      BY <1>15, <1>7 DEF CleanupAnnounces, IsTerminal, Terminal
    <2>2. RunIsKept(r)'
      BY <1>15, <1>7 DEF CleanupAnnounces, IsTerminal, Terminal
    <2>q. QED BY <2>1, <2>2
  <1>16. Rules /\ RunIsKept(r)'
    BY <1>8, <1>9, <1>10, <1>11, <1>12, <1>13, <1>14, <1>15 DEF CleanupTaskStep
  <1>17. phase = "recovering" => pendingRes' = {}
    BY <1>3 DEF Serving
  <1>q. QED BY <1>2, <1>3, <1>4, <1>16, <1>17, CareMovesKeepOwn

\* A tool call changes nothing that says who owns a run.
LEMMA ToolKeepsOwn ==
  ASSUME OwnInv, NEW r \in Runs, ToolStep(r)
  PROVE  OwnInv'
  <1>1. UNCHANGED <<sessionVars, originVars, runVars, task, cancelReq, cleanup, pendingRes, phase, todo,
          call>>
    BY DEF ToolStep, ToolStarts, ToolEnds
  <1>q. QED BY <1>1 DEF OwnInv, LocksAreExclusive, Past, CallIsSound, RunIsSound, RunIsKept, DeadIsEmpty,
     Serving, IsTerminal, IsUnfinished, AwaitsStart, Supervised

\* A client that cancels a run puts it in the care of a cleanup.
LEMMA RequestKeepsOwn ==
  ASSUME Base, WellFormed', OwnInv, NEW r \in Runs, RequestCancel(r)
  PROVE  OwnInv'
  <1>1. RunIsSound(r) /\ RunIsKept(r) /\ TypeOK
    BY DEF OwnInv, Base, WellFormed
  <1>2. /\ UNCHANGED <<sessionVars, originVars, runVars, task, phase, call, cancelReq, pendingRes, todo>>
        /\ phase = "up" /\ status[r] # "absent" /\ cleanup[r] = "none" /\ cleanup'[r] = "signal"
        /\ \A q \in Runs \ {r} : cleanup'[q] = cleanup[q]
    BY <1>1 DEF RequestCancel, StartCleanup, TypeOK
  <1>3. IsUnfinished(r)' = IsUnfinished(r)
        /\ AwaitsStart(r)' = AwaitsStart(r) /\ Supervised(r)' = Supervised(r) /\ Serving' = Serving
    BY <1>2 DEF IsUnfinished, AwaitsStart, Supervised, Serving
  <1>4. RunIsKept(r)'
    BY <1>1, <1>2, <1>3 DEF RunIsKept, Serving
  <1>5. task[r] = "none" => cancelReq'[r] = "no"
    BY <1>1, <1>2 DEF RunIsSound
  <1>6. task[r] \in {"abort", "notify"} /\ begun[r] => cancelReq'[r] = "taken"
    BY <1>1, <1>2 DEF RunIsSound
  <1>q. QED BY <1>2, <1>4, <1>5, <1>6, CareMovesKeepOwn

\* What shutdown and recovery have done with a run is done.
LEMMA BootKeepsOwn ==
  ASSUME Base, WellFormed', OwnInv, NEW r \in Runs, BootStep(r), ~ BootCommit(r)
  PROVE  OwnInv'
  <1>1. RunIsSound(r) /\ RunIsKept(r) /\ TypeOK /\ DeadIsEmpty
    BY DEF OwnInv, Base, WellFormed
  <1>2. /\ UNCHANGED <<sessionVars, originVars, runVars, task, phase, call, cancelReq, cleanup, pendingRes>>
        /\ todo' = todo \ {r}
    BY DEF BootStep, CancellationEnded, BootAnnounces, BootSkips
  <1>3. IsUnfinished(r)' = IsUnfinished(r)
        /\ AwaitsStart(r)' = AwaitsStart(r) /\ Supervised(r)' = Supervised(r) /\ Serving' = Serving
    BY <1>2 DEF IsUnfinished, AwaitsStart, Supervised, Serving
  <1>4. \/ phase = "draining" /\ cleanup[r] = "none"
        \/ phase \in {"finalizing", "recovering"} /\ (MayFinish(r) => r \in pendingRes)
    <2>1. CASE CancellationEnded(r)
      BY <2>1 DEF CancellationEnded
    <2>2. CASE BootSkips(r)
      BY <2>2 DEF BootSkips, BootMaySettle
    <2>3. CASE BootAnnounces(r)
      <3>1. term.run = r /\ term.by = "boot"
        BY <2>3 DEF BootAnnounces, Announce
      <3>2. IsTerminal(r) /\ phase \in {"finalizing", "recovering"}
        BY <3>1 DEF Base, AnnouncementsInOrder, BootAnnouncesAlone
      <3>q. QED BY <3>2 DEF IsTerminal, Terminal, MayFinish, Unfinished
    <2>q. QED BY <2>1, <2>2, <2>3 DEF BootStep
  <1>5. phase = "recovering" => pendingRes = {}
    BY <1>1 DEF DeadIsEmpty
  <1>6. RunIsKept(r)'
    <2>1. phase = "finalizing" => (status[r] = "running" => r \in pendingRes)
      BY <1>4 DEF MayFinish, Unfinished
    <2>2. phase = "recovering" => ~ IsUnfinished(r)
      BY <1>4, <1>5 DEF MayFinish, IsUnfinished
    <2>q. QED BY <1>1, <1>2, <1>3, <1>4, <2>1, <2>2 DEF RunIsKept, Serving
  <1>7. phase # "up"
    BY <1>4
  <1>8. task[r] = "none" => cancelReq'[r] = "no"
    BY <1>1, <1>2 DEF RunIsSound
  <1>9. task[r] \in {"abort", "notify"} /\ begun[r] => cancelReq'[r] = "taken"
    BY <1>1, <1>2 DEF RunIsSound
  <1>10. cleanup'[r] # "none" => status[r] # "absent"
    BY <1>1, <1>2 DEF RunIsSound
  <1>q. QED BY <1>1, <1>2, <1>5, <1>6, <1>7, <1>8, <1>9, <1>10, CareMovesKeepOwn

\* A task that leaves containers behind asks for a cleanup of its own.
LEMMA MarkPendingKeepsOwn ==
  ASSUME Base, WellFormed', OwnInv, NEW r \in Runs, MarkPending(r), RequestsCleanup(r)
  PROVE  OwnInv'
  <1>0. Supervised(r)
    BY DEF MarkPending, Supervised
  <1>1. RunIsSound(r) /\ RunIsKept(r) /\ ~ AwaitsStart(r) /\ status[r] # "absent" /\ Serving /\ TypeOK
    BY <1>0, WorkingTasks DEF Base, WellFormed
  <1>2. /\ UNCHANGED <<sessionVars, originVars, runVars, phase, call, pendingRes, todo>>
        /\ phase = "up" /\ task[r] = "mark" /\ cleanup[r] = "none"
        /\ task'[r] = "none" /\ cancelReq'[r] = "no" /\ cleanup'[r] = "signal"
        /\ \A q \in Runs \ {r} :
              task'[q] = task[q] /\ cancelReq'[q] = cancelReq[q] /\ cleanup'[q] = cleanup[q]
    BY <1>1 DEF MarkPending, RequestsCleanup, Closed, StartCleanup, TaskEnds, TypeOK
  <1>3. IsTerminal(r)' = IsTerminal(r) /\ IsUnfinished(r)' = IsUnfinished(r) /\ Serving' = Serving
    BY <1>2 DEF IsTerminal, IsUnfinished, Serving
  <1>4. RunIsSound(r)'
    BY <1>1, <1>2, <1>3 DEF RunIsSound
  <1>5. RunIsKept(r)'
    BY <1>1, <1>2, <1>3 DEF RunIsKept, Serving
  <1>6. \A s \in Sessions : active'[s] \in {active[s], NoRun}
    BY <1>2
  <1>7. phase = "up" => \A q \in Runs \ {r} :
            IsUnfinished(q) /\ sessStatus[home[q]] # "closed" => sessStatus'[home[q]] # "closed"
    BY <1>2
  <1>8. \A q \in Runs \ {r} :
            /\ status'[q] = status[q] /\ begun'[q] = begun[q] /\ task'[q] = task[q]
            /\ cancelReq'[q] = cancelReq[q] /\ cleanup'[q] = cleanup[q]
            /\ q \in pendingRes' <=> q \in pendingRes
            /\ q \in todo' <=> q \in todo
    BY <1>2
  <1>9. UNCHANGED <<phase, call, home>> /\ (status[r] # "absent" => status'[r] # "absent")
        /\ phase # "recovering" /\ cleanup'[r] # "none"
    BY <1>2
  <1>q. QED BY <1>1, <1>4, <1>5, <1>6, <1>7, <1>8, <1>9, RunMovesKeepOwn

\* Steps of a run's task.
LEMMA TaskKeepsOwn ==
  ASSUME Base, WellFormed', OwnInv, NEW r \in Runs, TaskStep(r)
  PROVE  OwnInv'
  <1>1. CASE QuietTaskStep(r)
    BY <1>1, QuietTaskSteps, QuietTaskKeepsOwn
  <1>2. CASE \/ AbortCommit(r) \/ FinishCommit(r)
             \/ AbortCancelled(r) /\ MayFinish(r) /\ Finalize(r, outcome[r])
    BY <1>2, TaskSettlesKeepsOwn
  <1>3. CASE MarkPending(r) /\ RequestsCleanup(r)
    BY <1>3, MarkPendingKeepsOwn
  <1>4. AbortCancelled(r) => \/ status' = status
                             \/ MayFinish(r) /\ Finalize(r, outcome[r])
    BY DEF AbortCancelled
  <1>5. CASE AbortCancelled(r)
    BY <1>1, <1>2, <1>4, <1>5 DEF QuietTaskStep
  <1>6. CASE MarkPending(r)
    BY <1>1, <1>3, <1>6 DEF QuietTaskStep
  <1>q. QED BY <1>1, <1>2, <1>5, <1>6 DEF TaskStep, QuietTaskStep

-------------------------------------------------------------------------------
(* Client operations keep the runs owned *)

\* A step of an operation that neither adds a run nor starts one.
LEMMA CallMovesKeepOwn ==
  ASSUME Base, OwnInv, NEW c \in Callers, Serving,
         UNCHANGED <<status, home, begun, task, cancelReq, pendingRes, todo, phase>>,
         \A d \in Callers \ {c} : call'[d] = call[d],
         call[c].pc # "start", call'[c].pc # "start",
         Past(c)' => call'[c].s = call[c].s /\ (Past(c) \/ LockFree(call[c].s)),
         CallIsSound(c)',
         \A s \in Sessions : active'[s] \in {active[s], NoRun},
         \A q \in Runs : \/ cleanup'[q] = cleanup[q]
                         \/ cleanup[q] = "none" /\ cleanup'[q] = "signal" /\ status[q] # "absent",
         phase = "up" => \A q \in Runs :
            IsUnfinished(q) /\ sessStatus[home[q]] # "closed" => sessStatus'[home[q]] # "closed"
  PROVE  OwnInv'
  <1>1. Serving' /\ DeadIsEmpty'
    BY DEF Serving, DeadIsEmpty
  <1>2. LocksAreExclusive'
    <2>1. ASSUME NEW d \in Callers, d # c, Past(c)', Past(d)', call'[c].s = call'[d].s PROVE FALSE
      <3>1. call[d].s = call[c].s /\ Past(d)
        BY <2>1 DEF Past
      <3>2. ~ Past(c)
        BY <3>1, <2>1 DEF OwnInv, LocksAreExclusive
      <3>3. LockFree(call[c].s)
        BY <3>2, <2>1
      <3>q. QED BY <3>1, <3>3 DEF LockFree, Past
    <2>2. ASSUME NEW d \in Callers, NEW e \in Callers, d # c, e # c,
                 Past(d)', Past(e)', call'[d].s = call'[e].s
          PROVE  d = e
      BY <2>2 DEF OwnInv, LocksAreExclusive, Past
    <2>q. QED BY <2>1, <2>2 DEF LocksAreExclusive
  <1>3. \A q \in Runs : /\ IsTerminal(q)' = IsTerminal(q) /\ IsUnfinished(q)' = IsUnfinished(q)
                        /\ Supervised(q)' = Supervised(q)
    BY DEF IsTerminal, IsUnfinished, Supervised
  <1>4. \A q : AwaitsStart(q)' <=> AwaitsStart(q)
    BY DEF AwaitsStart
  <1>5. ASSUME NEW q \in Runs PROVE RunIsSound(q)' /\ RunIsKept(q)'
    <2>1. RunIsSound(q) /\ RunIsKept(q)
      BY DEF OwnInv
    <2>2. IsTerminal(q)' = IsTerminal(q) /\ IsUnfinished(q)' = IsUnfinished(q)
          /\ Supervised(q)' = Supervised(q) /\ (AwaitsStart(q)' <=> AwaitsStart(q))
      BY <1>3, <1>4
    <2>3. \/ cleanup'[q] = cleanup[q]
          \/ cleanup[q] = "none" /\ cleanup'[q] = "signal" /\ status[q] # "absent"
      OBVIOUS
    <2>4. RunIsSound(q)'
      BY <2>1, <2>2, <2>3 DEF RunIsSound
    <2>5. phase = "up" /\ IsUnfinished(q) => sessStatus'[home[q]] # "closed"
      BY <2>1 DEF RunIsKept
    <2>6. RunIsKept(q)'
      BY <1>1, <2>1, <2>2, <2>3, <2>5 DEF RunIsKept, Serving
    <2>q. QED BY <2>4, <2>6
  <1>6. ASSUME NEW d \in Callers PROVE CallIsSound(d)'
    <2>1. CASE d = c
      BY <2>1
    <2>2. CASE d # c
      <3>1. CallIsSound(d) /\ call'[d] = call[d]
            /\ (call[d].pc = "cancelling" => call[d].r \in Runs)
            /\ (Past(d) => call[d].s \in Sessions)
        BY <2>2 DEF OwnInv, Base, WellFormed, CallsKnown, CallKnown, Past
      <3>2. call[d].pc = "cancelling" =>
               /\ IsTerminal(call[d].r)' = IsTerminal(call[d].r)
               /\ cleanup[call[d].r] # "none" => cleanup'[call[d].r] # "none"
        BY <3>1, <1>3
      <3>q. QED BY <3>1, <3>2 DEF CallIsSound, Past
    <2>q. QED BY <2>1, <2>2
  <1>q. QED BY <1>1, <1>2, <1>5, <1>6 DEF OwnInv

\* An operation is in progress only in a daemon that serves.
LEMMA BusyCallers ==
  ASSUME Base, OwnInv, NEW c \in Callers, call[c].pc # "idle"
  PROVE  /\ Serving /\ call[c].s \in Sessions /\ call[c] \in Call
         /\ CallIsSound(c) /\ CallKnown(c)
  BY DEF OwnInv, DeadIsEmpty, Idle, Base, WellFormed, TypeOK, CallsKnown, CallKnown

\* An operation that ends without a step of its own leaves things as they are.
LEMMA ReturnKeepsOwn ==
  ASSUME Base, OwnInv, NEW c \in Callers, Return(c), call[c] # Idle, call[c].pc # "start",
         UNCHANGED <<sessionVars, originVars, runVars, toolVars, taskVars, cleanVars, daemonVars>>
  PROVE  OwnInv'
  <1>1. call'[c] = Idle /\ \A d \in Callers \ {c} : call'[d] = call[d]
    BY DEF Return, Base, WellFormed, TypeOK
  <1>2. call'[c].pc = "idle"
    BY <1>1 DEF Idle
  <1>3. CallIsSound(c)' /\ ~ Past(c)'
    BY <1>2 DEF CallIsSound, Past
  <1>4. Serving
    BY DEF OwnInv, DeadIsEmpty
  <1>5. \A q \in Runs : \/ cleanup'[q] = cleanup[q]
                        \/ cleanup[q] = "none" /\ cleanup'[q] = "signal" /\ status[q] # "absent"
    OBVIOUS
  <1>6. \A s \in Sessions : active'[s] \in {active[s], NoRun}
    OBVIOUS
  <1>7. phase = "up" => \A q \in Runs :
            IsUnfinished(q) /\ sessStatus[home[q]] # "closed" => sessStatus'[home[q]] # "closed"
    OBVIOUS
  <1>q. QED BY <1>1, <1>2, <1>3, <1>4, <1>5, <1>6, <1>7, CallMovesKeepOwn

\* close_session finds the active run of the session and hands it to a cleanup.
LEMMA CloseBeginsKeepsOwn ==
  ASSUME Base, OwnInv, NEW c \in Callers, CloseBegins(c)
  PROVE  OwnInv'
  <1> DEFINE s == call[c].s
  <1> DEFINE r == active[s]
  <1>1. /\ HasLock(c, "close") /\ call[c].pc = "wait" /\ LockFree(s)
        /\ UNCHANGED <<sessionVars, originVars, runVars, taskVars, pendingRes, daemonVars>>
    BY DEF CloseBegins, HasLock
  <1>2. Serving /\ s \in Sessions /\ call[c] \in Call /\ TypeOK
    BY <1>1, BusyCallers DEF Base, WellFormed
  <1>3. /\ \A d \in Callers \ {c} : call'[d] = call[d]
        /\ call'[c].s = s
        /\ \/ r = NoRun /\ call'[c].pc = "closing" /\ cleanup' = cleanup
           \/ r # NoRun /\ call'[c].pc = "cancelling" /\ call'[c].r = r /\ StartCleanup(r)
    BY <1>2 DEF CloseBegins, RunToCancel, TypeOK, Call
  <1>4. r # NoRun => r \in Runs /\ status[r] # "absent"
    <2>1. r # NoRun => r \in Runs /\ status[r] \in Unfinished
      BY <1>2 DEF TypeOK, Base, SlotsMatchRuns
    <2>q. QED BY <2>1 DEF Unfinished
  <1>5. \A q \in Runs : \/ cleanup'[q] = cleanup[q]
                        \/ cleanup[q] = "none" /\ cleanup'[q] = "signal" /\ status[q] # "absent"
    BY <1>2, <1>3, <1>4 DEF StartCleanup, TypeOK
  <1>6. r # NoRun => cleanup'[r] # "none"
    BY <1>2, <1>3, <1>4 DEF StartCleanup, TypeOK
  <1>7. CallIsSound(c)'
    BY <1>1, <1>3, <1>6 DEF CallIsSound
  <1>8. call[c].pc # "start" /\ call'[c].pc # "start"
    BY <1>1, <1>3
  <1>9. Past(c)' => call'[c].s = call[c].s /\ (Past(c) \/ LockFree(call[c].s))
    BY <1>1, <1>3
  <1>10. \A t \in Sessions : active'[t] \in {active[t], NoRun}
    BY <1>1
  <1>11. phase = "up" => \A q \in Runs :
            IsUnfinished(q) /\ sessStatus[home[q]] # "closed" => sessStatus'[home[q]] # "closed"
    BY <1>1
  <1>12. UNCHANGED <<status, home, begun, task, cancelReq, pendingRes, todo, phase>>
    BY <1>1
  <1>q. QED BY <1>2, <1>3, <1>5, <1>7, <1>8, <1>9, <1>10, <1>11, <1>12, CallMovesKeepOwn

\* The cleanup that a close waits for has ended, so the session is at work on nothing.
LEMMA CloseWaitedKeepsOwn ==
  ASSUME Base, OwnInv, NEW c \in Callers, CloseWaited(c)
  PROVE  OwnInv'
  <1>1. /\ call[c].pc = "cancelling" /\ cleanup[call[c].r] = "none"
        /\ UNCHANGED <<sessionVars, originVars, runVars, taskVars, cleanVars, daemonVars>>
    BY DEF CloseWaited
  <1>2. /\ Serving /\ call[c].s \in Sessions /\ call[c] \in Call
        /\ CallIsSound(c) /\ CallKnown(c) /\ TypeOK
    BY <1>1, BusyCallers DEF Base, WellFormed
  <1>3. /\ \A d \in Callers \ {c} : call'[d] = call[d]
        /\ call'[c].s = call[c].s /\ call'[c].pc = "closing"
    BY <1>2 DEF CloseWaited, TypeOK, Call
  <1>4. phase = "up" => active[call[c].s] = NoRun
    <2>1. phase = "up" => active[call[c].s] \in {NoRun, call[c].r} /\ IsTerminal(call[c].r)
      BY <1>1, <1>2 DEF CallIsSound
    <2>2. active[call[c].s] # NoRun => status[active[call[c].s]] \in Unfinished
      BY <1>2 DEF Base, SlotsMatchRuns
    <2>q. QED BY <2>1, <2>2 DEF IsTerminal, Terminal, Unfinished
  <1>5. CallIsSound(c)'
    BY <1>1, <1>3, <1>4 DEF CallIsSound
  <1>6. Past(c) /\ call[c].pc # "start" /\ call'[c].pc # "start"
    BY <1>1, <1>3 DEF Past
  <1>7. Past(c)' => call'[c].s = call[c].s /\ (Past(c) \/ LockFree(call[c].s))
    BY <1>3, <1>6
  <1>8. \A t \in Sessions : active'[t] \in {active[t], NoRun}
    BY <1>1
  <1>9. \A q \in Runs : \/ cleanup'[q] = cleanup[q]
                        \/ cleanup[q] = "none" /\ cleanup'[q] = "signal" /\ status[q] # "absent"
    BY <1>1
  <1>10. phase = "up" => \A q \in Runs :
            IsUnfinished(q) /\ sessStatus[home[q]] # "closed" => sessStatus'[home[q]] # "closed"
    BY <1>1
  <1>11. UNCHANGED <<status, home, begun, task, cancelReq, pendingRes, todo, phase>>
    BY <1>1
  <1>q. QED BY <1>2, <1>3, <1>5, <1>6, <1>7, <1>8, <1>9, <1>10, <1>11, CallMovesKeepOwn

\* A session is closed when no run of it is unfinished.
LEMMA CloseCommitKeepsOwn ==
  ASSUME Base, OwnInv, NEW c \in Callers, CloseCommit(c)
  PROVE  OwnInv'
  <1> DEFINE s == call[c].s
  <1>1. /\ call[c].pc = "closing" /\ Return(c)
        /\ UNCHANGED <<originVars, runVars, taskVars, cleanVars, daemonVars>>
    BY DEF CloseCommit
  <1>2. Serving /\ s \in Sessions /\ CallIsSound(c) /\ TypeOK
    BY <1>1, BusyCallers DEF Base, WellFormed
  <1>3. /\ call'[c] = Idle /\ \A d \in Callers \ {c} : call'[d] = call[d]
        /\ active' = [active EXCEPT ![s] = NoRun]
        /\ sessStatus' = [sessStatus EXCEPT ![s] = "closed"]
    BY <1>1, <1>2 DEF CloseCommit, Return, TypeOK
  <1>4. call'[c].pc = "idle"
    BY <1>3 DEF Idle
  <1>5. CallIsSound(c)' /\ ~ Past(c)'
    BY <1>4 DEF CallIsSound, Past
  <1>6. \A t \in Sessions : active'[t] \in {active[t], NoRun}
    BY <1>2, <1>3 DEF TypeOK
  <1>7. ASSUME phase = "up", NEW q \in Runs, IsUnfinished(q), sessStatus[home[q]] # "closed"
        PROVE  sessStatus'[home[q]] # "closed"
    <2>1. active[s] = NoRun
      BY <1>1, <1>2, <1>7 DEF CallIsSound
    <2>2. active[home[q]] = q
      BY <1>7 DEF Base, SlotsMatchRuns
    <2>3. home[q] # s
      BY <2>1, <2>2, ConstantsAssumption
    <2>q. QED BY <1>2, <1>3, <1>7, <2>3 DEF TypeOK
  <1>8. \A q \in Runs : \/ cleanup'[q] = cleanup[q]
                        \/ cleanup[q] = "none" /\ cleanup'[q] = "signal" /\ status[q] # "absent"
    BY <1>1
  <1>9. UNCHANGED <<status, home, begun, task, cancelReq, pendingRes, todo, phase>>
    BY <1>1
  <1>10. call[c].pc # "start" /\ call'[c].pc # "start"
    BY <1>1, <1>4
  <1>q. QED BY <1>2, <1>3, <1>5, <1>6, <1>7, <1>8, <1>9, <1>10, CallMovesKeepOwn

\* A client request that the daemon accepts, or a new session.
LEMMA AcceptKeepsOwn ==
  ASSUME Base, WellFormed', OwnInv, ClientStep
  PROVE  OwnInv'
  <1>1. TypeOK
    BY DEF Base, WellFormed
  <1>2. ASSUME NEW c \in Callers, NEW request \in Call, AcceptCall(c, request), request.pc = "wait"
        PROVE  OwnInv'
    <2>1. /\ phase = "up" /\ call[c] = Idle
          /\ call'[c] = request /\ \A d \in Callers \ {c} : call'[d] = call[d]
          /\ UNCHANGED <<sessionVars, originVars, runVars, taskVars, cleanVars, daemonVars>>
      BY <1>1, <1>2 DEF AcceptCall, TypeOK
    <2>2. call[c].pc # "start" /\ call'[c].pc # "start" /\ Serving
      BY <1>2, <2>1 DEF Idle, Serving
    <2>3. CallIsSound(c)' /\ ~ Past(c)'
      BY <1>2, <2>1 DEF CallIsSound, Past
    <2>4. \A t \in Sessions : active'[t] \in {active[t], NoRun}
      BY <2>1
    <2>5. \A q \in Runs : \/ cleanup'[q] = cleanup[q]
                          \/ cleanup[q] = "none" /\ cleanup'[q] = "signal" /\ status[q] # "absent"
      BY <2>1
    <2>6. phase = "up" => \A q \in Runs :
            IsUnfinished(q) /\ sessStatus[home[q]] # "closed" => sessStatus'[home[q]] # "closed"
      BY <2>1
    <2>7. UNCHANGED <<status, home, begun, task, cancelReq, pendingRes, todo, phase>>
      BY <2>1
    <2>q. QED BY <2>1, <2>2, <2>3, <2>4, <2>5, <2>6, <2>7, CallMovesKeepOwn
  <1>3. ASSUME NEW s \in Sessions, CreateSession(s) PROVE OwnInv'
    <2>1. /\ UNCHANGED <<active, originVars, runVars, taskVars, cleanVars, daemonVars, call>>
          /\ sessStatus' = [sessStatus EXCEPT ![s] = "ready"]
      BY <1>3 DEF CreateSession
    <2>2. \A q \in Runs : /\ IsTerminal(q)' = IsTerminal(q) /\ IsUnfinished(q)' = IsUnfinished(q)
                          /\ Supervised(q)' = Supervised(q) /\ AwaitsStart(q)' = AwaitsStart(q)
      BY <2>1 DEF IsTerminal, IsUnfinished, Supervised, AwaitsStart
    <2>3. LocksAreExclusive' /\ DeadIsEmpty' /\ Serving' = Serving
      BY <2>1 DEF OwnInv, LocksAreExclusive, Past, DeadIsEmpty, Serving
    <2>4. ASSUME NEW c \in Callers PROVE CallIsSound(c)'
      <3>1. CallIsSound(c) /\ (call[c].pc = "cancelling" => call[c].r \in Runs)
        BY DEF OwnInv, Base, WellFormed, CallsKnown, CallKnown
      <3>2. call[c].pc = "cancelling" => IsTerminal(call[c].r)' = IsTerminal(call[c].r)
        BY <2>1 DEF IsTerminal
      <3>q. QED BY <2>1, <3>1, <3>2 DEF CallIsSound
    <2>5. ASSUME NEW q \in Runs PROVE RunIsSound(q)' /\ RunIsKept(q)'
      <3>1. RunIsSound(q) /\ RunIsKept(q)
        BY DEF OwnInv
      <3>2. sessStatus[home[q]] # "closed" => sessStatus'[home[q]] # "closed" \/ status[q] = "absent"
        BY <1>1, <2>1 DEF TypeOK, Base, WellFormed, OriginsKnown
      <3>3. IsUnfinished(q) => status[q] # "absent"
        BY DEF IsUnfinished, Unfinished
      <3>4. RunIsSound(q)'
        BY <2>1, <2>2, <3>1 DEF RunIsSound
      <3>5. RunIsKept(q)'
        BY <2>1, <2>2, <2>3, <3>1, <3>2, <3>3 DEF RunIsKept
      <3>q. QED BY <3>4, <3>5
    <2>q. QED BY <2>3, <2>4, <2>5 DEF OwnInv
  <1>4. ASSUME NEW c \in Callers, NEW s \in Sessions, AcceptClose(c, s) PROVE OwnInv'
    <2> DEFINE request == [Idle EXCEPT !.op = "close", !.pc = "wait", !.s = s]
    <2>1. request \in Call /\ request.pc = "wait"
      BY DEF Idle, Call
    <2>q. QED BY <1>2, <1>4, <2>1 DEF AcceptClose
  <1>5. ASSUME NEW c \in Callers, NEW s \in Sessions, NEW k \in Keys \union {NoKey}, AcceptSubmit(c, s, k)
        PROVE  OwnInv'
    <2> DEFINE request == [Idle EXCEPT !.op = "submit", !.pc = "wait", !.s = s, !.k = k]
    <2>1. request \in Call /\ request.pc = "wait"
      BY DEF Idle, Call
    <2>q. QED BY <1>2, <1>5, <2>1 DEF AcceptSubmit
  <1>6. ASSUME NEW c \in Callers, NEW r \in Runs, NEW ok \in BOOLEAN, AcceptRetry(c, r, ok) PROVE OwnInv'
    <2> DEFINE request == [Idle EXCEPT !.op = "retry", !.pc = "wait", !.s = home[r], !.r = r, !.ok = ok]
    <2>1. home[r] \in Sessions \union {NoSession}
      BY <1>1 DEF TypeOK
    <2>2. request \in Call /\ request.pc = "wait"
      BY <2>1 DEF Idle, Call
    <2>q. QED BY <1>2, <1>6, <2>2 DEF AcceptRetry
  <1>7. ASSUME NEW r \in Runs, RequestCancel(r) PROVE OwnInv'
    BY <1>7, RequestKeepsOwn
  <1>q. QED BY <1>3, <1>4, <1>5, <1>6, <1>7 DEF ClientStep

(***************************************************************************)
(* A run that a transaction adds has nobody but its operation, and the     *)
(* lock keeps other operations on the session out.                         *)
(***************************************************************************)
LEMMA AddRunKeepsOwn ==
  ASSUME Base, WellFormed', OwnInv, NEW c \in Callers, NEW r \in Runs,
         call[c].pc = "wait", LockFree(call[c].s), CanAccept(call[c].s),
         NEW t, NEW k, NEW n, NEW original, AddRun(c, r, t, k, n, original)
  PROVE  OwnInv'
  <1> DEFINE s == call[c].s
  <1>1. Serving /\ s \in Sessions /\ call[c] \in Call /\ TypeOK
    BY BusyCallers DEF Base, WellFormed
  <1>2. RunIsSound(r) /\ status[r] = "absent"
    BY DEF OwnInv, AddRun
  <1>3. task[r] = "none" /\ cleanup[r] = "none" /\ ~ begun[r] /\ cancelReq[r] = "no"
    BY <1>1, <1>2 DEF RunIsSound, TypeOK
  <1>4. /\ call'[c].pc = "start" /\ call'[c].r = r /\ call'[c].s = s
        /\ \A d \in Callers \ {c} : call'[d] = call[d]
    BY <1>1 DEF AddRun, TypeOK, Call
  <1>5. /\ status'[r] = "queued" /\ home'[r] = s /\ sessStatus'[s] = "running"
        /\ \A q \in Runs \ {r} : status'[q] = status[q] /\ home'[q] = home[q]
        /\ \A u \in Sessions \ {s} : active'[u] = active[u] /\ sessStatus'[u] = sessStatus[u]
        /\ UNCHANGED <<begun, taskVars, cleanVars, daemonVars>>
    BY <1>1 DEF AddRun, TypeOK
  <1>6. \A d \in Callers : Past(d) => call[d].s # s
    BY DEF LockFree, Past
  <1>7. LocksAreExclusive'
    <2>1. ASSUME NEW d \in Callers, d # c, Past(d)' PROVE call'[d].s # s
      BY <1>4, <1>6, <2>1 DEF Past
    <2>2. ASSUME NEW d \in Callers, NEW e \in Callers, d # c, e # c,
                 Past(d)', Past(e)', call'[d].s = call'[e].s
          PROVE  d = e
      BY <1>4, <2>2 DEF OwnInv, LocksAreExclusive, Past
    <2>q. QED BY <1>4, <2>1, <2>2 DEF LocksAreExclusive
  <1>8. DeadIsEmpty'
    BY <1>1, <1>5 DEF DeadIsEmpty, Serving
  <1>9. ASSUME NEW q \in Runs PROVE RunIsSound(q)' /\ RunIsKept(q)'
    <2>1. RunIsSound(q) /\ RunIsKept(q)
      BY DEF OwnInv
    <2>2. Supervised(q)' = Supervised(q) /\ Serving' = Serving
      BY <1>5 DEF Supervised, Serving
    <2>3. CASE q = r
      <3>1. IsUnfinished(q)' /\ AwaitsStart(q)' /\ sessStatus'[home'[q]] # "closed"
        BY <1>4, <1>5, <2>3 DEF IsUnfinished, Unfinished, AwaitsStart
      <3>2. RunIsSound(q)'
        BY <1>3, <1>5, <2>3 DEF RunIsSound
      <3>3. RunIsKept(q)'
        BY <1>1, <1>3, <1>5, <2>1, <2>2, <2>3, <3>1 DEF RunIsKept, Serving, Supervised
      <3>q. QED BY <3>2, <3>3
    <2>4. CASE q # r
      <3>1. IsTerminal(q)' = IsTerminal(q) /\ IsUnfinished(q)' = IsUnfinished(q)
        BY <1>5, <2>4 DEF IsTerminal, IsUnfinished
      <3>2. AwaitsStart(q) => AwaitsStart(q)'
        BY <1>4 DEF AwaitsStart
      <3>3. IsUnfinished(q) /\ sessStatus[home[q]] # "closed" => sessStatus'[home'[q]] # "closed"
        <4>1. IsUnfinished(q) => home[q] \in Sessions
          BY DEF IsUnfinished, Unfinished, Base, WellFormed, OriginsKnown
        <4>q. QED BY <1>5, <2>4, <4>1
      <3>4. RunIsSound(q)'
        BY <1>5, <2>1, <2>4, <3>1 DEF RunIsSound
      <3>5. RunIsKept(q)'
        BY <1>5, <2>1, <2>2, <2>4, <3>1, <3>2, <3>3 DEF RunIsKept
      <3>q. QED BY <3>4, <3>5
    <2>q. QED BY <2>3, <2>4
  <1>10. ASSUME NEW d \in Callers PROVE CallIsSound(d)'
    <2>1. CASE d = c
      BY <1>3, <1>4, <1>5, <2>1 DEF CallIsSound
    <2>2. CASE d # c
      <3>1. CallIsSound(d) /\ call'[d] = call[d]
            /\ (call[d].pc \in {"start", "cancelling"} => call[d].r \in Runs)
            /\ (Past(d) => call[d].s \in Sessions \ {s})
        BY <1>4, <1>6, <2>2 DEF OwnInv, Base, WellFormed, CallsKnown, CallKnown, Past
      <3>2. CASE call[d].pc = "start"
        <4>1. call[d].r # r
          BY <1>2, <3>1, <3>2 DEF CallIsSound
        <4>q. QED BY <1>5, <3>1, <3>2, <4>1 DEF CallIsSound
      <3>3. CASE call[d].pc = "cancelling" /\ phase = "up"
        <4>1. cleanup[call[d].r] # "none" \/ IsTerminal(call[d].r)
          BY <3>1, <3>3 DEF CallIsSound
        <4>2. call[d].r # r
          BY <1>2, <1>3, <4>1 DEF IsTerminal, Terminal
        <4>3. IsTerminal(call[d].r)' = IsTerminal(call[d].r)
          BY <1>5, <3>1, <3>3, <4>2 DEF IsTerminal
        <4>4. active'[call[d].s] = active[call[d].s]
          BY <1>5, <3>1, <3>3 DEF Past
        <4>q. QED BY <1>5, <3>1, <3>3, <4>1, <4>3, <4>4 DEF CallIsSound
      <3>4. CASE call[d].pc = "closing"
        <4>1. active'[call[d].s] = active[call[d].s]
          BY <1>5, <3>1, <3>4 DEF Past
        <4>q. QED BY <1>5, <3>1, <3>4, <4>1 DEF CallIsSound
      <3>5. phase' = phase
        BY <1>5
      <3>6. CASE \/ call[d].pc \notin {"start", "cancelling", "closing"}
                 \/ call[d].pc = "cancelling" /\ phase # "up"
        BY <3>1, <3>5, <3>6 DEF CallIsSound
      <3>q. QED BY <3>2, <3>3, <3>4, <3>6
    <2>q. QED BY <2>1, <2>2
  <1>q. QED BY <1>7, <1>8, <1>9, <1>10 DEF OwnInv

\* The operation hands the run it added to a task.
LEMMA StartRunKeepsOwn ==
  ASSUME Base, WellFormed', OwnInv, NEW c \in Callers, StartRun(c)
  PROVE  OwnInv'
  <1> DEFINE r == call[c].r
  <1>1. /\ call[c].pc = "start" /\ task' = [task EXCEPT ![r] = "new"] /\ Return(c)
        /\ UNCHANGED <<sessionVars, originVars, runVars, cancelReq, cleanVars, daemonVars>>
    BY DEF StartRun
  <1>2. /\ Serving /\ call[c].s \in Sessions /\ TypeOK /\ r \in Runs
        /\ CallIsSound(c) /\ RunIsSound(r) /\ RunIsKept(r) /\ phase \in {"up", "stopping"}
    BY <1>1, BusyCallers DEF Base, WellFormed, CallKnown, OwnInv, SubmissionsPrecedeClose
  <1>3. /\ home[r] = call[c].s /\ status[r] # "absent" /\ task[r] = "none" /\ ~ begun[r]
        /\ cancelReq[r] = "no"
    BY <1>1, <1>2 DEF CallIsSound, RunIsSound
  <1>4. /\ call'[c].pc = "idle"
        /\ \A d \in Callers \ {c} : call'[d] = call[d]
        /\ task'[r] = "new" /\ \A q \in Runs \ {r} : task'[q] = task[q]
    BY <1>1, <1>2 DEF Return, Idle, TypeOK
  <1>5. \A q \in Runs : IsTerminal(q)' = IsTerminal(q) /\ IsUnfinished(q)' = IsUnfinished(q)
    BY <1>1 DEF IsTerminal, IsUnfinished
  <1>6. LocksAreExclusive'
    BY <1>4 DEF OwnInv, LocksAreExclusive, Past
  <1>7. DeadIsEmpty' /\ Serving' = Serving
    BY <1>1, <1>2 DEF DeadIsEmpty, Serving
  <1>8. ASSUME NEW d \in Callers PROVE CallIsSound(d)'
    <2>1. CASE d = c
      BY <1>4, <2>1 DEF CallIsSound
    <2>2. CASE d # c
      <3>1. CallIsSound(d) /\ call'[d] = call[d]
            /\ (call[d].pc \in {"start", "cancelling"} => call[d].r \in Runs)
        BY <1>4, <2>2 DEF OwnInv, Base, WellFormed, CallsKnown, CallKnown
      <3>2. CASE call[d].pc = "start"
        <4>1. call[d].r # r
          BY <1>1, <1>3, <2>2, <3>1, <3>2 DEF CallIsSound, OwnInv, LocksAreExclusive, Past
        <4>q. QED BY <1>1, <1>4, <3>1, <3>2, <4>1 DEF CallIsSound
      <3>3. CASE call[d].pc = "cancelling"
        <4>1. IsTerminal(call[d].r)' = IsTerminal(call[d].r)
          BY <1>1, <3>1 DEF IsTerminal
        <4>q. QED BY <1>1, <3>1, <3>3, <4>1 DEF CallIsSound
      <3>4. CASE call[d].pc \notin {"start", "cancelling"}
        BY <1>1, <3>1, <3>4 DEF CallIsSound
      <3>q. QED BY <3>2, <3>3, <3>4
    <2>q. QED BY <2>1, <2>2
  <1>9. ASSUME NEW q \in Runs PROVE RunIsSound(q)' /\ RunIsKept(q)'
    <2>1. RunIsSound(q) /\ RunIsKept(q)
      BY DEF OwnInv
    <2>2. CASE q = r
      <3>1. RunIsSound(q)'
        BY <1>1, <1>3, <1>4, <1>5, <2>1, <2>2 DEF RunIsSound
      <3>2. RunIsKept(q)'
        BY <1>1, <1>2, <1>3, <1>4, <1>5, <1>7, <2>1, <2>2 DEF RunIsKept, RunIsSound, Supervised, Serving
      <3>q. QED BY <3>1, <3>2
    <2>3. CASE q # r
      <3>1. AwaitsStart(q) => AwaitsStart(q)'
        BY <1>4, <2>3 DEF AwaitsStart
      <3>2. Supervised(q)' = Supervised(q)
        BY <1>4, <2>3 DEF Supervised
      <3>3. RunIsSound(q)'
        BY <1>1, <1>4, <1>5, <2>1, <2>3 DEF RunIsSound
      <3>4. RunIsKept(q)'
        BY <1>1, <1>4, <1>5, <1>7, <2>1, <2>3, <3>1, <3>2 DEF RunIsKept
      <3>q. QED BY <3>3, <3>4
    <2>q. QED BY <2>2, <2>3
  <1>q. QED BY <1>6, <1>7, <1>8, <1>9 DEF OwnInv

\* Steps of a client operation.
LEMMA CallKeepsOwn ==
  ASSUME Base, WellFormed', OwnInv, NEW c \in Callers, CallStep(c)
  PROVE  OwnInv'
  <1>1. CASE SubmitAnswered(c) \/ RetryAnswered(c)
    BY <1>1, ReturnKeepsOwn DEF SubmitAnswered, RetryAnswered, HasLock, Idle
  <1>2. CASE CloseAborted(c)
    <2>1. call[c].op = "close" /\ call[c].pc # "start" /\ call[c] # Idle
      BY <1>2 DEF CloseAborted, Base, WellFormed, CallsKnown, CallKnown, Owned, Idle
    <2>q. QED BY <1>2, <2>1, ReturnKeepsOwn DEF CloseAborted
  <1>3. CASE CloseBegins(c) \/ CloseWaited(c) \/ CloseCommit(c)
    BY <1>3, CloseBeginsKeepsOwn, CloseWaitedKeepsOwn, CloseCommitKeepsOwn
  <1>4. CASE StartRun(c)
    BY <1>4, StartRunKeepsOwn
  <1>5. ASSUME NEW r \in Runs, SubmitCommit(c, r) PROVE OwnInv'
    BY <1>5, AddRunKeepsOwn DEF SubmitCommit, HasLock
  <1>6. ASSUME NEW r \in Runs, NEW latest \in Runs, RetryCommit(c, r, latest) PROVE OwnInv'
    BY <1>6, AddRunKeepsOwn DEF RetryCommit, HasLock
  <1>q. QED BY <1>1, <1>2, <1>3, <1>4, <1>5, <1>6 DEF CallStep

-------------------------------------------------------------------------------
(* The ends of a process keep the runs owned *)

\* A step of the daemon that leaves runs, tasks and operations alone.
LEMMA PhaseMovesKeepOwn ==
  ASSUME Base, OwnInv,
         UNCHANGED <<sessionVars, originVars, runVars, task, cleanup, call, pendingRes>>,
         phase' = "up" => phase = "up" \/ \A c \in Callers : call[c] = Idle,
         Serving' => Serving \/ \A r \in Runs : ~ IsUnfinished(r),
         ~ Serving' => ~ Serving,
         phase' = "recovering" => phase = "recovering",
         \A r \in Runs : \/ cancelReq'[r] = cancelReq[r]
                         \/ task[r] # "none" /\ cancelReq'[r] = Signal(r),
         \A r \in Runs : RunIsKept(r)'
  PROVE  OwnInv'
  <1>1. LocksAreExclusive' /\ DeadIsEmpty'
    BY DEF OwnInv, LocksAreExclusive, Past, DeadIsEmpty
  <1>2. \A r \in Runs : IsTerminal(r)' = IsTerminal(r)
    BY DEF IsTerminal
  <1>3. ASSUME NEW c \in Callers PROVE CallIsSound(c)'
    <2>1. CallIsSound(c) /\ (call[c].pc \in {"start", "cancelling"} => call[c].r \in Runs)
      BY DEF OwnInv, Base, WellFormed, CallsKnown, CallKnown
    <2>2. CASE call[c].pc = "cancelling" /\ phase = "up"
      <3>1. IsTerminal(call[c].r)' = IsTerminal(call[c].r)
        BY DEF IsTerminal
      <3>q. QED BY <2>1, <2>2, <3>1 DEF CallIsSound
    <2>3. CASE ~ (call[c].pc = "cancelling" /\ phase = "up")
      BY <2>1, <2>3 DEF CallIsSound, Idle
    <2>q. QED BY <2>2, <2>3
  <1>4. ASSUME NEW r \in Runs PROVE RunIsSound(r)'
    <2>1. RunIsSound(r) /\ IsTerminal(r)' = IsTerminal(r)
      BY <1>2 DEF OwnInv
    <2>2. \/ cancelReq'[r] = cancelReq[r]
          \/ task[r] # "none" /\ (cancelReq[r] = "taken" => cancelReq'[r] = "taken")
      BY DEF Signal
    <2>q. QED BY <2>1, <2>2 DEF RunIsSound
  <1>q. QED BY <1>1, <1>3, <1>4 DEF OwnInv

\* Steps of a shutdown.
LEMMA ShutdownKeepsOwn ==
  ASSUME Base, OwnInv,
         BeginShutdown \/ WaitForCancellations \/ SupervisorShutdown \/ TasksEnded \/ Recovered
  PROVE  OwnInv'
  <1>1. UNCHANGED <<sessionVars, originVars, runVars, task, cleanup, call, pendingRes>>
    BY DEF BeginShutdown, WaitForCancellations, SupervisorShutdown, TasksEnded, Recovered
  <1>2. \A r \in Runs : \/ cancelReq'[r] = cancelReq[r]
                        \/ task[r] # "none" /\ cancelReq'[r] = Signal(r)
    BY DEF BeginShutdown, WaitForCancellations, SupervisorShutdown, TasksEnded, Recovered, Supervised
  <1>3. \A r \in Runs : /\ RunIsKept(r) /\ RunIsSound(r)
                        /\ IsUnfinished(r)' = IsUnfinished(r) /\ Supervised(r)' = Supervised(r)
    BY <1>1 DEF OwnInv, IsUnfinished, Supervised
  <1>4. phase = "recovering" => \A c \in Callers : call[c] = Idle
    BY DEF OwnInv, DeadIsEmpty, Serving
  <1>5. CASE BeginShutdown
    <2>1. phase = "up" /\ phase' = "stopping" /\ UNCHANGED <<todo, cancelReq>> /\ Serving /\ Serving'
      BY <1>5 DEF BeginShutdown, Serving
    <2>2. \A r \in Runs : RunIsKept(r)'
      BY <1>1, <1>3, <2>1 DEF RunIsKept
    <2>q. QED BY <1>1, <1>2, <2>1, <2>2, PhaseMovesKeepOwn
  <1>6. CASE WaitForCancellations
    <2>1. /\ phase = "stopping" /\ phase' = "draining" /\ UNCHANGED cancelReq /\ Serving /\ Serving'
          /\ \A r \in Runs : cleanup[r] # "none" => r \in todo'
      BY <1>6 DEF WaitForCancellations, Cancellations, Serving
    <2>2. \A r \in Runs : RunIsKept(r)'
      BY <1>1, <1>3, <2>1 DEF RunIsKept
    <2>q. QED BY <1>1, <1>2, <2>1, <2>2, PhaseMovesKeepOwn
  <1>7. CASE SupervisorShutdown
    <2>1. /\ phase = "draining" /\ phase' = "cancelling" /\ Serving /\ Serving' /\ todo = {}
          /\ \A r \in Runs : Supervised(r) => r \in todo'
      BY <1>7 DEF SupervisorShutdown, Serving
    <2>2. \A r \in Runs : RunIsKept(r)'
      BY <1>1, <1>3, <2>1 DEF RunIsKept, Supervised
    <2>q. QED BY <1>1, <1>2, <2>1, <2>2, PhaseMovesKeepOwn
  <1>8. CASE TasksEnded
    <2>1. /\ phase = "cancelling" /\ phase' = "finalizing" /\ Serving /\ Serving'
          /\ UNCHANGED <<todo, cancelReq>> /\ \A r \in Runs : ~ Supervised(r)
      BY <1>8 DEF TasksEnded, Serving
    <2>2. \A r \in Runs : RunIsKept(r)'
      BY <1>1, <1>3, <2>1 DEF RunIsKept
    <2>q. QED BY <1>1, <1>2, <2>1, <2>2, PhaseMovesKeepOwn
  <1>9. CASE Recovered
    <2>1. /\ phase = "recovering" /\ phase' = "up" /\ ~ Serving /\ Serving'
          /\ UNCHANGED <<todo, cancelReq>> /\ todo = {}
      BY <1>9 DEF Recovered, Serving
    <2>2. \A r \in Runs : ~ IsUnfinished(r) /\ task[r] = "none" /\ cancelReq[r] = "no"
            /\ status[r] # "running"
      BY <1>3, <2>1 DEF RunIsKept, RunIsSound, IsUnfinished, Unfinished, Supervised
    <2>3. \A r \in Runs : RunIsKept(r)'
      BY <1>1, <1>3, <2>1, <2>2 DEF RunIsKept
    <2>q. QED BY <1>1, <1>2, <1>4, <2>1, <2>2, <2>3, PhaseMovesKeepOwn
  <1>q. QED BY <1>5, <1>6, <1>7, <1>8, <1>9

\* The end of a process leaves unfinished runs to the recovery of the next.
LEMMA EndKeepsOwn ==
  ASSUME Base, OwnInv, Stop \/ Crash \/ Restart
  PROVE  OwnInv'
  <1>1. UNCHANGED <<sessionVars, originVars, runVars>>
    BY DEF Stop, Crash, Restart
  <1>2. \A r \in Runs : /\ RunIsKept(r) /\ RunIsSound(r)
                        /\ IsUnfinished(r)' = IsUnfinished(r) /\ IsTerminal(r)' = IsTerminal(r)
    BY <1>1 DEF OwnInv, IsUnfinished, IsTerminal
  <1>3. phase' \in {"down", "dead", "recovering"}
    BY DEF Stop, Crash, Restart
  <1>4. \A c \in Callers : call'[c] = Idle
    <2>1. CASE Stop \/ Crash
      BY <2>1 DEF Stop, Crash, LoseVolatile
    <2>2. CASE Restart
      BY <2>2 DEF Restart, OwnInv, DeadIsEmpty, Serving
    <2>q. QED BY <2>1, <2>2
  <1>5. \A r \in Runs : task'[r] = "none" /\ cleanup'[r] = "none" /\ cancelReq'[r] = "no"
    <2>1. CASE Stop \/ Crash
      BY <2>1 DEF Stop, Crash, LoseVolatile
    <2>2. CASE Restart
      BY <1>2, <2>2 DEF Restart, RunIsKept, RunIsSound, Serving
    <2>q. QED BY <2>1, <2>2
  <1>6. LocksAreExclusive' /\ \A c \in Callers : CallIsSound(c)'
    BY <1>4 DEF LocksAreExclusive, Past, CallIsSound, Idle
  <1>7. DeadIsEmpty'
    BY <1>4 DEF DeadIsEmpty, Stop, Crash, Restart
  <1>8. \A r \in Runs : RunIsSound(r)'
    BY <1>1, <1>2, <1>5 DEF RunIsSound
  <1>9. \A r \in Runs : (phase' = "down" => (status[r] = "running" => r \in pendingRes'))
    BY <1>2 DEF Stop, Crash, Restart, RunIsKept
  <1>10. \A r \in Runs : (phase' = "recovering" => (IsUnfinished(r) => r \in todo'))
    BY DEF Stop, Crash, Restart, LeftUnfinished, MayFinish, IsUnfinished
  <1>11. \A r \in Runs : RunIsKept(r)'
    BY <1>1, <1>2, <1>3, <1>5, <1>9, <1>10 DEF RunIsKept, Serving, Supervised
  <1>q. QED BY <1>6, <1>7, <1>8, <1>11 DEF OwnInv

\* Every step keeps the runs owned.
LEMMA NextKeepsOwn ==
  ASSUME Base, OwnInv, [Next]_vars
  PROVE  OwnInv'
  <1>0. WellFormed'
    BY NextKeepsBase DEF Base
  <1>1. CASE ClientStep
    BY <1>0, <1>1, AcceptKeepsOwn
  <1>2. CASE BeginShutdown \/ WaitForCancellations \/ SupervisorShutdown \/ TasksEnded \/ Recovered
    BY <1>2, ShutdownKeepsOwn
  <1>3. CASE Stop \/ Crash \/ Restart
    BY <1>3, EndKeepsOwn
  <1>4. ASSUME NEW c \in Callers, CallStep(c) PROVE OwnInv'
    BY <1>0, <1>4, CallKeepsOwn
  <1>5. ASSUME NEW r \in Runs, ToolStep(r) PROVE OwnInv'
    BY <1>5, ToolKeepsOwn
  <1>6. ASSUME NEW r \in Runs, TaskStep(r) PROVE OwnInv'
    BY <1>0, <1>6, TaskKeepsOwn
  <1>7. ASSUME NEW r \in Runs, CleanupTaskStep(r) PROVE OwnInv'
    BY <1>0, <1>7, CleanupKeepsOwn, CleanupSettlesKeepsOwn
  <1>8. ASSUME NEW r \in Runs, BootStep(r) PROVE OwnInv'
    BY <1>0, <1>8, BootKeepsOwn, BootSettlesKeepsOwn
  <1>9. CASE UNCHANGED vars
    BY <1>9 DEF OwnInv, LocksAreExclusive, Past, CallIsSound, RunIsSound, RunIsKept, DeadIsEmpty, Serving,
       IsTerminal, IsUnfinished, AwaitsStart, Supervised
  <1>q. QED BY <1>1, <1>2, <1>3, <1>4, <1>5, <1>6, <1>7, <1>8, <1>9 DEF Next, Environment, DaemonStep

(***************************************************************************)
(* At every moment each unfinished run is accounted for: whoever is to     *)
(* settle it is there, whatever interleaves in RuntimeService.             *)
(***************************************************************************)
THEOREM OwnInvHolds == Spec => [](Base /\ OwnInv)
  <1>1. Init => BootAnnouncesAlone
    BY DEF Init, BootAnnouncesAlone, Free
  <1>2. Init => WellFormed /\ SlotsMatchRuns
    BY InitWellFormed, ConstantsAssumption DEF Init, SlotsMatchRuns, IsUnfinished, Unfinished
  <1>3. Init => AnnouncementsInOrder /\ SubmissionsPrecedeClose
    BY ConstantsAssumption DEF Init, AnnouncementsInOrder, Free, Idle, Owned, SubmissionsPrecedeClose
  <1>4. Init => OwnInv
    BY DEF Init, OwnInv, LocksAreExclusive, Past, CallIsSound, RunIsSound, RunIsKept, DeadIsEmpty, Serving,
       IsTerminal, IsUnfinished, Unfinished, Idle
  <1>5. Init => Base /\ OwnInv
    BY <1>1, <1>2, <1>3, <1>4 DEF Base
  <1>6. Base /\ OwnInv /\ [Next]_vars => Base' /\ OwnInv'
    BY NextKeepsBase, NextKeepsOwn
  <1>q. QED BY <1>5, <1>6, PTL DEF Spec

(***************************************************************************)
(* While the daemon serves clients no unfinished run is an orphan, and its *)
(* session is open: close_session cancels the active run, behind the lock  *)
(* that keeps another run from starting.                                   *)
(***************************************************************************)
THEOREM RunsAlwaysOwned == Spec => []UnfinishedRunsAreOwned
  <1>1. OwnInv => UnfinishedRunsAreOwned
    BY DEF OwnInv, RunIsKept, UnfinishedRunsAreOwned
  <1>q. QED BY <1>1, OwnInvHolds, PTL

\* The ways a cleanup of a serving daemon may end.
LEMMA CleanupEnds ==
  ASSUME TypeOK, Next, NEW r \in Runs,
         phase' = "up", cleanup[r] # "none", cleanup'[r] = "none"
  PROVE  CleanupSettled(r) \/ CleanupAnnounces(r) \/ CleanupGivesUp(r)
  <1> USE DEF TypeOK
  <1>1. CASE ClientStep
    BY <1>1 DEF ClientStep, CreateSession, RequestCancel, StartCleanup, AcceptClose, AcceptSubmit,
       AcceptRetry, AcceptCall
  <1>2. CASE BeginShutdown \/ WaitForCancellations \/ SupervisorShutdown \/ TasksEnded \/ Restart
               \/ Recovered \/ Stop \/ Crash
    BY <1>2 DEF BeginShutdown, WaitForCancellations, SupervisorShutdown, TasksEnded, Restart, Recovered,
       Stop, Crash
  <1>3. ASSUME NEW c \in Callers, CallStep(c) PROVE FALSE
    <2>1. CASE CloseBegins(c)
      BY <2>1 DEF CloseBegins, RunToCancel, StartCleanup
    <2>2. CASE ~ CloseBegins(c)
      BY <1>3, <2>2 DEF CallStep, SubmitAnswered, RetryAnswered, StartRun, CloseWaited, CloseCommit,
         CloseAborted, SubmitCommit, RetryCommit, AddRun
    <2>q. QED BY <2>1, <2>2
  <1>4. ASSUME NEW q \in Runs, ToolStep(q) PROVE FALSE
    BY <1>4 DEF ToolStep, ToolStarts, ToolEnds
  <1>5. ASSUME NEW q \in Runs, TaskStep(q) PROVE FALSE
    <2>1. CASE MarkPending(q)
      BY <2>1 DEF MarkPending, StartCleanup
    <2>2. CASE ~ MarkPending(q)
      BY <1>5, <2>2 DEF TaskStep, FirstStep, BeginRun, BeginFails, BeginCancelled, AbortCommit,
         AbortSettled, AbortCancelled, RunnerReturns, RunnerLeavesResources, FinishCommit, FinishSettled,
         TaskAnnounces, NotifyCancelled, MarkCancelled
    <2>q. QED BY <2>1, <2>2
  <1>6. ASSUME NEW q \in Runs, CleanupTaskStep(q), ~ (CleanupSettled(r) \/ CleanupAnnounces(r)
                 \/ CleanupGivesUp(r))
        PROVE  FALSE
    BY <1>6 DEF CleanupTaskStep, CleanupStep, CleanupSignals, CleanupAwaited, CleanupChecks, CleanupGivesUp,
       CleanupConfirmed, CleanupUnconfirmed, CleanupCommit, CleanupSettled, CleanupAnnounces
  <1>7. ASSUME NEW q \in Runs, BootStep(q) PROVE FALSE
    BY <1>7 DEF BootStep, CancellationEnded, BootCommit, BootAnnounces, BootSkips
  <1>q. QED BY <1>1, <1>2, <1>3, <1>4, <1>5, <1>6, <1>7 DEF Next, Environment, DaemonStep

(***************************************************************************)
(* A client that waited for a cancellation reads a settled run: a cleanup  *)
(* of a serving daemon gives nothing up.                                   *)
(***************************************************************************)
THEOREM CancelAlwaysReturnsSettled == Spec => CancelReturnsSettled
  <1>1. ASSUME Base, OwnInv, Next, NEW r \in Runs,
               phase = "up", phase' = "up", cleanup[r] # "none", cleanup'[r] = "none"
        PROVE  IsTerminal(r)'
    <2>1. RunIsSound(r) /\ TypeOK /\ SlotsMatchRuns
      BY <1>1 DEF OwnInv, Base, WellFormed
    <2>2. IsTerminal(r) => IsTerminal(r)'
      BY <1>1, SettledStaysSettled DEF Base, IsTerminal
    <2>3. CASE CleanupSettled(r)
      BY <1>1, <2>1, <2>2, <2>3 DEF CleanupSettled, MayFinish, IsTerminal, RunIsSound, TypeOK, RunStatus
    <2>4. CASE CleanupAnnounces(r)
      BY <2>1, <2>2, <2>4 DEF CleanupAnnounces, CleanupStep, RunIsSound
    <2>5. CASE CleanupGivesUp(r)
      BY <1>1, <2>5 DEF CleanupGivesUp, Closed
    <2>6. \/ CleanupSettled(r) \/ CleanupAnnounces(r) \/ CleanupGivesUp(r)
      BY <1>1, <2>1, CleanupEnds
    <2>q. QED BY <2>3, <2>4, <2>5, <2>6
  <1>2. Base /\ OwnInv /\ Base' /\ OwnInv' /\ [Next]_vars =>
           [\A r \in Runs : phase = "up" /\ phase' = "up" /\ cleanup[r] # "none" /\ cleanup'[r] = "none"
               => IsTerminal(r)']_vars
    BY <1>1
  <1>q. QED BY <1>2, OwnInvHolds, PTL DEF Spec, CancelReturnsSettled

-------------------------------------------------------------------------------
(* Nothing outlives a settled run: the inductive invariant *)

(***************************************************************************)
(* What is over with a settled run.  A process that ends between the       *)
(* transaction and the announcement takes the announcement with it.        *)
(***************************************************************************)
SettledIsOver(r) ==
    IsTerminal(r) =>
        /\ task[r] \in {"none", "announce", "notify"}
        /\ ~ openTool[r]
        /\ begun[r] => announced[r] = 1 \/ term.run = r \/ stops > 0

\* Nobody has touched a run that waits for its start.
StartIsFresh(r) == AwaitsStart(r) => status[r] = "queued" /\ cleanup[r] = "none"

\* A cleanup looks at the containers when the task is gone for good.
CleanupIsAlone(r) == cleanup[r] \in {"check", "attempt", "finalize"} => ~ Supervised(r)

\* A container belongs to a run at work, or the daemon knows that it was left behind.
ContainersAreKnown(r) ==
    held[r] =>
        /\ IsUnfinished(r) /\ begun[r] /\ task[r] \in {"exec", "mark", "none"}
        /\ cleanup[r] # "finalize" /\ phase # "recovering"
        /\ Serving /\ task[r] # "exec" => r \in pendingRes

\* The runner is at work on a run that was marked as begun.
RunnersHaveBegun(r) == task[r] = "exec" => begun[r]

\* Only settled runs are retried, with their side effects confirmed.
RetriesAreMeant(r) ==
    \A q \in Runs : retryOf[q] = r => IsTerminal(r) /\ (effects[r] => confirmed[q])

\* The task that is to announce its run holds the terminal lock.
AnnouncerHasLock(r) ==
    task[r] \in {"announce", "notify"} => term = [run |-> r, by |-> "task"]

RunIsOver(r) ==
    /\ SettledIsOver(r) /\ StartIsFresh(r) /\ CleanupIsAlone(r)
    /\ ContainersAreKnown(r) /\ RunnersHaveBegun(r) /\ RetriesAreMeant(r) /\ AnnouncerHasLock(r)

StopsAreCounted == phase # "up" => stops > 0

\* No cancellation of the run came before its task.
Timely(r) == missed[r] # "start"

\* What holds of every run, those included whose cancellation came before their task.
RunIsKnown(r) == AnnouncerHasLock(r) /\ (status[r] = "absent" => Timely(r))

OverInv == StopsAreCounted /\ \A r \in Runs : RunIsKnown(r) /\ (Timely(r) => RunIsOver(r))

\* A step on one run leaves the others as they were.
LEMMA RunMovesKeepOver ==
  ASSUME OverInv, NEW r \in Runs,
         UNCHANGED <<phase, stops, retryOf, confirmed>>,
         \A q \in Runs \ {r} :
            /\ status'[q] = status[q] /\ begun'[q] = begun[q] /\ task'[q] = task[q]
            /\ cleanup'[q] = cleanup[q] /\ openTool'[q] = openTool[q] /\ effects'[q] = effects[q]
            /\ held'[q] = held[q] /\ announced'[q] = announced[q]
            /\ q \in pendingRes' <=> q \in pendingRes
            /\ AwaitsStart(q)' => AwaitsStart(q)
            /\ Timely(q)' <=> Timely(q)
            /\ term.run = q => term' = term,
         RunIsKnown(r)', Timely(r)' => RunIsOver(r)'
  PROVE  OverInv'
  <1>1. StopsAreCounted'
    BY DEF OverInv, StopsAreCounted
  <1>3. ASSUME NEW q \in Runs, q # r PROVE RunIsKnown(q)'
    <2>1. RunIsKnown(q)
      BY DEF OverInv
    <2>q. QED BY <1>3, <2>1 DEF RunIsKnown, AnnouncerHasLock
  <1>2. ASSUME NEW q \in Runs, q # r, Timely(q)' PROVE RunIsOver(q)'
    <2>1. RunIsOver(q)
      BY <1>2 DEF OverInv
    <2>2. /\ status'[q] = status[q] /\ begun'[q] = begun[q] /\ task'[q] = task[q]
          /\ cleanup'[q] = cleanup[q] /\ openTool'[q] = openTool[q] /\ effects'[q] = effects[q]
          /\ held'[q] = held[q] /\ announced'[q] = announced[q]
          /\ q \in pendingRes' <=> q \in pendingRes
          /\ AwaitsStart(q)' => AwaitsStart(q)
          /\ term.run = q => term' = term
      BY <1>2
    <2>3. /\ IsTerminal(q)' = IsTerminal(q) /\ IsUnfinished(q)' = IsUnfinished(q)
          /\ Supervised(q)' = Supervised(q) /\ Serving' = Serving
      BY <2>2 DEF IsTerminal, IsUnfinished, Supervised, Serving
    <2>4. SettledIsOver(q)'
      BY <2>1, <2>2, <2>3 DEF RunIsOver, SettledIsOver
    <2>5. StartIsFresh(q)' /\ CleanupIsAlone(q)'
      BY <2>1, <2>2, <2>3 DEF RunIsOver, StartIsFresh, CleanupIsAlone
    <2>6. ContainersAreKnown(q)' /\ RunnersHaveBegun(q)'
      BY <2>1, <2>2, <2>3 DEF RunIsOver, ContainersAreKnown, RunnersHaveBegun
    <2>7. RetriesAreMeant(q)'
      BY <2>1, <2>2, <2>3 DEF RunIsOver, RetriesAreMeant
    <2>8. AnnouncerHasLock(q)'
      BY <2>1, <2>2 DEF RunIsOver, AnnouncerHasLock
    <2>q. QED BY <2>4, <2>5, <2>6, <2>7, <2>8 DEF RunIsOver
  <1>q. QED BY <1>1, <1>2, <1>3 DEF OverInv

\* The task of a run leaves nothing behind that the run does not answer for.
LEMMA TaskKeepsRunOver ==
  ASSUME Base, OwnInv, OverInv, TypeOK', NEW r \in Runs, RunIsOver(r), TaskStep(r) \/ ToolStep(r)
  PROVE  RunIsOver(r)'
  <1>0. Supervised(r)
    BY DEF Supervised, TaskStep, ToolStep, FirstStep, BeginRun, BeginFails, BeginCancelled, AbortCommit,
       AbortSettled, AbortCancelled, RunnerReturns, RunnerLeavesResources, FinishCommit, FinishSettled,
       TaskAnnounces, NotifyCancelled, Unshielded, MarkPending, MarkCancelled, ToolStarts, ToolEnds
  <1>1. /\ RunIsSound(r) /\ RunIsKept(r) /\ ~ AwaitsStart(r) /\ status[r] # "absent"
        /\ Serving /\ TypeOK /\ RunIsOver(r)
    BY <1>0, WorkingTasks DEF Base, WellFormed, OverInv
  <1>2. UNCHANGED <<phase, stops, call, retryOf, confirmed>> /\ cleanup'[r] \in {cleanup[r], "signal"}
    <2>1. CASE MarkPending(r)
      BY <1>1, <2>1 DEF MarkPending, StartCleanup, TypeOK
    <2>2. CASE ~ MarkPending(r)
      <3>1. UNCHANGED <<phase, stops, call, cleanup>>
        BY <2>2 DEF TaskStep, ToolStep, FirstStep, BeginRun, BeginFails, BeginCancelled, AbortCommit,
           AbortSettled, AbortCancelled, RunnerReturns, RunnerLeavesResources, FinishCommit, FinishSettled,
           TaskAnnounces, NotifyCancelled, Unshielded, MarkPending, MarkCancelled, ToolStarts, ToolEnds
      <3>2. UNCHANGED <<retryOf, confirmed>>
        BY <2>2 DEF Finalize, FinishRun, Settle, TaskStep, ToolStep, FirstStep, BeginRun, BeginFails,
           BeginCancelled, AbortCommit, AbortSettled, AbortCancelled, RunnerReturns, RunnerLeavesResources,
           FinishCommit, FinishSettled, TaskAnnounces, NotifyCancelled, Unshielded, MarkPending,
           MarkCancelled, ToolStarts, ToolEnds
      <3>q. QED BY <3>1, <3>2
    <2>q. QED BY <2>1, <2>2
  <1>3. StartIsFresh(r)' /\ CleanupIsAlone(r)'
    <2>1. ~ AwaitsStart(r)'
      BY <1>1, <1>2 DEF AwaitsStart
    <2>2. cleanup[r] \notin {"check", "attempt", "finalize"}
      BY <1>0, <1>1 DEF RunIsOver, CleanupIsAlone
    <2>q. QED BY <1>2, <2>1, <2>2 DEF StartIsFresh, CleanupIsAlone
  <1>4. task[r] \in {"abort", "finish"} => outcome[r] \in Terminal
    BY DEF Base, WellFormed, OutcomesKnown
  <1>5. IsTerminal(r) => IsTerminal(r)' /\ task[r] \in {"announce", "notify"}
    <2>1. IsTerminal(r) => task[r] \in {"announce", "notify"}
      BY <1>0, <1>1 DEF RunIsOver, SettledIsOver, Supervised
    <2>q. QED BY <1>1, <2>1 DEF IsTerminal, TaskStep, ToolStep, FirstStep, BeginRun, BeginFails,
       BeginCancelled, AbortCommit, AbortSettled, AbortCancelled, RunnerReturns, RunnerLeavesResources,
       FinishCommit, FinishSettled, TaskAnnounces, NotifyCancelled, Unshielded, MarkPending, MarkCancelled,
       ToolStarts, ToolEnds
  <1>6. RetriesAreMeant(r)'
    <2>1. RetriesAreMeant(r) /\ (IsTerminal(r) => effects' = effects)
      BY <1>1, <1>5 DEF RunIsOver, TaskStep, ToolStep, FirstStep, BeginRun, BeginFails, BeginCancelled,
         AbortCommit, AbortSettled, AbortCancelled, RunnerReturns, RunnerLeavesResources, FinishCommit,
         FinishSettled, TaskAnnounces, NotifyCancelled, Unshielded, MarkPending, MarkCancelled, ToolStarts,
         ToolEnds
    <2>q. QED BY <1>2, <1>5, <2>1 DEF RetriesAreMeant
  <1>7. AnnouncerHasLock(r)'
    BY <1>1 DEF RunIsOver, AnnouncerHasLock, TypeOK, Proceed, TaskEnds, Lock, TaskStep, ToolStep, FirstStep,
       BeginRun, BeginFails, BeginCancelled, AbortCommit, AbortSettled, AbortCancelled, RunnerReturns,
       RunnerLeavesResources, FinishCommit, FinishSettled, TaskAnnounces, NotifyCancelled, Unshielded,
       MarkPending, MarkCancelled, ToolStarts, ToolEnds
  <1>8. IsUnfinished(r) \/ IsTerminal(r)
    BY <1>1 DEF IsUnfinished, IsTerminal, TypeOK, RunStatus
  <1>9. ContainersAreKnown(r)'
    <2>1. ContainersAreKnown(r) /\ SettledIsOver(r)
      BY <1>1 DEF RunIsOver
    <2>2. CASE held'[r] /\ task[r] \in {"exec", "mark"}
      <3>1. IsUnfinished(r)
        BY <1>8, <2>1, <2>2 DEF SettledIsOver
      <3>2. status' = status
        BY <2>2 DEF TaskStep, ToolStep, FirstStep, BeginRun, BeginFails, BeginCancelled, AbortCommit,
           AbortSettled, AbortCancelled, RunnerReturns, RunnerLeavesResources, FinishCommit, FinishSettled,
           TaskAnnounces, NotifyCancelled, Unshielded, MarkPending, MarkCancelled, ToolStarts, ToolEnds
      <3>3. task'[r] \in {"exec", "mark", "none"} /\ phase' # "recovering"
        <4>1. task'[r] \in {"exec", "mark", "none"} \/ RunnerReturns(r)
          BY <1>1, <2>2 DEF TaskStep, ToolStep, FirstStep, BeginRun, BeginFails, BeginCancelled,
             AbortCommit, AbortSettled, AbortCancelled, RunnerReturns, RunnerLeavesResources, FinishCommit,
             FinishSettled, TaskAnnounces, NotifyCancelled, Unshielded, MarkPending, MarkCancelled,
             ToolStarts, ToolEnds, Proceed, TaskEnds, TypeOK
        <4>2. RunnerReturns(r) => ~ held'[r]
          BY <1>1 DEF RunnerReturns, TypeOK
        <4>q. QED BY <1>1, <1>2, <2>2, <4>1, <4>2 DEF Serving
      <3>4. cleanup'[r] # "finalize"
        BY <1>0, <1>1, <1>2 DEF RunIsOver, CleanupIsAlone
      <3>5. task'[r] # "exec" => r \in pendingRes'
        <4>1. CASE RunnerLeavesResources(r)
          BY <4>1 DEF RunnerLeavesResources
        <4>2. CASE MarkPending(r) \/ MarkCancelled(r)
          <5>1. held[r] /\ task[r] = "mark"
            BY <2>2, <4>2 DEF MarkPending, MarkCancelled
          <5>2. pendingRes' = pendingRes
            BY <4>2 DEF MarkPending, MarkCancelled
          <5>q. QED BY <1>1, <2>1, <5>1, <5>2 DEF ContainersAreKnown
        <4>3. CASE ToolStep(r)
          BY <4>3 DEF ToolStep, ToolStarts, ToolEnds
        <4>4. CASE RunnerReturns(r)
          BY <1>1, <2>2, <4>4 DEF RunnerReturns, TypeOK
        <4>q. QED BY <2>2, <4>1, <4>2, <4>3, <4>4 DEF TaskStep, ToolStep, FirstStep, BeginRun, BeginFails,
           BeginCancelled, AbortCommit, AbortSettled, AbortCancelled, RunnerReturns, RunnerLeavesResources,
           FinishCommit, FinishSettled, TaskAnnounces, NotifyCancelled, Unshielded, MarkPending,
           MarkCancelled, ToolStarts, ToolEnds
      <3>6. begun'[r]
        <4>1. begun[r]
          BY <1>1, <2>1, <2>2 DEF RunIsOver, RunnersHaveBegun, RunnerReturns, ContainersAreKnown, TaskStep,
             ToolStep, FirstStep, BeginRun, BeginFails, BeginCancelled, AbortCommit, AbortSettled,
             AbortCancelled, RunnerReturns, RunnerLeavesResources, FinishCommit, FinishSettled,
             TaskAnnounces, NotifyCancelled, Unshielded, MarkPending, MarkCancelled, ToolStarts, ToolEnds
        <4>2. UNCHANGED begun
          BY <2>2 DEF TaskStep, ToolStep, FirstStep, BeginRun, BeginFails, BeginCancelled, AbortCommit,
             AbortSettled, AbortCancelled, RunnerReturns, RunnerLeavesResources, FinishCommit,
             FinishSettled, TaskAnnounces, NotifyCancelled, Unshielded, MarkPending, MarkCancelled,
             ToolStarts, ToolEnds
        <4>q. QED BY <4>1, <4>2
      <3>q. QED BY <3>1, <3>2, <3>3, <3>4, <3>5, <3>6 DEF ContainersAreKnown, IsUnfinished
    <2>3. CASE task[r] \notin {"exec", "mark"}
      <3>1. held' = held
        BY <2>3 DEF TaskStep, ToolStep, FirstStep, BeginRun, BeginFails, BeginCancelled, AbortCommit,
           AbortSettled, AbortCancelled, RunnerReturns, RunnerLeavesResources, FinishCommit, FinishSettled,
           TaskAnnounces, NotifyCancelled, Unshielded, MarkPending, MarkCancelled, ToolStarts, ToolEnds,
           Finalize, FinishRun, Settle
      <3>2. ~ held[r]
        BY <1>0, <2>1, <2>3 DEF ContainersAreKnown, Supervised
      <3>q. QED BY <3>1, <3>2 DEF ContainersAreKnown
    <2>4. CASE ~ held'[r]
      BY <2>4 DEF ContainersAreKnown
    <2>q. QED BY <2>2, <2>3, <2>4
  <1>10. SettledIsOver(r)'
    <2>1. CASE AbortCommit(r) \/ FinishCommit(r)
      <3>1. /\ task'[r] \in {"announce", "notify"} /\ openTool' = [openTool EXCEPT ![r] = FALSE]
            /\ term'.run = r
        BY <1>1, <2>1 DEF AbortCommit, FinishCommit, Finalize, FinishRun, Settle, Proceed, Lock, TypeOK
      <3>q. QED BY <1>1, <3>1 DEF SettledIsOver, TypeOK
    <2>2. CASE AbortCancelled(r)
      <3>1. ~ begun[r] /\ UNCHANGED begun /\ task'[r] = "none"
        BY <1>1, <2>2 DEF AbortCancelled, RunIsSound, TaskEnds, Finalize, Settle, TypeOK
      <3>2. IsTerminal(r)' => ~ openTool'[r]
        <4>1. CASE UNCHANGED <<sessionVars, pastVars, runVars, toolVars>>
          BY <1>1, <4>1, <2>2 DEF AbortCancelled, RunIsOver, SettledIsOver, IsTerminal
        <4>2. CASE Finalize(r, outcome[r])
          BY <1>1, <4>2 DEF Finalize, Settle, TypeOK
        <4>q. QED BY <2>2, <4>1, <4>2 DEF AbortCancelled
      <3>q. QED BY <3>1, <3>2 DEF SettledIsOver
    <2>3. CASE TaskAnnounces(r)
      <3>1. announced[r] = 0
        BY <2>3 DEF TaskAnnounces, Announce, Base, AnnouncementsInOrder
      <3>2. announced'[r] = 1 /\ task'[r] = "none" /\ UNCHANGED <<openTool, status>>
        BY <1>1, <2>3, <3>1 DEF TaskAnnounces, Announce, TaskEnds, TypeOK
      <3>q. QED BY <1>1, <3>2 DEF RunIsOver, SettledIsOver, IsTerminal
    <2>4. CASE NotifyCancelled(r)
      <3>1. ~ begun[r] /\ task'[r] = "none" /\ UNCHANGED <<openTool, status, begun>>
        BY <1>1, <2>4 DEF NotifyCancelled, Unshielded, RunIsSound, TaskEnds, TypeOK
      <3>q. QED BY <1>1, <3>1 DEF RunIsOver, SettledIsOver, IsTerminal
    <2>5. CASE ~ IsTerminal(r)'
      BY <2>5 DEF SettledIsOver
    <2>6. CASE IsTerminal(r) /\ ~ TaskAnnounces(r) /\ ~ NotifyCancelled(r)
      BY <1>5, <2>6 DEF TaskStep, ToolStep, FirstStep, BeginRun, BeginFails, BeginCancelled, AbortCommit,
         AbortSettled, AbortCancelled, RunnerReturns, RunnerLeavesResources, FinishCommit, FinishSettled,
         TaskAnnounces, NotifyCancelled, Unshielded, MarkPending, MarkCancelled, ToolStarts, ToolEnds
    <2>7. CASE ~ IsTerminal(r) /\ ~ AbortCommit(r) /\ ~ FinishCommit(r) /\ ~ AbortCancelled(r)
      <3>1. status'[r] = status[r] \/ status'[r] = "running"
        BY <1>1, <2>7 DEF TaskStep, ToolStep, FirstStep, BeginRun, BeginFails, BeginCancelled, AbortCommit,
           AbortSettled, AbortCancelled, RunnerReturns, RunnerLeavesResources, FinishCommit, FinishSettled,
           TaskAnnounces, NotifyCancelled, Unshielded, MarkPending, MarkCancelled, ToolStarts, ToolEnds,
           MarkRunning, TypeOK
      <3>q. QED BY <2>7, <3>1 DEF SettledIsOver, IsTerminal, Terminal
    <2>q. QED BY <2>1, <2>2, <2>3, <2>4, <2>5, <2>6, <2>7
  <1>11. RunnersHaveBegun(r)'
    <2>1. CASE BeginRun(r)
      BY <1>1, <2>1 DEF BeginRun, MarkRunning, RunnersHaveBegun, TypeOK
    <2>2. CASE ToolStep(r)
      BY <1>1, <2>2 DEF ToolStep, ToolStarts, ToolEnds, RunIsOver, RunnersHaveBegun
    <2>3. CASE TaskStep(r) /\ ~ BeginRun(r)
      <3>1. task'[r] # "exec"
        BY <1>1, <2>3 DEF TaskStep, ToolStep, FirstStep, BeginRun, BeginFails, BeginCancelled, AbortCommit,
           AbortSettled, AbortCancelled, RunnerReturns, RunnerLeavesResources, FinishCommit, FinishSettled,
           TaskAnnounces, NotifyCancelled, Unshielded, MarkPending, MarkCancelled, ToolStarts, ToolEnds,
           Proceed, TaskEnds, TypeOK
      <3>q. QED BY <3>1 DEF RunnersHaveBegun
    <2>q. QED BY <2>1, <2>2, <2>3
  <1>q. QED BY <1>3, <1>6, <1>7, <1>9, <1>10, <1>11 DEF RunIsOver

\* Every step on a run is on that run only, and touches the lock only for it.
LEMMA RunStepsMindTheirRun ==
  ASSUME WellFormed, OverInv, NEW r \in Runs,
         TaskStep(r) \/ ToolStep(r) \/ CleanupTaskStep(r) \/ BootStep(r),
         NEW q \in Runs, q # r
  PROVE  /\ UNCHANGED <<phase, stops, retryOf, confirmed, call>>
         /\ status'[q] = status[q] /\ begun'[q] = begun[q] /\ task'[q] = task[q]
         /\ cleanup'[q] = cleanup[q] /\ openTool'[q] = openTool[q] /\ effects'[q] = effects[q]
         /\ held'[q] = held[q] /\ announced'[q] = announced[q]
         /\ q \in pendingRes' <=> q \in pendingRes
         /\ cancelReq'[q] = cancelReq[q] /\ missed'[q] = missed[q]
         /\ q \in todo' <=> q \in todo
         /\ term.run = q => term' = term
  <1> USE DEF WellFormed, TypeOK
  <1>0. Free.run # q
    BY ConstantsAssumption DEF Free
  <1>1. CASE TaskStep(r)
    <2>1. CASE FirstStep(r)
      BY <1>0, <2>1 DEF FirstStep, Proceed, TaskEnds
    <2>2. CASE BeginRun(r)
      BY <1>0, <2>2 DEF BeginRun, MarkRunning, Proceed
    <2>3. CASE BeginFails(r)
      BY <1>0, <2>3 DEF BeginFails, Proceed
    <2>4. CASE BeginCancelled(r)
      BY <1>0, <2>4 DEF BeginCancelled, MarkRunning, Proceed
    <2>5. CASE AbortCommit(r)
      BY <1>0, <2>5 DEF AbortCommit, Lock, Finalize, Settle, Proceed
    <2>6. CASE AbortSettled(r)
      BY <1>0, <2>6 DEF AbortSettled, TaskEnds
    <2>7. CASE AbortCancelled(r)
      BY <1>0, <2>7 DEF AbortCancelled, Finalize, Settle, TaskEnds
    <2>8. CASE RunnerReturns(r)
      BY <1>0, <2>8 DEF RunnerReturns, Proceed
    <2>9. CASE RunnerLeavesResources(r)
      BY <1>0, <2>9 DEF RunnerLeavesResources, Proceed
    <2>10. CASE FinishCommit(r)
      BY <1>0, <2>10 DEF FinishCommit, Lock, FinishRun, Settle, Proceed
    <2>11. CASE FinishSettled(r)
      BY <1>0, <2>11 DEF FinishSettled, TaskEnds
    <2>12. CASE TaskAnnounces(r)
      BY <1>0, <2>12 DEF TaskAnnounces, Announce, TaskEnds
    <2>13. CASE NotifyCancelled(r)
      BY <1>0, <2>13 DEF NotifyCancelled, Unshielded, TaskEnds, OverInv, RunIsOver, AnnouncerHasLock, RunIsKnown
    <2>14. CASE MarkPending(r)
      BY <1>0, <2>14 DEF MarkPending, StartCleanup, TaskEnds
    <2>15. CASE MarkCancelled(r)
      BY <1>0, <2>15 DEF MarkCancelled, TaskEnds
    <2>q. QED BY <1>1, <2>1, <2>2, <2>3, <2>4, <2>5, <2>6, <2>7, <2>8, <2>9, <2>10, <2>11, <2>12, <2>13,
                 <2>14, <2>15 DEF
       TaskStep
  <1>2. CASE ToolStep(r)
    BY <1>2 DEF ToolStep, ToolStarts, ToolEnds
  <1>3. CASE CleanupTaskStep(r)
    <2>1. CASE CleanupSignals(r)
      BY <1>0, <2>1 DEF CleanupSignals, CleanupStep
    <2>2. CASE CleanupAwaited(r)
      BY <1>0, <2>2 DEF CleanupAwaited, CleanupStep
    <2>3. CASE CleanupChecks(r)
      BY <1>0, <2>3 DEF CleanupChecks, CleanupStep
    <2>4. CASE CleanupGivesUp(r)
      BY <1>0, <2>4 DEF CleanupGivesUp, CleanupStep, MissesEnd
    <2>5. CASE CleanupConfirmed(r)
      BY <1>0, <2>5 DEF CleanupConfirmed, CleanupStep
    <2>6. CASE CleanupUnconfirmed(r)
      BY <1>0, <2>6 DEF CleanupUnconfirmed, CleanupStep
    <2>7. CASE CleanupCommit(r)
      BY <1>0, <2>7 DEF CleanupCommit, CleanupStep, Lock, Finalize, Settle
    <2>8. CASE CleanupSettled(r)
      BY <1>0, <2>8 DEF CleanupSettled, CleanupStep
    <2>9. CASE CleanupAnnounces(r)
      BY <1>0, <2>9 DEF CleanupAnnounces, CleanupStep, Announce
    <2>q. QED BY <1>3, <2>1, <2>2, <2>3, <2>4, <2>5, <2>6, <2>7, <2>8, <2>9 DEF CleanupTaskStep
  <1>4. CASE BootStep(r)
    <2>1. CASE BootCommit(r)
      BY <1>0, <2>1 DEF BootCommit, Lock, Finalize, Settle
    <2>2. CASE CancellationEnded(r) \/ BootAnnounces(r) \/ BootSkips(r)
      BY <2>2 DEF CancellationEnded, BootAnnounces, BootSkips, Announce
    <2>q. QED BY <1>4, <2>1, <2>2 DEF BootStep
  <1>q. QED BY <1>1, <1>2, <1>3, <1>4

\* A cleanup finalizes a run only when nothing of it is left.
LEMMA CleanupKeepsRunOver ==
  ASSUME Base, OwnInv, OverInv, TypeOK', NEW r \in Runs, RunIsOver(r), CleanupTaskStep(r)
  PROVE  RunIsOver(r)'
  <1>1. RunIsSound(r) /\ RunIsKept(r) /\ TypeOK /\ RunIsOver(r)
    BY DEF OwnInv, Base, WellFormed, OverInv
  <1>2. /\ UNCHANGED <<phase, stops, call, retryOf, confirmed, task, effects, begun>>
        /\ cleanup[r] # "none"
    BY DEF CleanupTaskStep, CleanupStep, CleanupSignals, CleanupAwaited, CleanupChecks, CleanupGivesUp,
       CleanupConfirmed, CleanupUnconfirmed, CleanupCommit, CleanupSettled, CleanupAnnounces, Finalize,
       Settle
  <1>3. Serving /\ status[r] # "absent"
    BY <1>1, <1>2 DEF RunIsSound, RunIsKept
  <1>4. ~ AwaitsStart(r)' /\ StartIsFresh(r)'
    BY <1>1, <1>2 DEF RunIsOver, StartIsFresh, AwaitsStart
  <1>5. CleanupIsAlone(r)'
    BY <1>1, <1>2 DEF RunIsOver, CleanupIsAlone, Supervised, TypeOK, CleanupTaskStep, CleanupStep,
       CleanupSignals, CleanupAwaited, CleanupChecks, CleanupGivesUp, CleanupConfirmed, CleanupUnconfirmed,
       CleanupCommit, CleanupSettled, CleanupAnnounces
  <1>6. IsTerminal(r) => IsTerminal(r)' /\ status' = status
    BY <1>1 DEF CleanupTaskStep, CleanupStep, CleanupSignals, CleanupAwaited, CleanupChecks, CleanupGivesUp,
       CleanupConfirmed, CleanupUnconfirmed, CleanupCommit, CleanupSettled, CleanupAnnounces, IsTerminal,
       MayFinish, Terminal, Unfinished
  <1>7. RetriesAreMeant(r)'
    BY <1>1, <1>2, <1>6 DEF RunIsOver, RetriesAreMeant
  <1>8. AnnouncerHasLock(r)'
    BY <1>1, <1>2 DEF RunIsOver, AnnouncerHasLock, Lock, Announce, Free, CleanupTaskStep, CleanupStep,
       CleanupSignals, CleanupAwaited, CleanupChecks, CleanupGivesUp, CleanupConfirmed, CleanupUnconfirmed,
       CleanupCommit, CleanupSettled, CleanupAnnounces
  <1>a. RunnersHaveBegun(r)'
    BY <1>1, <1>2 DEF RunIsOver, RunnersHaveBegun
  <1>9. CASE CleanupCommit(r)
    <2>1. /\ cleanup[r] = "finalize" /\ task[r] = "none" /\ held' = held
          /\ openTool' = [openTool EXCEPT ![r] = FALSE] /\ term'.run = r
      BY <1>1, <1>9 DEF CleanupCommit, CleanupStep, Lock, Finalize, Settle, RunIsOver, CleanupIsAlone,
         Supervised
    <2>2. ~ held'[r]
      BY <1>1, <2>1 DEF RunIsOver, ContainersAreKnown
    <2>3. ContainersAreKnown(r)'
      BY <2>2 DEF ContainersAreKnown
    <2>4. SettledIsOver(r)'
      BY <1>1, <1>2, <2>1 DEF SettledIsOver, TypeOK
    <2>q. QED BY <1>4, <1>5, <1>7, <1>8, <1>a, <2>3, <2>4 DEF RunIsOver
  <1>10. CASE ~ CleanupCommit(r)
    <2>1. UNCHANGED <<status, openTool>> /\ Serving' = Serving
      BY <1>2, <1>10 DEF CleanupTaskStep, CleanupStep, CleanupSignals, CleanupAwaited, CleanupChecks,
         CleanupGivesUp, CleanupConfirmed, CleanupUnconfirmed, CleanupCommit, CleanupSettled,
         CleanupAnnounces, Serving
    <2>2. IsTerminal(r)' = IsTerminal(r) /\ IsUnfinished(r)' = IsUnfinished(r)
      BY <2>1 DEF IsTerminal, IsUnfinished
    <2>3. ContainersAreKnown(r)'
      <3>1. CASE CleanupConfirmed(r)
        BY <1>1, <3>1 DEF CleanupConfirmed, ContainersAreKnown, TypeOK
      <3>2. CASE ~ CleanupConfirmed(r)
        <4>1. /\ held' = held /\ cleanup'[r] # "finalize"
              /\ r \in pendingRes => r \in pendingRes'
          BY <1>1, <1>10, <3>2 DEF CleanupTaskStep, CleanupStep, CleanupSignals, CleanupAwaited,
             CleanupChecks, CleanupGivesUp, CleanupConfirmed, CleanupUnconfirmed, CleanupCommit,
             CleanupSettled, CleanupAnnounces, TypeOK
        <4>q. QED BY <1>1, <1>2, <2>1, <2>2, <4>1 DEF RunIsOver, ContainersAreKnown
      <3>q. QED BY <3>1, <3>2
    <2>4. SettledIsOver(r)'
      <3>1. CASE CleanupAnnounces(r)
        <4>1. announced[r] = 0
          BY <3>1 DEF CleanupAnnounces, Announce, Base, AnnouncementsInOrder
        <4>2. announced'[r] = 1
          BY <1>1, <3>1, <4>1 DEF CleanupAnnounces, Announce, TypeOK
        <4>q. QED BY <1>1, <1>2, <2>1, <2>2, <4>2 DEF RunIsOver, SettledIsOver
      <3>2. CASE ~ CleanupAnnounces(r)
        <4>1. UNCHANGED eventVars
          BY <1>10, <3>2 DEF CleanupTaskStep, CleanupStep, CleanupSignals, CleanupAwaited, CleanupChecks,
             CleanupGivesUp, CleanupConfirmed, CleanupUnconfirmed, CleanupCommit, CleanupSettled,
             CleanupAnnounces
        <4>q. QED BY <1>1, <1>2, <2>1, <2>2, <4>1 DEF RunIsOver, SettledIsOver
      <3>q. QED BY <3>1, <3>2
    <2>q. QED BY <1>4, <1>5, <1>7, <1>8, <1>a, <2>3, <2>4 DEF RunIsOver
  <1>q. QED BY <1>9, <1>10

\* Shutdown and recovery settle no run whose containers may be there.
LEMMA BootKeepsRunOver ==
  ASSUME Base, OwnInv, OverInv, TypeOK', NEW r \in Runs, RunIsOver(r), BootStep(r)
  PROVE  RunIsOver(r)'
  <1>1. RunIsSound(r) /\ RunIsKept(r) /\ TypeOK /\ RunIsOver(r)
    BY DEF OwnInv, Base, WellFormed, OverInv
  <1>2. UNCHANGED <<phase, stops, call, retryOf, confirmed, task, cleanup, held, pendingRes, effects, begun>>
    BY DEF BootStep, CancellationEnded, BootCommit, BootAnnounces, BootSkips, Finalize, Settle
  <1>3. Serving' = Serving /\ Supervised(r)' = Supervised(r) /\ AwaitsStart(r)' = AwaitsStart(r)
    BY <1>2 DEF Serving, Supervised, AwaitsStart
  <1>4. CleanupIsAlone(r)'
    BY <1>1, <1>2, <1>3 DEF RunIsOver, CleanupIsAlone
  <1>5. IsTerminal(r) => IsTerminal(r)' /\ status' = status
    BY <1>1 DEF BootStep, CancellationEnded, BootCommit, BootAnnounces, BootSkips, BootMaySettle,
       IsTerminal, MayFinish, Terminal, Unfinished
  <1>6. RetriesAreMeant(r)'
    BY <1>1, <1>2, <1>5 DEF RunIsOver, RetriesAreMeant
  <1>7. AnnouncerHasLock(r)'
    BY <1>1, <1>2 DEF RunIsOver, AnnouncerHasLock, Lock, Announce, Free, BootStep, CancellationEnded,
       BootCommit, BootAnnounces, BootSkips
  <1>a. RunnersHaveBegun(r)'
    BY <1>1, <1>2 DEF RunIsOver, RunnersHaveBegun
  <1>8. CASE BootCommit(r)
    <2>1. /\ phase \in {"finalizing", "recovering"} /\ r \notin pendingRes
          /\ openTool' = [openTool EXCEPT ![r] = FALSE] /\ term'.run = r
      BY <1>8 DEF BootCommit, BootMaySettle, Lock, Finalize, Settle
    <2>2. task[r] = "none" /\ ~ AwaitsStart(r)
      <3>1. task[r] = "none"
        BY <1>1, <2>1 DEF RunIsKept, Supervised, Serving
      <3>2. ~ AwaitsStart(r)
        BY <2>1 DEF AwaitsStart, Base, SubmissionsPrecedeClose, WellFormed, CallsKnown, CallKnown
      <3>q. QED BY <3>1, <3>2
    <2>3. ~ held'[r]
      BY <1>1, <1>2, <2>1, <2>2 DEF RunIsOver, ContainersAreKnown, Serving
    <2>4. ContainersAreKnown(r)' /\ StartIsFresh(r)'
      BY <1>3, <2>2, <2>3 DEF ContainersAreKnown, StartIsFresh
    <2>5. SettledIsOver(r)'
      BY <1>1, <1>2, <2>1, <2>2 DEF SettledIsOver, TypeOK
    <2>q. QED BY <1>4, <1>6, <1>7, <1>a, <2>4, <2>5 DEF RunIsOver
  <1>9. CASE ~ BootCommit(r)
    <2>1. UNCHANGED <<status, openTool>>
      BY <1>9 DEF BootStep, CancellationEnded, BootCommit, BootAnnounces, BootSkips
    <2>2. IsTerminal(r)' = IsTerminal(r) /\ IsUnfinished(r)' = IsUnfinished(r)
      BY <2>1 DEF IsTerminal, IsUnfinished
    <2>3. ContainersAreKnown(r)' /\ StartIsFresh(r)'
      BY <1>1, <1>2, <1>3, <2>1, <2>2 DEF RunIsOver, ContainersAreKnown, StartIsFresh
    <2>4. SettledIsOver(r)'
      <3>1. CASE BootAnnounces(r)
        <4>1. announced[r] = 0
          BY <3>1 DEF BootAnnounces, Announce, Base, AnnouncementsInOrder
        <4>2. announced'[r] = 1
          BY <1>1, <3>1, <4>1 DEF BootAnnounces, Announce, TypeOK
        <4>q. QED BY <1>1, <1>2, <2>1, <2>2, <4>2 DEF RunIsOver, SettledIsOver
      <3>2. CASE ~ BootAnnounces(r)
        <4>1. UNCHANGED eventVars
          BY <1>9, <3>2 DEF BootStep, CancellationEnded, BootCommit, BootAnnounces, BootSkips
        <4>q. QED BY <1>1, <1>2, <2>1, <2>2, <4>1 DEF RunIsOver, SettledIsOver
      <3>q. QED BY <3>1, <3>2
    <2>q. QED BY <1>4, <1>6, <1>7, <1>a, <2>3, <2>4 DEF RunIsOver
  <1>q. QED BY <1>8, <1>9

\* The steps on a run keep what is known of it, and do not change whether its cancellation was early.
LEMMA RunStepsKeepKnown ==
  ASSUME Base, OwnInv, OverInv, TypeOK', NEW r \in Runs,
         TaskStep(r) \/ ToolStep(r) \/ CleanupTaskStep(r) \/ BootStep(r)
  PROVE  RunIsKnown(r)' /\ (Timely(r)' <=> Timely(r))
  <1>1. RunIsSound(r) /\ TypeOK /\ RunIsKnown(r)
    BY DEF OwnInv, Base, WellFormed, OverInv
  <1>2. CASE TaskStep(r) \/ ToolStep(r)
    <2>1. missed' = missed /\ status[r] # "absent"
      <3>1. status[r] # "absent"
        BY <1>1, <1>2 DEF RunIsSound, TaskStep, ToolStep, FirstStep, BeginRun, BeginFails, BeginCancelled,
           AbortCommit, AbortSettled, AbortCancelled, RunnerReturns, RunnerLeavesResources, FinishCommit,
           FinishSettled, TaskAnnounces, NotifyCancelled, Unshielded, MarkPending, MarkCancelled,
           ToolStarts, ToolEnds
      <3>2. missed' = missed
        BY <1>2 DEF Finalize, FinishRun, Settle, TaskStep, ToolStep, FirstStep, BeginRun, BeginFails,
           BeginCancelled, AbortCommit, AbortSettled, AbortCancelled, RunnerReturns, RunnerLeavesResources,
           FinishCommit, FinishSettled, TaskAnnounces, NotifyCancelled, Unshielded, MarkPending,
           MarkCancelled, ToolStarts, ToolEnds
      <3>q. QED BY <3>1, <3>2
    <2>2. AnnouncerHasLock(r)'
      BY <1>1, <1>2 DEF RunIsKnown, AnnouncerHasLock, TypeOK, Proceed, TaskEnds, Lock, TaskStep, ToolStep,
         FirstStep, BeginRun, BeginFails, BeginCancelled, AbortCommit, AbortSettled, AbortCancelled,
         RunnerReturns, RunnerLeavesResources, FinishCommit, FinishSettled, TaskAnnounces, NotifyCancelled,
         Unshielded, MarkPending, MarkCancelled, ToolStarts, ToolEnds
    <2>3. status'[r] # "absent"
      <3>1. task[r] \in {"abort", "finish"} => outcome[r] # "absent"
        BY DEF Base, WellFormed, OutcomesKnown, Terminal
      <3>q. QED BY <1>1, <1>2, <2>1, <3>1 DEF TypeOK, Finalize, FinishRun, Settle, MarkRunning, TaskStep,
         ToolStep, FirstStep, BeginRun, BeginFails, BeginCancelled, AbortCommit, AbortSettled,
         AbortCancelled, RunnerReturns, RunnerLeavesResources, FinishCommit, FinishSettled, TaskAnnounces,
         NotifyCancelled, Unshielded, MarkPending, MarkCancelled, ToolStarts, ToolEnds
    <2>q. QED BY <2>1, <2>2, <2>3 DEF RunIsKnown, Timely
  <1>3. CASE CleanupTaskStep(r)
    <2>1. Timely(r)' <=> Timely(r)
      BY <1>1, <1>3 DEF Timely, TypeOK, MissesEnd, CleanupTaskStep, CleanupSignals, CleanupAwaited,
         CleanupChecks, CleanupGivesUp, CleanupConfirmed, CleanupUnconfirmed, CleanupCommit,
         CleanupSettled, CleanupAnnounces, Finalize, Settle
    <2>2. AnnouncerHasLock(r)'
      BY <1>1, <1>3 DEF RunIsKnown, AnnouncerHasLock, Lock, Announce, Free, CleanupTaskStep, CleanupStep,
         CleanupSignals, CleanupAwaited, CleanupChecks, CleanupGivesUp, CleanupConfirmed,
         CleanupUnconfirmed, CleanupCommit, CleanupSettled, CleanupAnnounces
    <2>3. status'[r] = "absent" => status[r] = "absent"
      BY <1>1, <1>3 DEF TypeOK, Finalize, Settle, CleanupTaskStep, CleanupSignals, CleanupAwaited,
         CleanupChecks, CleanupGivesUp, CleanupConfirmed, CleanupUnconfirmed, CleanupCommit,
         CleanupSettled, CleanupAnnounces
    <2>q. QED BY <1>1, <2>1, <2>2, <2>3 DEF RunIsKnown
  <1>4. CASE BootStep(r)
    <2>1. missed' = missed
      BY <1>4 DEF BootStep, CancellationEnded, BootCommit, BootAnnounces, BootSkips, Finalize, Settle
    <2>2. AnnouncerHasLock(r)'
      BY <1>1, <1>4 DEF RunIsKnown, AnnouncerHasLock, Lock, Announce, Free, BootStep, CancellationEnded,
         BootCommit, BootAnnounces, BootSkips
    <2>3. status'[r] = "absent" => status[r] = "absent"
      BY <1>1, <1>4 DEF TypeOK, Finalize, Settle, BootStatus, BootStep, CancellationEnded, BootCommit,
         BootAnnounces, BootSkips
    <2>q. QED BY <1>1, <2>1, <2>2, <2>3 DEF RunIsKnown, Timely
  <1>q. QED BY <1>2, <1>3, <1>4

\* The steps on a run keep what is over with every run.
LEMMA RunStepsKeepOver ==
  ASSUME Base, OwnInv, OverInv, TypeOK', NEW r \in Runs,
         TaskStep(r) \/ ToolStep(r) \/ CleanupTaskStep(r) \/ BootStep(r)
  PROVE  OverInv'
  <1>0. RunIsKnown(r)' /\ (Timely(r)' <=> Timely(r))
    BY RunStepsKeepKnown
  <1>1. Timely(r)' => RunIsOver(r)'
    <2>1. Timely(r) => RunIsOver(r)
      BY DEF OverInv
    <2>q. QED BY <1>0, <2>1, TaskKeepsRunOver, CleanupKeepsRunOver, BootKeepsRunOver
  <1>2. UNCHANGED <<phase, stops, call, retryOf, confirmed>>
    BY DEF TaskStep, ToolStep, FirstStep, BeginRun, BeginFails, BeginCancelled, AbortCommit, AbortSettled,
       AbortCancelled, RunnerReturns, RunnerLeavesResources, FinishCommit, FinishSettled, TaskAnnounces,
       NotifyCancelled, Unshielded, MarkPending, MarkCancelled, ToolStarts, ToolEnds, CleanupTaskStep,
       CleanupStep, CleanupSignals, CleanupAwaited, CleanupChecks, CleanupGivesUp, CleanupConfirmed,
       CleanupUnconfirmed, CleanupCommit, CleanupSettled, CleanupAnnounces, BootStep, CancellationEnded,
       BootCommit, BootAnnounces, BootSkips, Finalize, FinishRun, Settle
  <1>3. \A q \in Runs \ {r} :
            /\ status'[q] = status[q] /\ begun'[q] = begun[q] /\ task'[q] = task[q]
            /\ cleanup'[q] = cleanup[q] /\ openTool'[q] = openTool[q] /\ effects'[q] = effects[q]
            /\ held'[q] = held[q] /\ announced'[q] = announced[q]
            /\ q \in pendingRes' <=> q \in pendingRes
            /\ AwaitsStart(q)' => AwaitsStart(q)
            /\ Timely(q)' <=> Timely(q)
            /\ term.run = q => term' = term
    <2> SUFFICES ASSUME NEW q \in Runs, q # r
                 PROVE  /\ status'[q] = status[q] /\ begun'[q] = begun[q] /\ task'[q] = task[q]
                        /\ cleanup'[q] = cleanup[q] /\ openTool'[q] = openTool[q]
                        /\ effects'[q] = effects[q]
                        /\ held'[q] = held[q] /\ announced'[q] = announced[q]
                        /\ q \in pendingRes' <=> q \in pendingRes
                        /\ AwaitsStart(q)' => AwaitsStart(q)
                        /\ Timely(q)' <=> Timely(q)
                        /\ term.run = q => term' = term
      OBVIOUS
    <2>1. AwaitsStart(q)' => AwaitsStart(q)
      BY <1>2 DEF AwaitsStart
    <2>q. QED BY <2>1, RunStepsMindTheirRun DEF Base, Timely
  <1>q. QED BY <1>0, <1>1, <1>2, <1>3, RunMovesKeepOver

\* A step of a client or of an operation that adds no run and starts none.
LEMMA CallMovesKeepOver ==
  ASSUME OverInv,
         UNCHANGED <<originVars, runVars, toolVars, task, pendingRes, daemonVars, eventVars>>,
         \A q \in Runs : /\ AwaitsStart(q)' => AwaitsStart(q)
                         /\ Timely(q)' =>
                               \/ cleanup'[q] = cleanup[q]
                               \/ cleanup'[q] = "signal" /\ ~ AwaitsStart(q)
                         /\ Timely(q)' => Timely(q)
                         /\ ~ Timely(q)' => ~ Timely(q) \/ status[q] # "absent"
  PROVE  OverInv'
  <1>1. StopsAreCounted'
    BY DEF OverInv, StopsAreCounted
  <1>3. ASSUME NEW q \in Runs PROVE RunIsKnown(q)'
    BY DEF OverInv, RunIsKnown, AnnouncerHasLock
  <1>2. ASSUME NEW q \in Runs, Timely(q)' PROVE RunIsOver(q)'
    <2>1. RunIsOver(q)
      BY <1>2 DEF OverInv
    <2>2. /\ AwaitsStart(q)' => AwaitsStart(q)
          /\ \/ cleanup'[q] = cleanup[q]
             \/ cleanup'[q] = "signal" /\ ~ AwaitsStart(q)
      BY <1>2
    <2>3. /\ IsTerminal(q)' = IsTerminal(q) /\ IsUnfinished(q)' = IsUnfinished(q)
          /\ Supervised(q)' = Supervised(q) /\ Serving' = Serving
      BY DEF IsTerminal, IsUnfinished, Supervised, Serving
    <2>4. SettledIsOver(q)'
      BY <2>1, <2>3 DEF RunIsOver, SettledIsOver
    <2>5. StartIsFresh(q)' /\ CleanupIsAlone(q)'
      BY <2>1, <2>2, <2>3 DEF RunIsOver, StartIsFresh, CleanupIsAlone
    <2>6. ContainersAreKnown(q)' /\ RunnersHaveBegun(q)'
      BY <2>1, <2>2, <2>3 DEF RunIsOver, ContainersAreKnown, RunnersHaveBegun
    <2>7. RetriesAreMeant(q)'
      BY <2>1, <2>3 DEF RunIsOver, RetriesAreMeant
    <2>8. AnnouncerHasLock(q)'
      BY <2>1 DEF RunIsOver, AnnouncerHasLock
    <2>q. QED BY <2>4, <2>5, <2>6, <2>7, <2>8 DEF RunIsOver
  <1>q. QED BY <1>1, <1>2, <1>3 DEF OverInv

\* New client operations. A cancellation that comes before its task is no longer timely.
LEMMA ClientKeepsOver ==
  ASSUME Base, OwnInv, OverInv, ClientStep
  PROVE  OverInv'
  <1>1. TypeOK
    BY DEF Base, WellFormed
  <1>2. ASSUME NEW c \in Callers, NEW request, AcceptCall(c, request), request.pc = "wait"
        PROVE  OverInv'
    <2>1. UNCHANGED <<pastVars, runVars, toolVars, task, cleanup, pendingRes, daemonVars, eventVars>>
      BY <1>2 DEF AcceptCall
    <2>2. \A q : AwaitsStart(q)' => AwaitsStart(q)
      BY <1>1, <1>2 DEF AcceptCall, AwaitsStart, TypeOK
    <2>q. QED BY <2>1, <2>2, CallMovesKeepOver DEF Timely
  <1>3. ASSUME NEW s \in Sessions, CreateSession(s) PROVE OverInv'
    <2>1. UNCHANGED <<pastVars, runVars, toolVars, task, cleanup, pendingRes, daemonVars, eventVars, call>>
      BY <1>3 DEF CreateSession
    <2>q. QED BY <2>1, CallMovesKeepOver DEF AwaitsStart, Timely
  <1>4. ASSUME NEW r \in Runs, RequestCancel(r) PROVE OverInv'
    <2>1. UNCHANGED <<originVars, runVars, toolVars, task, pendingRes, daemonVars, eventVars, call>>
      BY <1>4 DEF RequestCancel
    <2>2. ASSUME NEW q \in Runs, Timely(q)'
          PROVE  cleanup'[q] = cleanup[q] \/ (cleanup'[q] = "signal" /\ ~ AwaitsStart(q))
      <3>1. CASE q = r
        <4>1. ~ AwaitsStart(r)
          BY <1>1, <1>4, <2>2, <3>1 DEF RequestCancel, TypeOK, Timely
        <4>q. QED BY <1>1, <1>4, <3>1, <4>1 DEF RequestCancel, StartCleanup, TypeOK
      <3>2. CASE q # r
        BY <1>1, <1>4, <3>2 DEF RequestCancel, StartCleanup, TypeOK
      <3>q. QED BY <3>1, <3>2
    <2>3. \A q \in Runs : /\ Timely(q)' => Timely(q)
                          /\ ~ Timely(q)' => ~ Timely(q) \/ status[q] # "absent"
      BY <1>1, <1>4 DEF RequestCancel, TypeOK, Timely
    <2>4. \A q : AwaitsStart(q)' => AwaitsStart(q)
      BY <2>1 DEF AwaitsStart
    <2>q. QED BY <2>1, <2>2, <2>3, <2>4, CallMovesKeepOver
  <1>5. ASSUME NEW c \in Callers, NEW s \in Sessions, AcceptClose(c, s) PROVE OverInv'
    BY <1>2, <1>5 DEF AcceptClose, Idle
  <1>6. ASSUME NEW c \in Callers, NEW s \in Sessions, NEW k \in Keys \union {NoKey}, AcceptSubmit(c, s, k)
        PROVE  OverInv'
    BY <1>2, <1>6 DEF AcceptSubmit, Idle
  <1>7. ASSUME NEW c \in Callers, NEW r \in Runs, NEW ok \in BOOLEAN, AcceptRetry(c, r, ok) PROVE OverInv'
    BY <1>2, <1>7 DEF AcceptRetry, Idle
  <1>q. QED BY <1>3, <1>4, <1>5, <1>6, <1>7 DEF ClientStep

\* A run that a transaction adds has no past, and repeats what may be repeated.
LEMMA AddRunKeepsOver ==
  ASSUME Base, OwnInv, OverInv, NEW c \in Callers, NEW r \in Runs,
         NEW t, NEW k, NEW n, NEW original \in Runs \union {NoRun},
         call[c].pc = "wait", AddRun(c, r, t, k, n, original),
         original \in Runs => MayRetry(original, call[c].ok)
  PROVE  OverInv'
  <1>1. TypeOK /\ call[c] \in Call
    BY DEF Base, WellFormed, TypeOK
  <1>2. /\ status[r] = "absent" /\ status' = [status EXCEPT ![r] = "queued"]
        /\ retryOf' = [retryOf EXCEPT ![r] = original]
        /\ confirmed' = [confirmed EXCEPT ![r] = call[c].ok]
        /\ call' = [call EXCEPT ![c].pc = "start", ![c].r = r]
        /\ UNCHANGED <<missed, begun, toolVars, taskVars, cleanVars, daemonVars, eventVars>>
    BY DEF AddRun
  <1>3. StopsAreCounted'
    BY <1>2 DEF OverInv, StopsAreCounted
  <1>4. RunIsOver(r) /\ RunIsSound(r)
    BY <1>2 DEF OverInv, OwnInv, RunIsKnown
  <1>5. original # r /\ (original \in Runs => IsTerminal(original) /\ (effects[original] => call[c].ok))
    BY <1>2, ConstantsAssumption DEF MayRetry, IsTerminal, Terminal
  <1>7. ASSUME NEW q \in Runs PROVE RunIsKnown(q)'
    BY <1>1, <1>2 DEF OverInv, RunIsKnown, AnnouncerHasLock, Timely, TypeOK
  <1>6. ASSUME NEW q \in Runs, Timely(q)' PROVE RunIsOver(q)'
    <2>1. RunIsOver(q)
      BY <1>2, <1>6 DEF OverInv, Timely
    <2>2. CASE q = r
      <3>1. status'[q] = "queued" /\ cleanup'[q] = "none" /\ task'[q] = "none"
        BY <1>1, <1>2, <1>4, <2>2 DEF RunIsSound, TypeOK
      <3>2. ~ held'[q]
        BY <1>2, <1>4, <2>2 DEF RunIsOver, ContainersAreKnown, IsUnfinished, Unfinished
      <3>3. SettledIsOver(q)' /\ StartIsFresh(q)' /\ CleanupIsAlone(q)' /\ RunnersHaveBegun(q)'
            /\ ContainersAreKnown(q)' /\ AnnouncerHasLock(q)'
        BY <3>1, <3>2 DEF SettledIsOver, IsTerminal, Terminal, StartIsFresh, CleanupIsAlone,
           ContainersAreKnown, RunnersHaveBegun, AnnouncerHasLock
      <3>4. \A p \in Runs : retryOf[p] # r
        BY <1>2, <1>4 DEF RunIsOver, RetriesAreMeant, IsTerminal, Terminal
      <3>5. \A p \in Runs : retryOf'[p] # r
        BY <1>1, <1>2, <1>5, <3>4 DEF TypeOK
      <3>6. RetriesAreMeant(q)'
        BY <2>2, <3>5 DEF RetriesAreMeant
      <3>q. QED BY <3>3, <3>6 DEF RunIsOver
    <2>3. CASE q # r
      <3>1. /\ status'[q] = status[q] /\ Serving' = Serving /\ Supervised(q)' = Supervised(q)
            /\ IsTerminal(q)' = IsTerminal(q) /\ IsUnfinished(q)' = IsUnfinished(q)
        BY <1>1, <1>2, <2>3 DEF TypeOK, Serving, Supervised, IsTerminal, IsUnfinished
      <3>2. AwaitsStart(q)' => AwaitsStart(q)
        <4>1. call'[c].r = r /\ \A d \in Callers : d # c => call'[d] = call[d]
          BY <1>1, <1>2 DEF TypeOK, Call
        <4>q. QED BY <2>3, <4>1 DEF AwaitsStart
      <3>3. SettledIsOver(q)' /\ StartIsFresh(q)' /\ CleanupIsAlone(q)' /\ RunnersHaveBegun(q)'
        BY <1>2, <2>1, <3>1, <3>2 DEF RunIsOver, SettledIsOver, StartIsFresh, CleanupIsAlone, RunnersHaveBegun
      <3>4. ContainersAreKnown(q)' /\ AnnouncerHasLock(q)'
        BY <1>2, <2>1, <3>1 DEF RunIsOver, ContainersAreKnown, AnnouncerHasLock
      <3>5. ASSUME NEW p \in Runs, retryOf'[p] = q PROVE IsTerminal(q) /\ (effects[q] => confirmed'[p])
        <4>1. CASE p = r
          BY <1>1, <1>2, <1>5, <3>5, <4>1 DEF TypeOK
        <4>2. CASE p # r
          BY <1>1, <1>2, <2>1, <3>5, <4>2 DEF RunIsOver, RetriesAreMeant, TypeOK
        <4>q. QED BY <4>1, <4>2
      <3>6. RetriesAreMeant(q)'
        BY <1>2, <3>1, <3>5 DEF RetriesAreMeant
      <3>q. QED BY <3>3, <3>4, <3>6 DEF RunIsOver
    <2>q. QED BY <2>2, <2>3
  <1>q. QED BY <1>3, <1>6, <1>7 DEF OverInv

\* Steps of a client operation.
LEMMA CallKeepsOver ==
  ASSUME Base, OwnInv, OverInv, NEW c \in Callers, CallStep(c)
  PROVE  OverInv'
  <1>1. TypeOK /\ call[c] \in Call
    BY DEF Base, WellFormed, TypeOK
  <1>2. CASE \/ SubmitAnswered(c) \/ RetryAnswered(c)
             \/ CloseWaited(c) \/ CloseCommit(c) \/ CloseAborted(c)
    <2>1. UNCHANGED <<pastVars, runVars, toolVars, task, cleanup, pendingRes, daemonVars, eventVars>>
      BY <1>2 DEF SubmitAnswered, RetryAnswered, CloseWaited, CloseCommit, CloseAborted
    <2>2. call'[c].pc # "start" /\ \A d \in Callers : d # c => call'[d] = call[d]
      BY <1>1, <1>2 DEF SubmitAnswered, RetryAnswered, CloseWaited, CloseCommit, CloseAborted, Return, Idle,
         TypeOK, Call
    <2>3. \A q : AwaitsStart(q)' => AwaitsStart(q)
      BY <2>2 DEF AwaitsStart
    <2>q. QED BY <2>1, <2>3, CallMovesKeepOver DEF Timely
  <1>3. CASE CloseBegins(c)
    <2> DEFINE s == call[c].s
    <2> DEFINE r == active[s]
    <2>1. UNCHANGED <<pastVars, runVars, toolVars, task, pendingRes, daemonVars, eventVars>>
          /\ LockFree(s) /\ s \in Sessions
      BY <1>3, BusyCallers DEF CloseBegins, HasLock
    <2>2. call'[c].pc # "start" /\ \A d \in Callers : d # c => call'[d] = call[d]
      BY <1>1, <1>3 DEF CloseBegins, RunToCancel, TypeOK, Call
    <2>3. \A q : AwaitsStart(q)' => AwaitsStart(q)
      BY <2>2 DEF AwaitsStart
    <2>4. r # NoRun => ~ AwaitsStart(r)
      <3>1. r # NoRun => home[r] = s
        BY <2>1 DEF Base, SlotsMatchRuns
      <3>q. QED BY <2>1, <3>1 DEF AwaitsStart, OwnInv, CallIsSound, LockFree
    <2>5. \A q \in Runs : \/ cleanup'[q] = cleanup[q]
                          \/ cleanup'[q] = "signal" /\ ~ AwaitsStart(q)
      BY <1>1, <1>3, <2>4 DEF CloseBegins, RunToCancel, StartCleanup, TypeOK
    <2>q. QED BY <2>1, <2>3, <2>5, CallMovesKeepOver DEF Timely
  <1>4. CASE StartRun(c)
    <2>0. call[c].pc = "start" /\ call[c].r \in Runs
      BY <1>4 DEF StartRun, Base, WellFormed, CallsKnown, CallKnown
    <2> PICK r \in Runs : r = call[c].r
      BY <2>0
    <2>1. /\ call[c].pc = "start" /\ r = call[c].r /\ CallIsSound(c)
          /\ task' = [task EXCEPT ![r] = "new"]
          /\ UNCHANGED <<sessionVars, pastVars, runVars, toolVars, cleanVars, daemonVars, eventVars>>
      BY <1>4 DEF StartRun, OwnInv, OverInv
    <2>2. AwaitsStart(r) /\ \A q : AwaitsStart(q)' => AwaitsStart(q)
      BY <1>1, <1>4, <2>1 DEF StartRun, Return, AwaitsStart, Idle, TypeOK
    <2>0a. task'[r] = "new"
      BY <1>1, <2>1 DEF TypeOK
    <2>3. RunIsKnown(r)'
      BY <2>1, <2>0a DEF OverInv, RunIsKnown, AnnouncerHasLock, Timely
    <2>4. ASSUME Timely(r)' PROVE RunIsOver(r)'
      <3>a. RunIsOver(r)
        BY <2>1, <2>4 DEF OverInv, Timely
      <3>b. status[r] = "queued" /\ cleanup[r] = "none" /\ ~ begun[r] /\ task'[r] = "new"
        BY <1>1, <2>0a, <2>1, <2>2, <3>a DEF RunIsOver, StartIsFresh, CallIsSound, TypeOK
      <3>1. SettledIsOver(r)' /\ StartIsFresh(r)' /\ CleanupIsAlone(r)' /\ RunnersHaveBegun(r)'
              /\ AnnouncerHasLock(r)'
        BY <2>1, <3>b DEF SettledIsOver, IsTerminal, Terminal, StartIsFresh, CleanupIsAlone,
           RunnersHaveBegun, AnnouncerHasLock
      <3>2. ContainersAreKnown(r)'
        BY <2>1, <3>a, <3>b DEF RunIsOver, ContainersAreKnown
      <3>3. RetriesAreMeant(r)'
        BY <2>1, <3>a DEF RunIsOver, RetriesAreMeant, IsTerminal
      <3>q. QED BY <3>1, <3>2, <3>3 DEF RunIsOver
    <2>5. \A q \in Runs \ {r} :
            /\ status'[q] = status[q] /\ begun'[q] = begun[q] /\ task'[q] = task[q]
            /\ cleanup'[q] = cleanup[q] /\ openTool'[q] = openTool[q] /\ effects'[q] = effects[q]
            /\ held'[q] = held[q] /\ announced'[q] = announced[q]
            /\ q \in pendingRes' <=> q \in pendingRes
            /\ AwaitsStart(q)' => AwaitsStart(q)
            /\ Timely(q)' <=> Timely(q)
            /\ term.run = q => term' = term
      BY <1>1, <2>1, <2>2 DEF TypeOK, Timely
    <2>6. UNCHANGED <<phase, stops, retryOf, confirmed>>
      BY <2>1
    <2>q. QED BY <2>3, <2>4, <2>5, <2>6, RunMovesKeepOver
  <1>5. ASSUME NEW r \in Runs, SubmitCommit(c, r) PROVE OverInv'
    <2>1. NoRun \notin Runs
      BY ConstantsAssumption
    <2>q. QED BY <1>5, <2>1, AddRunKeepsOver DEF SubmitCommit, HasLock
  <1>6. ASSUME NEW r \in Runs, NEW latest \in Runs, RetryCommit(c, r, latest) PROVE OverInv'
    <2>1. call[c].r \in Runs
      BY <1>6 DEF RetryCommit, HasLock, Base, WellFormed, CallsKnown, CallKnown
    <2>q. QED BY <1>6, <2>1, AddRunKeepsOver DEF RetryCommit, HasLock
  <1>q. QED BY <1>2, <1>3, <1>4, <1>5, <1>6 DEF CallStep

\* The daemon that stops or starts leaves the runs as they are.
LEMMA PhasesKeepOver ==
  ASSUME Base, OwnInv, OverInv,
         BeginShutdown \/ WaitForCancellations \/ SupervisorShutdown \/ TasksEnded \/ Recovered
  PROVE  OverInv'
  <1>1. /\ UNCHANGED <<sessionVars, pastVars, runVars, toolVars, task, cleanVars, eventVars, call>>
        /\ phase' # "recovering"
    BY DEF BeginShutdown, WaitForCancellations, SupervisorShutdown, TasksEnded, Recovered
  <1>2. stops \in Nat /\ stops' \in {stops, stops + 1} /\ StopsAreCounted'
    <2>1. stops \in Nat
      BY ConstantsAssumption DEF Base, WellFormed, TypeOK
    <2>q. QED BY <2>1 DEF BeginShutdown, WaitForCancellations, SupervisorShutdown, TasksEnded, Recovered,
       OverInv, StopsAreCounted
  <1>3. Serving' => Serving \/ phase = "recovering"
    BY DEF BeginShutdown, WaitForCancellations, SupervisorShutdown, TasksEnded, Recovered, Serving
  <1>5. ASSUME NEW q \in Runs PROVE RunIsKnown(q)'
    BY <1>1 DEF OverInv, RunIsKnown, AnnouncerHasLock, Timely
  <1>4. ASSUME NEW q \in Runs, Timely(q)' PROVE RunIsOver(q)'
    <2>1. RunIsOver(q)
      BY <1>1, <1>4 DEF OverInv, Timely
    <2>2. /\ IsTerminal(q)' = IsTerminal(q) /\ IsUnfinished(q)' = IsUnfinished(q)
          /\ Supervised(q)' = Supervised(q) /\ AwaitsStart(q)' = AwaitsStart(q)
      BY <1>1 DEF IsTerminal, IsUnfinished, Supervised, AwaitsStart
    <2>3. stops > 0 => stops' > 0
      BY <1>2
    <2>4. SettledIsOver(q)'
      BY <1>1, <2>1, <2>2, <2>3 DEF RunIsOver, SettledIsOver
    <2>5. StartIsFresh(q)' /\ CleanupIsAlone(q)' /\ RunnersHaveBegun(q)' /\ AnnouncerHasLock(q)'
      BY <1>1, <2>1, <2>2 DEF RunIsOver, StartIsFresh, CleanupIsAlone, RunnersHaveBegun, AnnouncerHasLock
    <2>6. ContainersAreKnown(q)'
      BY <1>1, <1>3, <2>1, <2>2 DEF RunIsOver, ContainersAreKnown
    <2>7. RetriesAreMeant(q)'
      BY <1>1, <2>1, <2>2 DEF RunIsOver, RetriesAreMeant
    <2>q. QED BY <2>4, <2>5, <2>6, <2>7 DEF RunIsOver
  <1>q. QED BY <1>2, <1>4, <1>5 DEF OverInv

\* The end of a process ends every task; what is settled stays over.
LEMMA EndKeepsOver ==
  ASSUME Base, OwnInv, OverInv, OwnInv', Stop \/ Crash \/ Restart
  PROVE  OverInv'
  <1>1. UNCHANGED <<sessionVars, originVars, runVars, effects, openTool, announced>>
    BY DEF Stop, Crash, Restart
  <1>2. phase' \in {"down", "dead", "recovering"} /\ ~ Serving'
    BY DEF Stop, Crash, Restart, Serving
  <1>3. stops' > 0
    <2>1. stops \in Nat
      BY ConstantsAssumption DEF Base, WellFormed, TypeOK
    <2>2. phase # "up" => stops > 0
      BY DEF OverInv, StopsAreCounted
    <2>q. QED BY <2>1, <2>2 DEF Stop, Crash, Restart
  <1>4. \A r \in Runs : task'[r] = "none" /\ cleanup'[r] = "none"
    BY <1>2 DEF OwnInv, RunIsKept, Supervised
  <1>5. \A r : ~ AwaitsStart(r)'
    BY <1>2 DEF OwnInv, DeadIsEmpty, AwaitsStart, Idle
  <1>7. ASSUME NEW q \in Runs PROVE (Timely(q)' <=> Timely(q)) /\ RunIsKnown(q)'
    <2>1. Timely(q)' <=> Timely(q)
      BY DEF Stop, Crash, Restart, LoseVolatile, MissesEnd, Timely
    <2>q. QED BY <1>1, <1>4, <2>1 DEF OverInv, RunIsKnown, AnnouncerHasLock
  <1>6. ASSUME NEW q \in Runs, Timely(q)' PROVE RunIsOver(q)'
    <2>1. RunIsOver(q)
      BY <1>6, <1>7 DEF OverInv
    <2>2. IsTerminal(q)' = IsTerminal(q) /\ IsUnfinished(q)' = IsUnfinished(q)
      BY <1>1 DEF IsTerminal, IsUnfinished
    <2>3. SettledIsOver(q)'
      BY <1>1, <1>3, <1>4, <2>1, <2>2 DEF RunIsOver, SettledIsOver
    <2>4. StartIsFresh(q)' /\ CleanupIsAlone(q)' /\ RunnersHaveBegun(q)' /\ AnnouncerHasLock(q)'
      BY <1>4, <1>5 DEF StartIsFresh, CleanupIsAlone, RunnersHaveBegun, AnnouncerHasLock
    <2>5. RetriesAreMeant(q)'
      BY <1>1, <2>1, <2>2 DEF RunIsOver, RetriesAreMeant
    <2>6. ContainersAreKnown(q)'
      <3>1. CASE Restart
        BY <3>1 DEF Restart, ContainersAreKnown
      <3>2. CASE Stop \/ Crash
        <4>1. held' = held /\ phase' # "recovering"
          BY <3>2 DEF Stop, Crash
        <4>q. QED BY <1>1, <1>2, <1>4, <2>1, <2>2, <4>1 DEF RunIsOver, ContainersAreKnown
      <3>q. QED BY <3>1, <3>2
    <2>q. QED BY <2>3, <2>4, <2>5, <2>6 DEF RunIsOver
  <1>q. QED BY <1>3, <1>6, <1>7 DEF OverInv, StopsAreCounted

\* Every step keeps what is over over.
LEMMA NextKeepsOver ==
  ASSUME Base, OwnInv, OverInv, [Next]_vars
  PROVE  OverInv'
  <1>0. TypeOK' /\ OwnInv'
    BY NextKeepsBase, NextKeepsOwn DEF Base, WellFormed
  <1>1. CASE ClientStep
    BY <1>1, ClientKeepsOver
  <1>2. CASE BeginShutdown \/ WaitForCancellations \/ SupervisorShutdown \/ TasksEnded \/ Recovered
    BY <1>2, PhasesKeepOver
  <1>3. CASE Stop \/ Crash \/ Restart
    BY <1>0, <1>3, EndKeepsOver
  <1>4. ASSUME NEW c \in Callers, CallStep(c) PROVE OverInv'
    BY <1>4, CallKeepsOver
  <1>5. ASSUME NEW r \in Runs, TaskStep(r) \/ ToolStep(r) \/ CleanupTaskStep(r) \/ BootStep(r) PROVE OverInv'
    BY <1>0, <1>5, RunStepsKeepOver
  <1>6. CASE UNCHANGED vars
    <2>1. \A q \in Runs : AwaitsStart(q)' => AwaitsStart(q)
      BY <1>6 DEF AwaitsStart
    <2>q. QED BY <1>6, <2>1, CallMovesKeepOver DEF Timely
  <1>q. QED BY <1>1, <1>2, <1>3, <1>4, <1>5, <1>6 DEF Next, Environment, DaemonStep

\* What is over with the settled runs holds of every behaviour.
LEMMA OverInvHolds == Spec => []OverInv
  <1>1. Init => OverInv
    BY ConstantsAssumption DEF Init, OverInv, StopsAreCounted, RunIsOver, SettledIsOver, IsTerminal,
       Terminal, StartIsFresh, AwaitsStart, Idle, CleanupIsAlone, ContainersAreKnown, RunnersHaveBegun,
       RetriesAreMeant, AnnouncerHasLock, RunIsKnown, Timely
  <1>2. Base /\ OwnInv /\ OverInv /\ [Next]_vars => OverInv'
    BY NextKeepsOver
  <1>q. QED BY <1>1, <1>2, OwnInvHolds, PTL DEF Spec

(***************************************************************************)
(* Nothing outlives a settled run but one whose cancellation came before   *)
(* its task: no task at work, no open tool row, no container, no           *)
(* unconfirmed retry of side effects, and no end that the first process    *)
(* failed to announce.                                                     *)
(***************************************************************************)
THEOREM SettledAlwaysOver == Spec => []SettledRunsAreOver
  <1>1. OverInv => SettledRunsAreOver
    <2> SUFFICES ASSUME OverInv, NEW r \in Runs, IsTerminal(r), missed[r] # "start"
                 PROVE  /\ task[r] \in {"none", "announce", "notify"}
                        /\ ~ openTool[r]
                        /\ ~ held[r]
                        /\ effects[r] => \A q \in Runs : retryOf[q] = r => confirmed[q]
                        /\ begun[r] => announced[r] = 1 \/ term.run = r \/ stops > 0
      BY DEF SettledRunsAreOver
    <2>1. RunIsOver(r)
      BY DEF OverInv, Timely
    <2>2. ~ held[r]
      BY <2>1 DEF RunIsOver, ContainersAreKnown, IsTerminal, IsUnfinished, Terminal, Unfinished
    <2>3. effects[r] => \A q \in Runs : retryOf[q] = r => confirmed[q]
      BY <2>1 DEF RunIsOver, RetriesAreMeant
    <2>q. QED BY <2>1, <2>2, <2>3 DEF RunIsOver, SettledIsOver
  <1>q. QED BY <1>1, OverInvHolds, PTL

-------------------------------------------------------------------------------
(* What an orderly stop leaves: the inductive invariant *)

\* A signal to a task is awaited by the cleanup that sent it, or by the shutdown of the supervisor.
SignalsAreMeant(r) ==
    cancelReq[r] = "sent" => cleanup[r] = "await" \/ (phase = "cancelling" /\ r \in todo)

Closing == phase \in {"cancelling", "finalizing"}

\* Who settles a queued run of a process that is not over.
QueuedIsPursued(r) ==
    \/ missed[r] # "nothing" \/ AwaitsStart(r) \/ cleanup[r] # "none"
    \/ Supervised(r) /\ ~ Closing
    \/ Closing /\ r \in todo \union pendingRes

(***************************************************************************)
(* A queued run has not begun; somebody is to settle it, or a cancellation *)
(* of it has ended without; and what an orderly stop leaves queued was     *)
(* being cancelled.                                                        *)
(***************************************************************************)
QueuedIsKept(r) ==
    status[r] = "queued" =>
        /\ ~ begun[r] /\ task[r] \in {"none", "new", "prep", "abort"}
        /\ Serving => QueuedIsPursued(r)
        /\ phase = "down" => r \in pendingRes \/ missed[r] # "nothing"

QueueInv == \A r \in Runs : SignalsAreMeant(r) /\ QueuedIsKept(r)

\* A step that leaves a run as it is leaves it as well kept as it was.
LEMMA UntouchedKeepsQueue ==
  ASSUME NEW r, SignalsAreMeant(r) /\ QueuedIsKept(r),
         status'[r] = status[r] /\ begun'[r] = begun[r] /\ task'[r] = task[r],
         cancelReq'[r] = cancelReq[r] /\ cleanup'[r] \in {cleanup[r], "signal"},
         cleanup'[r] # cleanup[r] => cleanup[r] = "none",
         missed[r] # "nothing" => missed'[r] # "nothing",
         r \in pendingRes' <=> r \in pendingRes, r \in todo' <=> r \in todo,
         AwaitsStart(r) => AwaitsStart(r)', phase' = phase
  PROVE  SignalsAreMeant(r)' /\ QueuedIsKept(r)'
  <1>1. SignalsAreMeant(r)'
    BY DEF SignalsAreMeant
  <1>2. Supervised(r)' = Supervised(r) /\ Closing' = Closing /\ Serving' = Serving
    BY DEF Supervised, Closing, Serving
  <1>3. QueuedIsPursued(r) => QueuedIsPursued(r)'
    BY <1>2 DEF QueuedIsPursued
  <1>q. QED BY <1>1, <1>2, <1>3 DEF QueuedIsKept

\* A task leaves its run queued only behind a cancellation that will find it.
LEMMA TaskKeepsQueue ==
  ASSUME Base, OwnInv, QueueInv, TypeOK', NEW r \in Runs, TaskStep(r) \/ ToolStep(r)
  PROVE  SignalsAreMeant(r)' /\ QueuedIsKept(r)'
  <1> USE DEF TypeOK
  <1>0. Supervised(r)
    BY DEF Supervised, TaskStep, ToolStep, FirstStep, BeginRun, BeginFails, BeginCancelled, AbortCommit,
       AbortSettled, AbortCancelled, RunnerReturns, RunnerLeavesResources, FinishCommit, FinishSettled,
       TaskAnnounces, NotifyCancelled, Unshielded, MarkPending, MarkCancelled, ToolStarts, ToolEnds
  <1>1. /\ RunIsSound(r) /\ RunIsKept(r) /\ ~ AwaitsStart(r) /\ status[r] # "absent"
        /\ Serving /\ TypeOK /\ SignalsAreMeant(r) /\ QueuedIsKept(r)
    BY <1>0, WorkingTasks DEF Base, WellFormed, QueueInv
  <1>2. UNCHANGED <<phase, todo, missed>> /\ (cleanup[r] # "none" => cleanup'[r] = cleanup[r])
    <2>1. CASE MarkPending(r)
      BY <1>1, <2>1 DEF MarkPending, StartCleanup
    <2>2. CASE ~ MarkPending(r)
      BY <2>2 DEF Finalize, FinishRun, Settle, TaskStep, ToolStep, FirstStep, BeginRun, BeginFails,
         BeginCancelled, AbortCommit, AbortSettled, AbortCancelled, RunnerReturns, RunnerLeavesResources,
         FinishCommit, FinishSettled, TaskAnnounces, NotifyCancelled, Unshielded, MarkPending,
         MarkCancelled, ToolStarts, ToolEnds
    <2>q. QED BY <2>1, <2>2
  <1>3. cancelReq'[r] = "sent" => cancelReq[r] = "sent"
    BY <1>1 DEF TaskStep, ToolStep, FirstStep, BeginRun, BeginFails, BeginCancelled, AbortCommit,
       AbortSettled, AbortCancelled, RunnerReturns, RunnerLeavesResources, FinishCommit, FinishSettled,
       TaskAnnounces, NotifyCancelled, Unshielded, MarkPending, MarkCancelled, ToolStarts, ToolEnds,
       Proceed, TaskEnds
  <1>4. SignalsAreMeant(r)'
    BY <1>1, <1>2, <1>3 DEF SignalsAreMeant
  <1>5. QueuedIsKept(r)'
    <2> SUFFICES ASSUME status'[r] = "queued" PROVE QueuedIsKept(r)'
      BY DEF QueuedIsKept
    <2>1. task[r] \in {"abort", "finish"} => outcome[r] # "queued"
      BY DEF Base, WellFormed, OutcomesKnown, Terminal
    <2>2. status[r] = "queued"
      BY <1>1, <2>1 DEF Finalize, FinishRun, Settle, MarkRunning, TaskStep, ToolStep, FirstStep, BeginRun,
         BeginFails, BeginCancelled, AbortCommit, AbortSettled, AbortCancelled, RunnerReturns,
         RunnerLeavesResources, FinishCommit, FinishSettled, TaskAnnounces, NotifyCancelled, Unshielded,
         MarkPending, MarkCancelled, ToolStarts, ToolEnds
    <2>3. ~ begun[r] /\ task[r] \in {"new", "prep", "abort"} /\ QueuedIsPursued(r)
      BY <1>0, <1>1, <2>2 DEF QueuedIsKept, Supervised
    <2>4. \/ FirstStep(r) \/ BeginFails(r) \/ (BeginCancelled(r) /\ UNCHANGED runVars)
          \/ AbortCancelled(r) /\ UNCHANGED runVars
      BY <1>1, <2>1, <2>2, <2>3 DEF MayFinish, Unfinished, Finalize, FinishRun, Settle, MarkRunning,
         TaskStep, ToolStep, FirstStep, BeginRun, BeginFails, BeginCancelled, AbortCommit, AbortSettled,
         AbortCancelled, RunnerReturns, RunnerLeavesResources, FinishCommit, FinishSettled, TaskAnnounces,
         NotifyCancelled, Unshielded, MarkPending, MarkCancelled, ToolStarts, ToolEnds
    <2>5. begun' = begun /\ task'[r] \in {"none", "prep", "abort"} /\ UNCHANGED <<cleanup, pendingRes>>
      BY <1>1, <2>4 DEF FirstStep, BeginFails, BeginCancelled, AbortCancelled, Proceed, TaskEnds
    <2>6. task'[r] = "none" => cancelReq[r] = "sent"
      BY <1>1, <2>4 DEF FirstStep, BeginFails, BeginCancelled, AbortCancelled, Proceed
    <2>7. QueuedIsPursued(r)'
      <3>1. CASE task'[r] # "none"
        BY <1>0, <1>1, <1>2, <2>3, <2>5, <3>1 DEF QueuedIsPursued, Supervised, Closing
      <3>2. CASE task'[r] = "none"
        BY <1>1, <1>2, <2>5, <2>6, <3>2 DEF SignalsAreMeant, QueuedIsPursued, Closing
      <3>q. QED BY <3>1, <3>2
    <2>q. QED BY <1>1, <1>2, <2>3, <2>5, <2>7 DEF QueuedIsKept, Serving
  <1>q. QED BY <1>4, <1>5

\* A cancellation that ends before its run leaves its mark.
LEMMA CleanupKeepsQueue ==
  ASSUME Base, OwnInv, QueueInv, NEW r \in Runs, CleanupTaskStep(r)
  PROVE  SignalsAreMeant(r)' /\ QueuedIsKept(r)'
  <1> USE DEF TypeOK
  <1>1. TypeOK /\ RunIsSound(r) /\ SignalsAreMeant(r) /\ QueuedIsKept(r)
    BY DEF Base, WellFormed, OwnInv, QueueInv
  <1>2. UNCHANGED <<phase, call, task, begun, todo>> /\ cleanup[r] # "none"
    BY DEF CleanupTaskStep, CleanupStep, CleanupSignals, CleanupAwaited, CleanupChecks, CleanupGivesUp,
       CleanupConfirmed, CleanupUnconfirmed, CleanupCommit, CleanupSettled, CleanupAnnounces, Finalize,
       Settle
  <1>3. SignalsAreMeant(r)'
    <2>1. CASE CleanupSignals(r)
      BY <1>1, <1>2, <2>1 DEF CleanupSignals, CleanupStep, SignalsAreMeant, Supervised, RunIsSound
    <2>2. CASE CleanupAwaited(r)
      BY <1>1, <1>2, <2>2 DEF CleanupAwaited, CleanupStep, SignalsAreMeant, Supervised, RunIsSound
    <2>3. CASE ~ CleanupSignals(r) /\ ~ CleanupAwaited(r)
      BY <1>1, <1>2, <2>3 DEF SignalsAreMeant, CleanupTaskStep, CleanupStep, CleanupChecks, CleanupGivesUp,
         CleanupConfirmed, CleanupUnconfirmed, CleanupCommit, CleanupSettled, CleanupAnnounces
    <2>q. QED BY <2>1, <2>2, <2>3
  <1>4. QueuedIsKept(r)'
    <2> SUFFICES ASSUME status'[r] = "queued" PROVE QueuedIsKept(r)'
      BY DEF QueuedIsKept
    <2>1. ~ CleanupCommit(r) /\ status' = status
      <3>1. ~ CleanupCommit(r)
        BY <1>1 DEF CleanupCommit, Finalize, Settle
      <3>q. QED BY <3>1 DEF CleanupTaskStep, CleanupSignals, CleanupAwaited, CleanupChecks, CleanupGivesUp,
         CleanupConfirmed, CleanupUnconfirmed, CleanupSettled, CleanupAnnounces
    <2>2. cleanup'[r] # "none" \/ missed'[r] # "nothing"
      <3>1. CASE CleanupGivesUp(r)
        BY <1>1, <3>1 DEF CleanupGivesUp, MissesEnd
      <3>2. CASE CleanupSettled(r)
        BY <2>1, <3>2 DEF CleanupSettled, MayFinish, Unfinished
      <3>3. CASE CleanupAnnounces(r)
        BY <1>1, <2>1, <3>3 DEF CleanupAnnounces, CleanupStep, RunIsSound, IsTerminal, Terminal
      <3>4. CASE ~ CleanupGivesUp(r) /\ ~ CleanupSettled(r) /\ ~ CleanupAnnounces(r)
        BY <1>1, <2>1, <3>4 DEF CleanupTaskStep, CleanupStep, CleanupSignals, CleanupAwaited, CleanupChecks,
           CleanupConfirmed, CleanupUnconfirmed
      <3>q. QED BY <3>1, <3>2, <3>3, <3>4
    <2>3. phase # "down"
      BY <1>2 DEF OwnInv, RunIsKept, Serving
    <2>q. QED BY <1>1, <1>2, <2>1, <2>2, <2>3 DEF QueuedIsKept, QueuedIsPursued
  <1>q. QED BY <1>3, <1>4

\* A stopping daemon forgets a run only when the run is settled or its containers may be there.
LEMMA BootKeepsQueue ==
  ASSUME Base, OwnInv, QueueInv, NEW r \in Runs, BootStep(r)
  PROVE  SignalsAreMeant(r)' /\ QueuedIsKept(r)'
  <1> USE DEF TypeOK
  <1>1. TypeOK /\ SignalsAreMeant(r) /\ QueuedIsKept(r) /\ RunIsKept(r) /\ RunIsSound(r)
    BY DEF Base, WellFormed, OwnInv, QueueInv
  <1>2. /\ UNCHANGED <<phase, call, task, cancelReq, cleanup, pendingRes, begun, missed>>
        /\ phase \in {"draining", "finalizing", "recovering"}
    <2>1. BootAnnounces(r) => phase \in {"finalizing", "recovering"}
      BY DEF BootAnnounces, Announce, Base, BootAnnouncesAlone
    <2>q. QED BY <2>1 DEF BootStep, CancellationEnded, BootCommit, BootAnnounces, BootSkips, Finalize, Settle
  <1>3. SignalsAreMeant(r)'
    BY <1>1, <1>2 DEF SignalsAreMeant
  <1>4. QueuedIsKept(r)'
    <2> SUFFICES ASSUME status'[r] = "queued" PROVE QueuedIsKept(r)'
      BY DEF QueuedIsKept
    <2>1. ~ BootCommit(r) /\ status' = status
      <3>1. ~ BootCommit(r)
        BY <1>1 DEF BootCommit, Finalize, Settle, BootStatus
      <3>q. QED BY <3>1 DEF BootStep, CancellationEnded, BootAnnounces, BootSkips
    <2>2. ~ BootAnnounces(r)
      BY <2>1 DEF BootAnnounces, Announce, Base, AnnouncementsInOrder, IsTerminal, Terminal
    <2>3. CASE CancellationEnded(r)
      <3>1. phase = "draining" /\ ~ Closing /\ ~ Closing'
        BY <1>2, <2>3 DEF CancellationEnded, Closing
      <3>2. Supervised(r)' = Supervised(r) /\ AwaitsStart(r)' = AwaitsStart(r)
        BY <1>2 DEF Supervised, AwaitsStart
      <3>q. QED BY <1>1, <1>2, <2>1, <3>1, <3>2 DEF QueuedIsKept, QueuedIsPursued, Serving
    <2>4. CASE BootSkips(r)
      <3>1. r \in pendingRes /\ phase # "draining"
        BY <2>1, <2>4 DEF BootSkips, BootMaySettle, MayFinish, Unfinished
      <3>q. QED BY <1>1, <1>2, <2>1, <3>1 DEF QueuedIsKept, QueuedIsPursued, Serving, Closing
    <2>q. QED BY <2>1, <2>2, <2>3, <2>4 DEF BootStep
  <1>q. QED BY <1>3, <1>4

\* The steps on a run keep every queued run.
LEMMA RunStepsKeepQueue ==
  ASSUME Base, OwnInv, OverInv, QueueInv, TypeOK', NEW r \in Runs,
         TaskStep(r) \/ ToolStep(r) \/ CleanupTaskStep(r) \/ BootStep(r)
  PROVE  QueueInv'
  <1> SUFFICES ASSUME NEW q \in Runs PROVE SignalsAreMeant(q)' /\ QueuedIsKept(q)'
    BY DEF QueueInv
  <1>1. CASE q = r
    BY <1>1, TaskKeepsQueue, CleanupKeepsQueue, BootKeepsQueue
  <1>2. CASE q # r
    <2>1. /\ UNCHANGED <<phase, stops, retryOf, confirmed, call>>
          /\ status'[q] = status[q] /\ begun'[q] = begun[q] /\ task'[q] = task[q]
          /\ cleanup'[q] = cleanup[q]
          /\ q \in pendingRes' <=> q \in pendingRes
          /\ cancelReq'[q] = cancelReq[q] /\ missed'[q] = missed[q]
          /\ q \in todo' <=> q \in todo
      BY <1>2, RunStepsMindTheirRun DEF Base
    <2>2. AwaitsStart(q) => AwaitsStart(q)'
      BY <2>1 DEF AwaitsStart
    <2>3. SignalsAreMeant(q) /\ QueuedIsKept(q)
      BY DEF QueueInv
    <2>q. QED BY <2>1, <2>2, <2>3, UntouchedKeepsQueue
  <1>q. QED BY <1>1, <1>2

\* New requests: a cancellation pursues the run it finds.
LEMMA ClientKeepsQueue ==
  ASSUME Base, QueueInv, ClientStep
  PROVE  QueueInv'
  <1>1. TypeOK
    BY DEF Base, WellFormed
  <1>2. /\ UNCHANGED <<status, begun, task, cancelReq, pendingRes, todo, phase>>
        /\ \A q \in Runs : /\ cleanup'[q] \in {cleanup[q], "signal"}
                           /\ cleanup'[q] # cleanup[q] => cleanup[q] = "none"
                           /\ missed[q] # "nothing" => missed'[q] # "nothing"
    BY <1>1 DEF TypeOK, ClientStep, CreateSession, RequestCancel, StartCleanup, AcceptClose, AcceptSubmit,
       AcceptRetry, AcceptCall
  <1>3. ASSUME NEW q \in Runs, AwaitsStart(q) PROVE AwaitsStart(q)'
    <2>1. PICK c \in Callers : call[c].pc = "start" /\ call[c].r = q
      BY <1>3 DEF AwaitsStart
    <2>2. \/ call' = call
          \/ \E d \in Callers : \E request : AcceptCall(d, request)
      BY DEF ClientStep, CreateSession, RequestCancel, AcceptClose, AcceptSubmit, AcceptRetry
    <2>3. ASSUME NEW d \in Callers, NEW request, AcceptCall(d, request) PROVE call'[c] = call[c]
      BY <1>1, <2>1, <2>3 DEF AcceptCall, Idle, TypeOK
    <2>q. QED BY <2>1, <2>2, <2>3 DEF AwaitsStart
  <1>4. ASSUME NEW q \in Runs PROVE SignalsAreMeant(q)' /\ QueuedIsKept(q)'
    <2>1. SignalsAreMeant(q) /\ QueuedIsKept(q)
      BY DEF QueueInv
    <2>q. QED BY <1>2, <1>3, <2>1, UntouchedKeepsQueue
  <1>q. QED BY <1>4 DEF QueueInv

\* Steps of a client operation: who starts a run hands it to its task.
LEMMA CallKeepsQueue ==
  ASSUME Base, OwnInv, QueueInv, NEW c \in Callers, CallStep(c)
  PROVE  QueueInv'
  <1> SUFFICES ASSUME NEW q \in Runs PROVE SignalsAreMeant(q)' /\ QueuedIsKept(q)'
    BY DEF QueueInv
  <1>1. TypeOK /\ SignalsAreMeant(q) /\ QueuedIsKept(q) /\ RunIsSound(q)
    BY DEF Base, WellFormed, QueueInv, OwnInv
  <1>2. ASSUME call[c].pc # "start", \A d \in Callers : d # c => call'[d] = call[d],
               AwaitsStart(q)
        PROVE  AwaitsStart(q)'
    BY <1>2 DEF AwaitsStart
  <1>3. CASE SubmitAnswered(c) \/ RetryAnswered(c) \/ CloseWaited(c) \/ CloseCommit(c)
    <2>1. /\ UNCHANGED <<status, begun, task, cancelReq, cleanup, pendingRes, todo, phase, missed>>
          /\ call[c].pc # "start" /\ \A d \in Callers : d # c => call'[d] = call[d]
      BY <1>1, <1>3 DEF TypeOK, SubmitAnswered, RetryAnswered, CloseWaited, CloseCommit, HasLock, Return
    <2>q. QED BY <1>1, <1>2, <2>1, UntouchedKeepsQueue
  <1>4. CASE CloseAborted(c)
    <2>1. /\ UNCHANGED <<status, begun, task, cancelReq, cleanup, pendingRes, todo, phase, missed>>
          /\ \A d \in Callers : d # c => call'[d] = call[d]
      BY <1>1, <1>4 DEF TypeOK, CloseAborted, Return
    <2>2. call[c].pc # "start"
      BY <1>4 DEF CloseAborted, Base, WellFormed, CallsKnown, CallKnown, Owned
    <2>q. QED BY <1>1, <1>2, <2>1, <2>2, UntouchedKeepsQueue
  <1>5. CASE CloseBegins(c)
    <2>1. /\ UNCHANGED <<status, begun, task, cancelReq, pendingRes, todo, phase, missed>>
          /\ call[c].pc # "start" /\ \A d \in Callers : d # c => call'[d] = call[d]
          /\ cleanup'[q] \in {cleanup[q], "signal"}
          /\ cleanup'[q] # cleanup[q] => cleanup[q] = "none"
      BY <1>1, <1>5 DEF TypeOK, CloseBegins, RunToCancel, StartCleanup, HasLock
    <2>q. QED BY <1>1, <1>2, <2>1, UntouchedKeepsQueue
  <1>6. CASE StartRun(c)
    <2>1. phase \in {"up", "stopping"} /\ call[c].r \in Runs /\ CallIsSound(c)
      BY <1>6 DEF StartRun, Base, SubmissionsPrecedeClose, WellFormed, CallsKnown, CallKnown, OwnInv
    <2>2. /\ UNCHANGED <<status, begun, cancelReq, cleanup, pendingRes, todo, phase, missed>>
          /\ call[c].pc = "start" /\ \A d \in Callers : d # c => call'[d] = call[d]
      BY <1>1, <1>6 DEF TypeOK, StartRun, Return
    <2>3. CASE q = call[c].r
      <3>1. task[q] = "none" /\ task'[q] = "new" /\ ~ begun[q] /\ cancelReq[q] = "no"
        BY <1>1, <1>6, <2>1, <2>2, <2>3 DEF StartRun, CallIsSound, RunIsSound, TypeOK
      <3>q. QED BY <2>1, <2>2, <3>1 DEF SignalsAreMeant, QueuedIsKept, QueuedIsPursued, Supervised, Closing
    <2>4. CASE q # call[c].r
      <3>1. task'[q] = task[q] /\ (AwaitsStart(q) => AwaitsStart(q)')
        BY <1>1, <1>6, <2>2, <2>4 DEF StartRun, AwaitsStart, TypeOK
      <3>q. QED BY <1>1, <2>2, <3>1, UntouchedKeepsQueue
    <2>q. QED BY <2>3, <2>4
  <1>7. ASSUME NEW r \in Runs, NEW t, NEW k, NEW n, NEW original, AddRun(c, r, t, k, n, original),
               call[c].pc = "wait"
        PROVE  SignalsAreMeant(q)' /\ QueuedIsKept(q)'
    <2>1. /\ UNCHANGED <<begun, task, cancelReq, cleanup, pendingRes, todo, phase, missed>>
          /\ status[r] = "absent" /\ status' = [status EXCEPT ![r] = "queued"]
          /\ call' = [call EXCEPT ![c].pc = "start", ![c].r = r]
      BY <1>7 DEF AddRun
    <2>2. \A d \in Callers : d # c => call'[d] = call[d]
      BY <1>1, <2>1 DEF TypeOK
    <2>3. CASE q = r
      <3>1. ~ begun[q] /\ task[q] = "none"
        BY <1>1, <2>1, <2>3 DEF RunIsSound, TypeOK
      <3>2. AwaitsStart(q)'
        BY <1>1, <2>1, <2>3 DEF AwaitsStart, TypeOK, Call
      <3>3. phase # "down"
        BY <1>7 DEF OwnInv, DeadIsEmpty, Serving, Idle
      <3>q. QED BY <1>1, <2>1, <3>1, <3>2, <3>3 DEF SignalsAreMeant, QueuedIsKept, QueuedIsPursued
    <2>4. CASE q # r
      <3>1. status'[q] = status[q]
        BY <1>1, <2>1, <2>4 DEF TypeOK
      <3>q. QED BY <1>1, <1>2, <1>7, <2>1, <2>2, <3>1, UntouchedKeepsQueue
    <2>q. QED BY <2>3, <2>4
  <1>8. ASSUME NEW r \in Runs, SubmitCommit(c, r) PROVE SignalsAreMeant(q)' /\ QueuedIsKept(q)'
    BY <1>7, <1>8 DEF SubmitCommit, HasLock
  <1>9. ASSUME NEW r \in Runs, NEW latest \in Runs, RetryCommit(c, r, latest)
        PROVE  SignalsAreMeant(q)' /\ QueuedIsKept(q)'
    BY <1>7, <1>9 DEF RetryCommit, HasLock
  <1>q. QED BY <1>3, <1>4, <1>5, <1>6, <1>8, <1>9 DEF CallStep

\* Shutdown closes the supervisor when no submission is left, and takes over what it supervised.
LEMMA PhasesKeepQueue ==
  ASSUME Base, OwnInv, QueueInv,
         BeginShutdown \/ WaitForCancellations \/ SupervisorShutdown \/ TasksEnded \/ Recovered
  PROVE  QueueInv'
  <1> SUFFICES ASSUME NEW q \in Runs PROVE SignalsAreMeant(q)' /\ QueuedIsKept(q)'
    BY DEF QueueInv
  <1>1. TypeOK /\ SignalsAreMeant(q) /\ QueuedIsKept(q) /\ RunIsSound(q) /\ RunIsKept(q)
    BY DEF Base, WellFormed, QueueInv, OwnInv
  <1>2. /\ UNCHANGED <<status, begun, task, cleanup, pendingRes, missed, call>>
        /\ Supervised(q)' = Supervised(q) /\ AwaitsStart(q)' = AwaitsStart(q)
    BY DEF BeginShutdown, WaitForCancellations, SupervisorShutdown, TasksEnded, Recovered, Supervised,
       AwaitsStart
  <1>3. CASE BeginShutdown
    BY <1>1, <1>2, <1>3 DEF BeginShutdown, SignalsAreMeant, QueuedIsKept, QueuedIsPursued, Serving, Closing
  <1>4. CASE WaitForCancellations
    BY <1>1, <1>2, <1>4 DEF WaitForCancellations, SignalsAreMeant, QueuedIsKept, QueuedIsPursued, Serving,
       Closing
  <1>5. CASE SupervisorShutdown
    <2>1. ~ AwaitsStart(q)
      BY <1>5 DEF SupervisorShutdown, AwaitsStart, Base, SubmissionsPrecedeClose, WellFormed, CallsKnown,
         CallKnown
    <2>2. /\ phase = "draining" /\ phase' = "cancelling"
          /\ cancelReq'[q] = "sent" => cancelReq[q] = "sent" \/ q \in todo'
          /\ Supervised(q) => q \in todo'
      BY <1>1, <1>5 DEF SupervisorShutdown, TypeOK
    <2>q. QED BY <1>1, <1>2, <2>1, <2>2 DEF SignalsAreMeant, QueuedIsKept, QueuedIsPursued, Serving, Closing
  <1>6. CASE TasksEnded
    <2>1. /\ phase = "cancelling" /\ phase' = "finalizing" /\ UNCHANGED <<todo, cancelReq>>
          /\ ~ Supervised(q)
      BY <1>6 DEF TasksEnded
    <2>2. cancelReq[q] = "no"
      BY <1>1, <2>1 DEF RunIsSound, Supervised
    <2>q. QED BY <1>1, <1>2, <2>1, <2>2 DEF SignalsAreMeant, QueuedIsKept, QueuedIsPursued, Serving, Closing
  <1>7. CASE Recovered
    <2>1. /\ phase = "recovering" /\ todo = {} /\ phase' = "up" /\ UNCHANGED cancelReq
      BY <1>7 DEF Recovered
    <2>2. status[q] # "queued"
      BY <1>1, <2>1 DEF RunIsKept, IsUnfinished, Unfinished
    <2>3. cancelReq[q] = "no"
      BY <1>1, <2>1 DEF RunIsKept, RunIsSound, Serving
    <2>q. QED BY <1>2, <2>1, <2>2, <2>3 DEF SignalsAreMeant, QueuedIsKept
  <1>q. QED BY <1>3, <1>4, <1>5, <1>6, <1>7

\* An orderly end leaves queued what was being cancelled; no other end promises anything.
LEMMA EndKeepsQueue ==
  ASSUME Base, OwnInv, QueueInv, Stop \/ Crash \/ Restart
  PROVE  QueueInv'
  <1> SUFFICES ASSUME NEW q \in Runs PROVE SignalsAreMeant(q)' /\ QueuedIsKept(q)'
    BY DEF QueueInv
  <1>1. TypeOK /\ SignalsAreMeant(q) /\ QueuedIsKept(q) /\ RunIsSound(q) /\ RunIsKept(q)
    BY DEF Base, WellFormed, QueueInv, OwnInv
  <1>2. UNCHANGED <<status, begun>>
    BY DEF Stop, Crash, Restart
  <1>3. task'[q] = "none" /\ cancelReq'[q] = "no"
    <2>1. CASE Restart
      BY <1>1, <2>1 DEF Restart, RunIsKept, RunIsSound, Serving
    <2>2. CASE Stop \/ Crash
      BY <2>2 DEF Stop, Crash, LoseVolatile
    <2>q. QED BY <2>1, <2>2
  <1>4. SignalsAreMeant(q)'
    BY <1>3 DEF SignalsAreMeant
  <1>5. ~ Serving'
    BY DEF Stop, Crash, Restart, Serving
  <1>6. ASSUME phase' = "down", status[q] = "queued" PROVE q \in pendingRes' \/ missed'[q] # "nothing"
    <2>1. Stop /\ phase = "finalizing" /\ todo = {} /\ pendingRes' = pendingRes
      BY <1>6 DEF Stop, Crash, Restart
    <2>2. missed'[q] = IF cleanup[q] = "none" THEN missed[q] ELSE MissesEnd(q)
      BY <2>1 DEF Stop, LoseVolatile
    <2>3. ~ AwaitsStart(q)
      BY <2>1 DEF AwaitsStart, Base, SubmissionsPrecedeClose, WellFormed, CallsKnown, CallKnown
    <2>4. QueuedIsPursued(q)
      BY <1>1, <1>6, <2>1 DEF QueuedIsKept, Serving
    <2>q. QED BY <2>1, <2>2, <2>3, <2>4 DEF QueuedIsPursued, Closing, MissesEnd
  <1>7. QueuedIsKept(q)'
    BY <1>1, <1>2, <1>3, <1>5, <1>6 DEF QueuedIsKept
  <1>q. QED BY <1>4, <1>7

\* Every step keeps the queued runs.
LEMMA NextKeepsQueue ==
  ASSUME Base, OwnInv, OverInv, QueueInv, [Next]_vars
  PROVE  QueueInv'
  <1>0. TypeOK'
    BY NextKeepsBase DEF Base, WellFormed
  <1>1. CASE ClientStep
    BY <1>1, ClientKeepsQueue
  <1>2. CASE BeginShutdown \/ WaitForCancellations \/ SupervisorShutdown \/ TasksEnded \/ Recovered
    BY <1>2, PhasesKeepQueue
  <1>3. CASE Stop \/ Crash \/ Restart
    BY <1>3, EndKeepsQueue
  <1>4. ASSUME NEW c \in Callers, CallStep(c) PROVE QueueInv'
    BY <1>4, CallKeepsQueue
  <1>5. ASSUME NEW r \in Runs, TaskStep(r) \/ ToolStep(r) \/ CleanupTaskStep(r) \/ BootStep(r)
        PROVE  QueueInv'
    BY <1>0, <1>5, RunStepsKeepQueue
  <1>6. CASE UNCHANGED vars
    BY <1>6 DEF QueueInv, SignalsAreMeant, QueuedIsKept, QueuedIsPursued, Serving, Closing, Supervised,
       AwaitsStart
  <1>q. QED BY <1>1, <1>2, <1>3, <1>4, <1>5, <1>6 DEF Next, Environment, DaemonStep

(***************************************************************************)
(* After an orderly stop a run is unfinished only if its containers are    *)
(* not confirmed gone, or if it is queued and was being cancelled: the     *)
(* submissions, the cancellations and the tasks that shutdown waits for    *)
(* settle every other.                                                     *)
(***************************************************************************)
THEOREM StopsAlwaysSettle == Spec => []StoppedRunsAreSettled
  <1>1. Init => QueueInv
    BY DEF Init, QueueInv, SignalsAreMeant, QueuedIsKept
  <1>2. Base /\ OwnInv /\ OverInv /\ QueueInv /\ [Next]_vars => QueueInv'
    BY NextKeepsQueue
  <1>3. OwnInv /\ QueueInv => StoppedRunsAreSettled
    BY DEF OwnInv, RunIsKept, QueueInv, QueuedIsKept, StoppedRunsAreSettled, IsUnfinished, Unfinished
  <1>q. QED BY <1>1, <1>2, <1>3, OwnInvHolds, OverInvHolds, PTL DEF Spec

===============================================================================
