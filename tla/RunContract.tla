----------------------------- MODULE RunContract -----------------------------
(***************************************************************************)
(* What the runtime promises its clients about sessions and runs, with the *)
(* tasks, locks, crashes and cleanups of RuntimeService left out.          *)
(*                                                                         *)
(* A session is a slot: while it is open it is either ready, or running    *)
(* exactly one run.  A run is queued when it is accepted, may begin, and   *)
(* settles once, which frees the slot of a session that is still open.     *)
(* RunLifecycle is shown to implement this module.                         *)
(***************************************************************************)

CONSTANTS
    Sessions,   \* session identifiers
    Runs,       \* run identifiers
    OneShot,    \* the sessions created in one_shot mode
    NoRun,      \* the value of an empty slot
    NoSession   \* the session of a run that does not exist yet

VARIABLES
    sessStatus,   \* sessions.status, "absent" before create_session
    active,       \* sessions.active_run_id
    status,       \* runs.status, "absent" before the run is accepted
    home          \* runs.session_id

contractVars == <<sessStatus, active, status, home>>

Settled == {"succeeded", "failed", "cancelled", "interrupted"}

(***************************************************************************)
(* The status a session takes when its run settles: a one_shot session     *)
(* closes, a chat session waits for the next message.                      *)
(***************************************************************************)
StatusAfterRun(s) == IF s \in OneShot THEN "closed" ELSE "ready"

Init ==
    /\ sessStatus = [s \in Sessions |-> "absent"]
    /\ active     = [s \in Sessions |-> NoRun]
    /\ status     = [r \in Runs |-> "absent"]
    /\ home       = [r \in Runs |-> NoSession]

Open(s) ==
    /\ sessStatus[s] = "absent"
    /\ sessStatus' = [sessStatus EXCEPT ![s] = "ready"]
    /\ UNCHANGED <<active, status, home>>

Accept(s, r) ==
    /\ sessStatus[s] = "ready"
    /\ active[s] = NoRun
    /\ status[r] = "absent"
    /\ sessStatus' = [sessStatus EXCEPT ![s] = "running"]
    /\ active'     = [active EXCEPT ![s] = r]
    /\ status'     = [status EXCEPT ![r] = "queued"]
    /\ home'       = [home EXCEPT ![r] = s]

Begin(r) ==
    /\ status[r] = "queued"
    /\ status' = [status EXCEPT ![r] = "running"]
    /\ UNCHANGED <<sessStatus, active, home>>

(***************************************************************************)
(* A run settles in its own session: the slot is freed in the same step,   *)
(* and only the run that occupies a slot may free it.                      *)
(***************************************************************************)
SettleInOpenSession(s, r, outcome) ==
    /\ active[s] = r
    /\ status[r] \in {"queued", "running"}
    /\ status'     = [status EXCEPT ![r] = outcome]
    /\ active'     = [active EXCEPT ![s] = NoRun]
    /\ sessStatus' = [sessStatus EXCEPT ![s] = StatusAfterRun(s)]
    /\ UNCHANGED home

(***************************************************************************)
(* A run may outlive its session: then it settles without reviving it.     *)
(***************************************************************************)
SettleInClosedSession(s, r, outcome) ==
    /\ home[r] = s
    /\ sessStatus[s] = "closed"
    /\ status[r] \in {"queued", "running"}
    /\ status' = [status EXCEPT ![r] = outcome]
    /\ UNCHANGED <<sessStatus, active, home>>

Close(s) ==
    /\ sessStatus[s] # "absent"
    /\ sessStatus' = [sessStatus EXCEPT ![s] = "closed"]
    /\ active'     = [active EXCEPT ![s] = NoRun]
    /\ UNCHANGED <<status, home>>

Next ==
    \/ \E s \in Sessions : Open(s) \/ Close(s)
    \/ \E s \in Sessions, r \in Runs : Accept(s, r)
    \/ \E r \in Runs : Begin(r)
    \/ \E s \in Sessions, r \in Runs, outcome \in Settled :
           SettleInOpenSession(s, r, outcome) \/ SettleInClosedSession(s, r, outcome)

Spec == Init /\ [][Next]_contractVars
==============================================================================
