--------------------------- MODULE SandboxContract ---------------------------
(***************************************************************************)
(* What the run lifecycle relies on when it waits for the cleanup of a run *)
(* before it settles it: once the cleanup was confirmed nothing of the run *)
(* exists in the container engine, and nothing will ever appear again.     *)
(* RunLifecycle keeps this as one bit per run (held).                      *)
(***************************************************************************)
CONSTANT Runs

VARIABLES
    held,       \* runs that have, or may still get, a container
    confirmed   \* runs whose cleanup was confirmed

Init == held = {} /\ confirmed = {}

Acquire(r) ==
    /\ r \notin confirmed
    /\ held' = held \union {r}
    /\ UNCHANGED confirmed

\* Containers are removed, or end by themselves.
Release ==
    /\ held' \in SUBSET held
    /\ UNCHANGED confirmed

\* A cleanup, or the recovery of a later process, confirms that runs hold nothing.
Confirm ==
    /\ held' \in SUBSET held
    /\ confirmed' \in SUBSET Runs
    /\ confirmed \subseteq confirmed'
    /\ confirmed' \intersect held' = {}

Next ==
    \/ \E r \in Runs : Acquire(r)
    \/ Release
    \/ Confirm

Spec == Init /\ [][Next]_<<held, confirmed>>
==============================================================================
