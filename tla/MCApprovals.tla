---------------------------- MODULE MCApprovals ----------------------------
(* An instance of Approvals for TLC: the kinds of calls.                     *)
EXTENDS Approvals

MCKinds ==
    {[profile |-> "workspace_sandbox", verdict |-> v] : v \in {"ask", "forced"}}
    \union {[profile |-> "in_process", verdict |-> v] : v \in {"ask", "allow"}}

(***************************************************************************)
(* One call with a terminal whose connection is lost, or two concurrent    *)
(* calls whose requests are answered by any client.                        *)
(***************************************************************************)
MCScenes ==
    {[calls |-> {Root}, terminal |-> TRUE], [calls |-> Calls, terminal |-> FALSE]}
=============================================================================
