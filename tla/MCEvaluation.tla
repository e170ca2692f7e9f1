---------------------------- MODULE MCEvaluation ----------------------------
(* Small suites: two attempts where the agents are simple, one for a tree. *)
EXTENDS Evaluation

MCSuites == [kind : {"case", "single"}, attempts : {2}]
            \cup [kind : {"orchestrated"}, attempts : {1}]
=============================================================================
