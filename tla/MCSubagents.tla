----------------------------- MODULE MCSubagents -----------------------------
(* An instance of Subagents for TLC; children are interchangeable.           *)
EXTENDS Subagents, TLC

Symmetry == Permutations(Children)
===============================================================================
