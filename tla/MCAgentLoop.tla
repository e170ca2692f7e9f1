---------------------------- MODULE MCAgentLoop ----------------------------
\* Two agents share the ledgers, or are two runs of a session whose turns fit or do not.
EXTENDS Conversation, TLC

Turn(n, size) == <<[Message("old", size) EXCEPT !.of = {n}], [Message("text", 1) EXCEPT !.of = {n}]>>
MCHistories == {Turn(1, 1), Turn(1, 4) \o Turn(2, 1)}

Symmetry == Permutations(Callers)
=============================================================================
