------------------------------- MODULE MCDaemon -------------------------------
EXTENDS Daemon, TLC
CONSTANTS l1, l2, l3, s1, h1, h2

\* Two launches and a stop in one home, and a launch from another home that wants the same port.
MCHomeOf  == [x \in {l1, l2, l3, s1} |-> IF x = l3 THEN h2 ELSE h1]
Symmetry  == Permutations({l1, l2})
=============================================================================
