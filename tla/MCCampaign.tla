------------------------------ MODULE MCCampaign ------------------------------
\* Tasks, and the coroutines that run them, are interchangeable.
EXTENDS Campaign, TLC
Symmetry == Permutations(Tasks) \cup Permutations(Lanes)
=============================================================================
