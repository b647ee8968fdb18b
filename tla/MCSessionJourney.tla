-------------------------- MODULE MCSessionJourney --------------------------
EXTENDS SessionJourney, TLC
Symm == Permutations(Tabs) \cup Permutations(SessionIds)
=============================================================================
