--------------------------- MODULE MCBoardJourney ---------------------------
EXTENDS BoardJourney, TLC
BoardSymmetry == Permutations(Tabs) \cup Permutations(Boards)
=============================================================================
