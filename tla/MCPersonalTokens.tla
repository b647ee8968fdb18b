-------------------------- MODULE MCPersonalTokens --------------------------
EXTENDS PersonalTokens, TLC
TabSymmetry == Permutations(Tabs) \cup Permutations(TokenIds)
=============================================================================
