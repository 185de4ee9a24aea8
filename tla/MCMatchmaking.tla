---------------------------- MODULE MCMatchmaking ----------------------------
EXTENDS Matchmaking, TLC

Symmetry == Permutations(Job) \cup Permutations(User)
=============================================================================
