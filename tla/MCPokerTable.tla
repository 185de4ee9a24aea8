---------------------------- MODULE MCPokerTable ----------------------------
EXTENDS PokerTable, TLC

PlayerSymmetry == Permutations(Player)
=============================================================================
