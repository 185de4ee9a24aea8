------------------------- MODULE MCPokerTableClaims -------------------------
EXTENDS PokerTableClaims, TLC

PlayerSymmetry == Permutations(Player)
=============================================================================
