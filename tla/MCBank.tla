------------------------------- MODULE MCBank -------------------------------
EXTENDS Bank, TLC

\* The polls are all alike; so an idle one stands for another.
Symmetry == Permutations(Poll)
=============================================================================
