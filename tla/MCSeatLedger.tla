---------------------------- MODULE MCSeatLedger ----------------------------
EXTENDS SeatLedger, TLC

JobSymmetry == Permutations(Job)
Symmetry    == Permutations(Job) \cup Permutations(User) \cup Permutations(Room)
=============================================================================
