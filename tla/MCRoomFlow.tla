----------------------------- MODULE MCRoomFlow -----------------------------
EXTENDS RoomFlow, TLC

JobSymmetry == Permutations(Job)
=============================================================================
