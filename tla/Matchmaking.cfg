SPECIFICATION Spec
CONSTANTS
  j1 = j1  j2 = j2
  u1 = u1  u2 = u2  u3 = u3
  Job = {j1, j2}
  User = {u1, u2, u3}
  NoUser = NoUser
  Capacity = 2
  MatchRange = 200
  MaxRooms = 2
  MaxMoves = 3
SYMMETRY Symmetry
INVARIANT SearchAnswered
PROPERTY MatchFits
CHECK_DEADLOCK FALSE
