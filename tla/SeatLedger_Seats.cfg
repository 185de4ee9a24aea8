SPECIFICATION Spec
CONSTANTS
  j1 = j1  j2 = j2
  u1 = u1  u2 = u2
  r1 = r1  r2 = r2
  Job = {j1, j2}
  User = {u1, u2}
  Room = {r1, r2}
  NoJob = NoJob
  NoUser = NoUser
  NoSeat = NoSeat
  NoSeats = NoSeats
  Nowhere = Nowhere
  Capacity = 2
  MinBuyIn = 1
  Bankroll = 1
  MaxTrades = 1
  MaxMisses = 1
  MaxCrashes = 1
SYMMETRY Symmetry
INVARIANT TypeOK
INVARIANT NothingStranded
INVARIANT SeatedMeansFrozen
PROPERTY PromiseKept
CHECK_DEADLOCK FALSE
