SPECIFICATION Spec
CONSTANTS
  u1 = u1  u2 = u2
  t1 = t1  t2 = t2
  q1 = q1  q2 = q2
  c1 = c1
  User = {u1, u2}
  Transfer = {t1, t2}
  Poll = {q1, q2}
  Call = {c1}
  Known = {u1}
  Bankroll = 1
  Nothing = Nothing
  Window = 1
  ResetWindow = 0
  MaxHeight = 2
  MaxFaults = 1
  MaxCalls = 1
INVARIANT NothingSkipped
INVARIANT CoinShowsChips
PROPERTY PromiseKept
CHECK_DEADLOCK FALSE
SYMMETRY Symmetry
