SPECIFICATION Spec
CONSTANTS
  Tab = {t1, t2}
  Browser = {b1, b2}
  MaxSockets = 2
  MaxLogins = 2
SYMMETRY Symmetry
\* The logins are bounded: the user may run out of them.
CHECK_DEADLOCK FALSE
INVARIANT TypeOK
INVARIANT OneDevice
INVARIANT SeatWatched
PROPERTY BackInTime
PROPERTY LoginKept
