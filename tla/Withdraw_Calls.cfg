SPECIFICATION FairSpec
CONSTANTS
  alice = alice  r1 = r1  j1 = j1  j2 = j2
  User = {alice}
  Request = {r1}
  Owner <- OneOwner
  NoRequest = NoRequest
  Amount = {1}
  Bankroll = {0, 1}
  Job = {j1, j2}
  MaxCrashes = 1
  Unknown = Unknown
INVARIANT TypeOK
INVARIANT ConfirmedIsPaid
INVARIANT FailedIsRefunded
PROPERTY PromiseKept
PROPERTY ProcessingEnds
CHECK_DEADLOCK FALSE
