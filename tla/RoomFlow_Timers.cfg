SPECIFICATION Spec
CONSTANTS
  j1 = j1  j2 = j2
  Job = {j1, j2}
  NoJob = NoJob
  NoTime = NoTime
  ActionTicks = 2
  SettlementTicks = 2
  ReadyTicks = 2
  SoloTicks = 3
  MaxTimers = 3
  MaxMoves = 2
  MaxCrashes = 0
SYMMETRY JobSymmetry
INVARIANT FlowAlive
PROPERTY SettledOnce
PROPERTY LateTimeouts
CHECK_DEADLOCK FALSE
