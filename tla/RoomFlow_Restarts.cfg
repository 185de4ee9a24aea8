SPECIFICATION FairSpec
CONSTANTS
  j1 = j1
  Job = {j1}
  NoJob = NoJob
  NoTime = NoTime
  ActionTicks = 3
  SettlementTicks = 2
  ReadyTicks = 2
  SoloTicks = 3
  MaxTimers = 2
  MaxMoves = 2
  MaxCrashes = 2
CHECK_DEADLOCK FALSE
PROPERTY SettlementEnds
