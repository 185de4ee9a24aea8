SPECIFICATION Spec
CONSTANTS
  p1 = p1  p2 = p2  p3 = p3
  Player = {p1, p2, p3}
  Nobody = Nobody
  MaxPlayers = 3
  SmallBlind = 1
  BigBlind = 1
  RakePercent = 50
  RakeCap = 1
  Rank = {0, 1}
  MinBuyIn = 2
  Bankroll = {2}
  RaiseTo = {2}
  JoinStage = {"WAITING", "RIVER"}
  MaxLateBet = 1
SYMMETRY PlayerSymmetry
INVARIANT TypeOK
PROPERTY NoChipsCreated
PROPERTY SettlementLoss
PROPERTY ChipsConservedInHand
INVARIANT PotCoversBets
INVARIANT AllInMeansNoChips
INVARIANT StreetsSettled
PROPERTY OnlyActorPays
INVARIANT TimeoutsProgress
CHECK_DEADLOCK FALSE
