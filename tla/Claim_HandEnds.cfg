SPECIFICATION FairSpec
CONSTANTS
  p1 = p1  p2 = p2  p3 = p3
  Player = {p1, p2, p3}
  Nobody = Nobody
  MaxPlayers = 2
  SmallBlind = 1
  BigBlind = 2
  RakePercent = 30
  RakeCap = 1
  Rank = {0, 1}
  MinBuyIn = 2
  Bankroll = {2}
  RaiseTo = {4}
  JoinStage = {"WAITING"}
  MaxLateBet = 1
PROPERTY HandEnds
CHECK_DEADLOCK FALSE
