SPECIFICATION PageSpec
CONSTANTS
  p1 = p1  p2 = p2
  Player = {p1, p2}
  Nobody = Nobody
  MaxPlayers = 2
  SmallBlind = 1
  BigBlind = 2
  RakePercent = 0
  RakeCap = 1
  Rank = {0}
  MinBuyIn = 3
  Bankroll = {3}
  RaiseTo = {}
  RaiseInput = {4}
  JoinStage = {"WAITING"}
  MaxLateBet = 0
  Me = p1
  Client = {"web", "phone", "app"}
  MaxOwed = 1
  MaxMissed = 1
  MaxClicks = 1
CHECK_DEADLOCK FALSE
INVARIANT PageCurrent
INVARIANT OfferTaken
PROPERTY ClickCostsItsPrice
