SPECIFICATION ShowdownSpec
CONSTANTS
  p1 = p1  p2 = p2  p3 = p3
  Player = {p1, p2, p3}
  Nobody = Nobody
  MaxPlayers = 3
  SmallBlind = 1
  BigBlind = 2
  RakePercent = 3
  RakeCap = 30
  Rank = {0, 1, 2}
  Contribution = {0, 1, 2, 3, 5}
  BoardCards <- MCBoardCards
  HoleCards <- MCHoleCards
INVARIANT HandsAreBest
INVARIANT PotsHoldLevels
INVARIANT PaysPayout
INVARIANT BestHandIsPaid
INVARIANT NobodyWinsUnmatched
CHECK_DEADLOCK FALSE
