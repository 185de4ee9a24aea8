---------------------------- MODULE TableEngine ----------------------------
(***************************************************************************)
(* The pure part of apps/backend/src/table-engine/table.ts: a table is a   *)
(* record, every method of class Table that changes it is an operator from *)
(* a table (and the ranking of the hole cards, for the methods that can    *)
(* reach the showdown) to a table.                                         *)
(*                                                                         *)
(* Seats are the indices of Table.players.  The per-player fields are      *)
(* functions of the seat; an empty seat (players[i] === null) has          *)
(* id[i] = Nobody and zero in every other field.  Cards are abstracted to  *)
(* the rank the player's best five-card hand has at the showdown: a player *)
(* who was dealt no cards (dealt[i] = FALSE, he sat down after the deal)   *)
(* plays the board, the lowest rank anyone can have.                       *)
(***************************************************************************)
EXTENDS ChipCount

CONSTANTS
  Player,      \* user ids
  Nobody,      \* a null seat
  MaxPlayers,  \* length of Table.players
  SmallBlind, BigBlind,
  RakePercent, \* RAKE_RATE as a percentage (3 in the code)
  RakeCap,     \* RAKE_CAP (30 in the code)
  Rank         \* ranks a best hand can have; 0 is "plays the board"

ASSUME PlayerAssumption == IsFiniteSet(Player)
ASSUME NobodyAssumption == Nobody \notin Player
ASSUME SeatAssumption   == MaxPlayers \in Nat \ {0}
ASSUME BlindAssumption  == SmallBlind \in Nat \ {0} /\ BigBlind \in Nat \ {0}
ASSUME RakeAssumption   == RakePercent \in 0 .. 100 /\ RakeCap \in Nat
ASSUME RankAssumption   == Rank \subseteq Nat /\ 0 \in Rank

Seat == 0 .. MaxPlayers - 1

NoSeat  == -1    \* activePlayerIndex while nobody is to act
NoAllIn == -1    \* calledAllIn === null

Status      == {"ACTIVE", "FOLD", "ALLIN", "SITOUT"}
ActionStage == {"PREFLOP", "FLOP", "TURN", "RIVER"}
Stage       == ActionStage \cup {"WAITING", "SETTLEMENT"}

Zero        == [i \in Seat |-> 0]
False       == [i \in Seat |-> FALSE]

\* lastHandResult: the winAmount of each player who has an entry in it.
NoEntry  == -1
NoResult == [p \in Player |-> NoEntry]

Table ==
  [id : [Seat -> Player \cup {Nobody}],
   stack : [Seat -> Nat], bet : [Seat -> Nat], totalBet : [Seat -> Nat],
   status : [Seat -> Status],
   hasActed : [Seat -> BOOLEAN], ready : [Seat -> BOOLEAN],
   dealt : [Seat -> BOOLEAN],
   stage : Stage, pot : Nat, currentBet : Nat, minBet : Nat,
   active : Seat \cup {NoSeat}, dealer : Seat,
   straddled : BOOLEAN, calledAllIn : Nat \cup {NoAllIn},
   result : [Player -> Nat \cup {NoEntry}], isFoldWin : BOOLEAN, revealed : BOOLEAN,
   countdown : BOOLEAN]

\* constructor
NewTable ==
  [id |-> [i \in Seat |-> Nobody],
   stack |-> Zero, bet |-> Zero, totalBet |-> Zero,
   status |-> [i \in Seat |-> "SITOUT"],
   hasActed |-> False, ready |-> False, dealt |-> False,
   stage |-> "WAITING", pot |-> 0, currentBet |-> 0, minBet |-> BigBlind,
   active |-> NoSeat, dealer |-> 0,
   straddled |-> FALSE, calledAllIn |-> NoAllIn,
   result |-> NoResult, isFoldWin |-> FALSE, revealed |-> FALSE,
   countdown |-> FALSE]

----------------------------------------------------------------------------
(* Seats and turns *)

Occupied(t)  == {i \in Seat : t.id[i] # Nobody}
Playable(t)  == {i \in Occupied(t) : t.stack[i] > 0}
Live(t)      == {i \in Occupied(t) : t.status[i] = "ACTIVE"}
NotFolded(t) == {i \in Occupied(t) : t.status[i] # "FOLD"}
HasPlayer(t, p) == \E i \in Seat : t.id[i] = p
SeatOf(t, p)    == CHOOSE i \in Seat : t.id[i] = p

\* Seats between i (excluded) and j (included) going clockwise.
Ahead(i, j) == IF j > i THEN j - i ELSE j - i + MaxPlayers

\* The first seat of S clockwise from i; i itself when S is empty.
NextIn(S, i) ==
  IF S = {} THEN i
  ELSE CHOOSE j \in S : \A k \in S : Ahead(i, j) <= Ahead(i, k)

NextSeatedFrom(t, i) == NextIn(Playable(t), i)
NextActiveFrom(t, i) == NextIn(Live(t), i)

TurnOf(t, p) == t.active \in Seat /\ t.id[t.active] = p

IsCurrentPlayerSitOut(t) ==
  /\ t.stage \in ActionStage
  /\ t.active \in Occupied(t)
  /\ t.status[t.active] = "SITOUT"

----------------------------------------------------------------------------
(* Sitting down, standing up, getting ready *)

AddPlayer(t, i, p, stack) ==
  [t EXCEPT !.id[i] = p, !.stack[i] = stack,
            !.status[i] = IF stack > 0 THEN "ACTIVE" ELSE "SITOUT"]

RemovePlayer(t, i) ==
  [t EXCEPT !.id[i] = Nobody, !.stack[i] = 0, !.bet[i] = 0, !.totalBet[i] = 0,
            !.status[i] = "SITOUT", !.hasActed[i] = FALSE, !.ready[i] = FALSE,
            !.dealt[i] = FALSE]

AreAllSeatedPlayersReady(t) ==
  /\ Cardinality(Playable(t)) >= 2
  /\ \A i \in Playable(t) : t.ready[i]

BeginReadyCountdown(t) ==
  [t EXCEPT !.ready = [i \in Seat |-> i \in Playable(t)], !.countdown = TRUE]

----------------------------------------------------------------------------
(* Starting a hand *)

\* startHand, for a table with at least two playable seats.
StartHand(t) ==
  LET dealer == IF t.dealer \in Playable(t)
                THEN t.dealer ELSE NextSeatedFrom(t, t.dealer)
      sb     == NextSeatedFrom(t, dealer)
      bb     == NextSeatedFrom(t, sb)
      blind  == [i \in Seat |-> IF i = bb THEN Least(BigBlind, t.stack[i])
                                ELSE IF i = sb THEN Least(SmallBlind, t.stack[i])
                                ELSE 0]
      posted == [t EXCEPT
                   !.stack = [i \in Seat |-> t.stack[i] - blind[i]],
                   !.bet = blind, !.totalBet = blind,
                   !.status = [i \in Seat |->
                      IF t.stack[i] = 0 THEN "SITOUT"
                      ELSE IF t.stack[i] = blind[i] THEN "ALLIN" ELSE "ACTIVE"],
                   !.hasActed = False, !.ready = False,
                   !.dealt = [i \in Seat |-> i \in Playable(t)],
                   !.stage = "PREFLOP", !.pot = blind[sb] + blind[bb],
                   !.currentBet = blind[bb], !.dealer = dealer,
                   !.straddled = FALSE, !.calledAllIn = NoAllIn,
                   !.result = NoResult, !.countdown = FALSE]
  IN  [posted EXCEPT !.active = NextSeatedFrom(posted, bb)]

StartHandIfReady(t) == IF AreAllSeatedPlayersReady(t) THEN StartHand(t) ELSE t

----------------------------------------------------------------------------
(* The end of a hand *)

\* Mutant: the cap is forgotten.
UncappedRakeOf(pot) == (pot * RakePercent) \div 100

RakeOf(pot) == Least((pot * RakePercent) \div 100, RakeCap)

\* The entries of lastHandResult: one per seated player.
ResultOf(t, win) ==
  [p \in Player |-> IF HasPlayer(t, p) THEN win[SeatOf(t, p)] ELSE NoEntry]

FoldWin(t, w) ==
  LET amount == t.pot - RakeOf(t.pot)
      win    == [i \in Seat |-> IF i = w THEN amount ELSE 0]
  IN  [t EXCEPT !.stack[w] = @ + amount, !.pot = 0,
                !.result = ResultOf(t, win),
                !.isFoldWin = TRUE, !.revealed = FALSE, !.stage = "SETTLEMENT"]

\* buildPots. The levels of the pots are the distinct contributions that a
\* player still in has reached; chip k of anyone's contribution lies in the pot
\* of the lowest level not below k, or in the last pot when only players who
\* folded have put in that much.
OpenLevels(t) ==
  {l \in {t.totalBet[i] : i \in Occupied(t)} :
     l > 0 /\ \E i \in NotFolded(t) : t.totalBet[i] >= l}

PotOf(levels, k) ==
  IF \E l \in levels : l >= k THEN First({l \in levels : l >= k}) ELSE Last(levels)

PotAmount(t, level) ==
  Cardinality({c \in Chips(t.totalBet) : PotOf(OpenLevels(t), c[2]) = level})

PotEligible(t, level) == {i \in NotFolded(t) : t.totalBet[i] >= level}

\* determineWinners, in seat order.
PotWinners(t, level, rank) ==
  {i \in PotEligible(t, level) :
     \A j \in PotEligible(t, level) : rank[i] >= rank[j]}

\* Mutant: every winner's share is rounded up.
RoundedUpPotShare(t, level, rank, i) ==
  LET W == PotWinners(t, level, rank)
  IN  IF i \in W THEN (PotAmount(t, level) + Cardinality(W) - 1) \div Cardinality(W) ELSE 0

\* A winner's part of one pot: the floored share, the remainder to the first.
PotShare(t, level, rank, i) ==
  LET W == PotWinners(t, level, rank)
      share == PotAmount(t, level) \div Cardinality(W)
  IN  IF i \notin W THEN 0
      ELSE IF i = First(W) THEN PotAmount(t, level) - share * (Cardinality(W) - 1)
      ELSE share

Payout(t, rank) ==
  [i \in Seat |->
     Total([l \in OpenLevels(t) |-> PotShare(t, l, rank, i)])]

\* Mutant: the winnings replace the stack.
StackIsWinShowdown(t, rank) ==
  LET win == Payout(t, [i \in Seat |-> IF t.dealt[i] THEN rank[i] ELSE 0])
  IN  [t EXCEPT !.stack = win, !.pot = 0, !.result = ResultOf(t, win),
                !.isFoldWin = FALSE, !.revealed = FALSE, !.stage = "SETTLEMENT"]

PerformShowdown(t, rank) ==
  IF NotFolded(t) = {} THEN [t EXCEPT !.stage = "SETTLEMENT"]
  ELSE LET shown == [i \in Seat |-> IF t.dealt[i] THEN rank[i] ELSE 0]
           win   == Payout(t, shown)
       IN  [t EXCEPT !.stack = [i \in Seat |-> t.stack[i] + win[i]], !.pot = 0,
                     !.result = ResultOf(t, win),
                     !.isFoldWin = FALSE, !.revealed = FALSE,
                     !.stage = "SETTLEMENT"]

----------------------------------------------------------------------------
(* Closing a betting round, passing the turn *)

\* Mutants: players all-in must match too; one player who matched is enough.
AllInMustMatchComplete(t) ==
  \A i \in NotFolded(t) : t.hasActed[i] /\ t.bet[i] = t.currentBet

SomeoneMatchedComplete(t) ==
  \E i \in Live(t) : t.hasActed[i] /\ t.bet[i] = t.currentBet

IsBettingRoundComplete(t) ==
  \A i \in Live(t) : t.hasActed[i] /\ t.bet[i] = t.currentBet

NextStage(stage) ==
  CASE stage = "PREFLOP" -> "FLOP"
    [] stage = "FLOP"    -> "TURN"
    [] stage = "TURN"    -> "RIVER"
    [] OTHER             -> stage

AdvanceStreet(t, rank) ==
  LET closed == [t EXCEPT !.bet = Zero, !.hasActed = False,
                          !.currentBet = 0, !.minBet = BigBlind]
  IN  IF t.stage = "RIVER" THEN PerformShowdown(closed, rank)
      ELSE [closed EXCEPT !.stage = NextStage(t.stage),
                          !.active = NextActiveFrom(t, t.dealer)]

PassTurn(t, rank) ==
  IF IsBettingRoundComplete(t) THEN AdvanceStreet(t, rank)
  ELSE [t EXCEPT !.active = NextActiveFrom(t, t.active)]

\* What follows every fold: the last player left wins, or play goes on.
Resolve(t, rank) ==
  IF Cardinality(NotFolded(t)) = 1
  THEN FoldWin(t, CHOOSE i \in NotFolded(t) : TRUE)
  ELSE PassTurn(t, rank)

\* foldSitOutPlayer, checkAndAutoFoldSittingOut
FoldSitOut(t, rank) ==
  IF IsCurrentPlayerSitOut(t)
  THEN Resolve([t EXCEPT !.status[t.active] = "FOLD",
                         !.hasActed[t.active] = TRUE], rank)
  ELSE t

\* The tail of processAction, after the switch.
Finish(t, rank) ==
  IF Cardinality(NotFolded(t)) = 1 THEN Resolve(t, rank)
  ELSE FoldSitOut(PassTurn(t, rank), rank)

FoldPlayerOnLeave(t, i, rank) ==
  LET folded == [t EXCEPT !.status[i] = "FOLD"]
  IN  IF t.stage \notin ActionStage \/ t.status[i] \in {"FOLD", "ALLIN"} THEN t
      ELSE IF \/ Cardinality(NotFolded(folded)) = 1
              \/ t.active = i
              \/ IsBettingRoundComplete(folded)
           THEN Resolve(folded, rank)
           ELSE folded

----------------------------------------------------------------------------
(* The branches of processAction, for the active seat: Can... is what makes *)
(* it return true, the operator of the same name what it then changes.      *)

Fold(t) == [t EXCEPT !.status[t.active] = "FOLD", !.hasActed[t.active] = TRUE]

CanCheck(t) == t.currentBet <= t.bet[t.active]
Check(t)    == [t EXCEPT !.hasActed[t.active] = TRUE]

\* Mutants: the contribution to the hand is not kept; nobody ever is all-in.
UnrecordedPutIn(t, x) ==
  LET a == t.active
  IN  [t EXCEPT !.stack[a] = @ - x, !.bet[a] = @ + x, !.pot = @ + x, !.hasActed[a] = TRUE,
                !.status[a] = IF t.stack[a] = x THEN "ALLIN" ELSE @]

NeverAllInPutIn(t, x) ==
  LET a == t.active
  IN  [t EXCEPT !.stack[a] = @ - x, !.bet[a] = @ + x, !.totalBet[a] = @ + x,
                !.pot = @ + x, !.hasActed[a] = TRUE]

\* x chips go from the active stack to the pot.
PutIn(t, x) ==
  LET a == t.active
  IN  [t EXCEPT !.stack[a] = @ - x, !.bet[a] = @ + x, !.totalBet[a] = @ + x,
                !.pot = @ + x, !.hasActed[a] = TRUE,
                !.status[a] = IF t.stack[a] = x THEN "ALLIN" ELSE @]

\* Mutant: a call is not capped by the stack.
UncappedCallAmount(t) == t.currentBet - t.bet[t.active]

CallAmount(t) == Least(t.currentBet - t.bet[t.active], t.stack[t.active])
CanCall(t)    == CallAmount(t) > 0
Call(t) ==
  LET a    == t.active
      paid == PutIn(t, CallAmount(t))
  IN  IF t.calledAllIn = NoAllIn /\ paid.status[a] = "ALLIN"
      THEN [paid EXCEPT !.calledAllIn = paid.bet[a]]
      ELSE paid

\* Everyone else who still has chips must act again.
ReopenAction(t) ==
  [t EXCEPT !.hasActed =
     [i \in Seat |-> @[i] /\ ~(i # t.active /\ i \in Live(t))]]

CanRaise(t, amount) ==
  /\ t.calledAllIn = NoAllIn \/ t.bet[t.active] < t.calledAllIn
  /\ amount >= t.currentBet + t.minBet
  /\ Least(amount - t.bet[t.active], t.stack[t.active]) > 0
Raise(t, amount) ==
  LET a    == t.active
      paid == PutIn(t, Least(amount - t.bet[a], t.stack[a]))
  IN  ReopenAction([paid EXCEPT !.minBet = amount - t.currentBet,
                                !.currentBet = paid.bet[a],
                                !.calledAllIn = NoAllIn])

CanAllIn(t) == t.stack[t.active] > 0
AllIn(t) ==
  LET a    == t.active
      paid == PutIn(t, t.stack[a])
  IN  IF paid.bet[a] > t.currentBet
      THEN ReopenAction([paid EXCEPT !.minBet = paid.bet[a] - t.currentBet,
                                     !.currentBet = paid.bet[a],
                                     !.calledAllIn = NoAllIn])
      ELSE [paid EXCEPT !.calledAllIn = IF @ = NoAllIn THEN paid.bet[a] ELSE @]

\* attemptStraddle: it passes the turn itself and never closes the round.
CanStraddle(t) ==
  /\ t.stage = "PREFLOP"
  /\ ~t.straddled
  /\ t.stack[t.active] >= 2 * BigBlind
Straddle(t) ==
  LET a     == t.active
      extra == 2 * BigBlind - t.bet[a]
      paid  == [PutIn(t, extra) EXCEPT !.currentBet = 2 * BigBlind,
                                       !.minBet = BigBlind, !.straddled = TRUE]
  IN  [ReopenAction(paid) EXCEPT !.active = NextActiveFrom(paid, a)]

\* 'sit-out': only in an action stage.
SitOut(t, rank) == FoldSitOut([t EXCEPT !.status[t.active] = "SITOUT"], rank)

----------------------------------------------------------------------------
(* Between hands *)

ResetToWaiting(t) ==
  [t EXCEPT !.dealer = NextSeatedFrom(t, t.dealer),
            !.bet = Zero, !.totalBet = Zero, !.hasActed = False,
            !.ready = False, !.dealt = False,
            !.status = [i \in Seat |->
                          IF t.stack[i] > 0 THEN "ACTIVE" ELSE "SITOUT"],
            !.pot = 0, !.currentBet = 0, !.minBet = BigBlind, !.active = NoSeat,
            !.result = NoResult, !.isFoldWin = FALSE, !.revealed = FALSE,
            !.countdown = FALSE, !.straddled = FALSE, !.calledAllIn = NoAllIn,
            !.stage = "WAITING"]

RevealFoldWinnerCards(t) ==
  IF t.isFoldWin /\ t.stage = "SETTLEMENT" THEN [t EXCEPT !.revealed = TRUE] ELSE t

----------------------------------------------------------------------------
(* Counting the chips of a table *)

InHand(t) == t.stage \in ActionStage

TableChips(t) == Total(t.stack) + t.pot

\* What the seated players have put into this hand.
SeatedBets(t) == Total(t.totalBet)

\* Chips in the pot that nobody seated put there: the players who did have left.
Forfeited(t) == t.pot - SeatedBets(t)

============================================================================
