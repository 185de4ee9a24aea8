----------------------------- MODULE PokerTable -----------------------------
(***************************************************************************)
(* One table as its players and its timers drive it: the gateway handlers  *)
(* of apps/backend/src/websocket/app.gateway.ts, each reduced to what it   *)
(* does to the Table between two awaits (Node runs that part without       *)
(* interruption), and the chips that cross between wallet and table when a *)
(* player sits down or leaves.                                             *)
(*                                                                         *)
(* Client actions are accepted whatever the stage: processAction only asks *)
(* whether the sender holds the turn.                                      *)
(***************************************************************************)
EXTENDS TableEngine

CONSTANTS
  MinBuyIn,    \* Table.minBuyIn
  Bankroll,    \* chips a player may own before he first sits down
  RaiseTo,     \* amounts a client may send with 'raise'
  JoinStage,   \* bound: the stages in which someone sits down
  MaxLateBet   \* bound: after the settlement a player may go on betting
               \* while he has put in less than this

ASSUME StakesAssumption ==
  /\ MinBuyIn \in Nat \ {0} /\ Bankroll \subseteq Nat /\ RaiseTo \subseteq Nat
  /\ JoinStage \subseteq Stage /\ MaxLateBet \in Nat

VARIABLES
  table,   \* the Table instance of the room
  wallet   \* available chips of each player, off the table

vars == <<table, wallet>>

TypeOK ==
  /\ table \in Table
  /\ wallet \in [Player -> Nat]

Init ==
  /\ table = NewTable
  /\ wallet \in [Player -> Bankroll]

\* The ranks the deal can give. They matter only at the showdown, which only
\* a step from the river reaches, and only to those who have not folded.
Deals ==
  IF table.stage = "RIVER"
  THEN {r \in [Seat -> Rank] : \A i \in Seat \ NotFolded(table) : r[i] = 0}
  ELSE {Zero}

----------------------------------------------------------------------------
(* Room events *)

\* Mutant: the balance is not frozen.
UnfrozenJoinRoom(p) ==
  LET free == Seat \ Occupied(table)
  IN  /\ ~HasPlayer(table, p)
      /\ wallet[p] >= MinBuyIn
      /\ free # {}
      /\ table.stage \in JoinStage
      /\ table' = AddPlayer(table, First(free), p, wallet[p])
      /\ UNCHANGED wallet

\* handleJoinRoom: the whole available balance becomes the stack.
JoinRoom(p) ==
  LET free == Seat \ Occupied(table)
  IN  /\ ~HasPlayer(table, p)
      /\ wallet[p] >= MinBuyIn
      /\ free # {}
      /\ table.stage \in JoinStage
      /\ table' = AddPlayer(table, First(free), p, wallet[p])
      /\ wallet' = [wallet EXCEPT ![p] = 0]

\* leaveCurrentRoom, for leave_room and for the end of the disconnect grace
\* period. An empty room is dissolved: the next one starts from a new table.
LeaveRoom(p) ==
  LET i == SeatOf(table, p)
  IN  /\ HasPlayer(table, p)
      /\ \E rank \in Deals :
           LET folded == FoldPlayerOnLeave(table, i, rank)
           IN  /\ wallet' = [wallet EXCEPT ![p] = folded.stack[i]]
               /\ table' = IF Occupied(table) = {i} THEN NewTable
                           ELSE RemovePlayer(folded, i)

\* handlePlayerReady
PlayerReady(p) ==
  LET i == SeatOf(table, p)
      toggled == [table EXCEPT !.ready[i] = ~@]
  IN  /\ table.stage = "WAITING"
      /\ HasPlayer(table, p)
      /\ i \in Playable(table)
      /\ table' = IF table.countdown THEN toggled
                  ELSE IF AreAllSeatedPlayersReady(toggled) THEN StartHand(toggled)
                  ELSE IF Playable(toggled) = {i} /\ toggled.ready[i]
                       THEN BeginReadyCountdown(toggled)
                  ELSE toggled
      /\ UNCHANGED wallet

\* finalizeReadyCountdown
ReadyCountdownExpires ==
  /\ table.stage = "WAITING"
  /\ table.countdown
  /\ table' = StartHandIfReady([table EXCEPT !.countdown = FALSE])
  /\ UNCHANGED wallet

\* finalizeSettlement
SettlementExpires ==
  /\ table.stage = "SETTLEMENT"
  /\ table' = BeginReadyCountdown(ResetToWaiting(table))
  /\ UNCHANGED wallet

\* handleShowCards
ShowCards(p) ==
  /\ table.stage = "SETTLEMENT"
  /\ table.isFoldWin
  /\ table.result[p] > 0
  /\ table' = RevealFoldWinnerCards(table)
  /\ UNCHANGED wallet

----------------------------------------------------------------------------
(* Playing the hand *)

\* The player's move m, then the tail of processAction.
Play(m) ==
  /\ \E rank \in Deals : table' = Finish(m, rank)
  /\ UNCHANGED wallet

\* Nothing in the code ends the betting after a settlement: the bound does.
MayBet(p) ==
  /\ TurnOf(table, p)
  /\ table.stage = "SETTLEMENT" => table.totalBet[table.active] < MaxLateBet

PlayerFold(p)  == TurnOf(table, p) /\ Play(Fold(table))
PlayerCheck(p) == TurnOf(table, p) /\ CanCheck(table) /\ Play(Check(table))
PlayerCall(p)  == MayBet(p) /\ CanCall(table) /\ Play(Call(table))
PlayerAllIn(p) == MayBet(p) /\ CanAllIn(table) /\ Play(AllIn(table))

PlayerRaise(p) ==
  \E amount \in RaiseTo :
    MayBet(p) /\ CanRaise(table, amount) /\ Play(Raise(table, amount))

PlayerStraddle(p) ==
  /\ TurnOf(table, p)
  /\ CanStraddle(table)
  /\ table' = Straddle(table)
  /\ UNCHANGED wallet

PlayerSitOut(p) ==
  /\ table.stage \in ActionStage
  /\ TurnOf(table, p)
  /\ \E rank \in Deals : table' = SitOut(table, rank)
  /\ UNCHANGED wallet

\* getTimeoutAction: a player who is neither ACTIVE nor sitting out has none.
TimeoutDue ==
  /\ table.stage \in ActionStage
  /\ table.active \in Occupied(table)
  /\ table.status[table.active] \in {"ACTIVE", "SITOUT"}

\* Check if that is legal, fold otherwise; a player sitting out is folded.
TimedOut(rank) ==
  IF IsCurrentPlayerSitOut(table) THEN FoldSitOut(table, rank)
  ELSE Finish(IF CanCheck(table) THEN Check(table) ELSE Fold(table), rank)

\* finalizeActionTimeout
ActionTimeout ==
  /\ TimeoutDue
  /\ \E rank \in Deals : table' = TimedOut(rank)
  /\ UNCHANGED wallet

PlayerActs(p) ==
  \/ PlayerFold(p) \/ PlayerCheck(p) \/ PlayerCall(p) \/ PlayerAllIn(p)
  \/ PlayerRaise(p) \/ PlayerStraddle(p) \/ PlayerSitOut(p)

Timers == ReadyCountdownExpires \/ SettlementExpires \/ ActionTimeout

Next ==
  \/ \E p \in Player : \/ JoinRoom(p) \/ LeaveRoom(p) \/ PlayerReady(p)
                       \/ ShowCards(p) \/ PlayerActs(p)
  \/ Timers

Spec == Init /\ [][Next]_vars

\* The gateway arms a timer whenever it leaves a table in a stage that has
\* one, and the timer fires: no timer's handler stays enabled for ever.
FairSpec ==
  /\ Spec
  /\ WF_vars(ReadyCountdownExpires)
  /\ WF_vars(SettlementExpires)
  /\ WF_vars(ActionTimeout)

----------------------------------------------------------------------------
(* What should be true of it *)

ChipTotal == TableChips(table) + Total(wallet)

\* Where the chips are: the steps that leave this alone need no accounting.
chips == <<table.stack, table.pot, wallet>>

\* No sequence of calls mints chips: not a straddle posted over a raise, not
\* an action that arrives after the settlement, not a showdown after players
\* have left in the middle of the hand.
NoChipsCreated == [][ChipTotal' <= ChipTotal]_chips

\* During a hand chips only move: betting, posting blinds, sitting down and
\* leaving all keep the total.
ChipsConservedInHand ==
  [][InHand(table') => ChipTotal' = ChipTotal]_chips

\* A hand that everyone else folded costs its players the rake, capped.
RakedFoldWin == table'.isFoldWin /\ ChipTotal - ChipTotal' <= RakeCap

\* The exception to 'Rake: deduct before distribution' (table.ts:1048): the rake is taken
\* off the pot and off nobody's contribution, of which the pots are built. So it costs the
\* players nothing: all that is lost is what those who have left had put in.
UnrakedShowdown == ChipTotal - ChipTotal' = Forfeited(table)

\* Ending a hand costs the players at most the capped rake when everyone else folded. A
\* showdown that pays anyone is not raked, against the comment in the code, and costs
\* exactly what the players who left had put in.
SettlementLoss ==
  [][InHand(table) /\ table'.stage = "SETTLEMENT" =>
       RakedFoldWin \/ UnrakedShowdown \/ \A p \in Player : table'.result[p] <= 0]_vars

\* Someone still betting is above the current bet: a raise that his stack cut
\* short, or a straddle, has lowered it.
Overbet == \E i \in Live(table) : table.bet[i] > table.currentBet

\* Players still betting who must act or match the bet.
Owing(t) == {i \in Live(t) : ~(t.hasActed[i] /\ t.bet[i] = t.currentBet)}

\* What the betting round still waits for: those, and the players sitting out
\* whose fold is due.
Pending(t) == Owing(t) \cup {i \in Occupied(t) : t.status[i] = "SITOUT"}

Later(s, u) ==
  \/ s = "PREFLOP" /\ u \in {"FLOP", "TURN", "RIVER"}
  \/ s = "FLOP" /\ u \in {"TURN", "RIVER"}
  \/ s = "TURN" /\ u = "RIVER"

\* How far the turn is from the next of them still betting: a player who leaves
\* can pass it to somebody who has acted already.
Detour(t) ==
  IF t.active \in Pending(t) \/ Owing(t) = {} THEN 0
  ELSE Ahead(t.active, NextIn(Owing(t), t.active))

\* The hand u is nearer to its end than t: it has ended, its street has, fewer
\* players are waited for, or the turn is closer to one of them.
Nearer(t, u) ==
  LET before == Cardinality(Pending(t))
      after  == Cardinality(Pending(u))
  IN  \/ ~InHand(u)
      \/ Later(t.stage, u.stage)
      \/ after < before
      \/ after = before /\ Detour(u) < Detour(t)

\* No timeout leaves a hand where it was. So timeouts alone bring every hand to
\* its settlement, unless the turn gets to somebody who has no timeout action (it
\* does: HandEnds in PokerTableClaims) or the current bet has been lowered below
\* what someone has bet.
TimeoutsProgress ==
  TimeoutDue /\ ~Overbet => \A rank \in Deals : Nearer(table, TimedOut(rank))

\* The pot covers the contributions the showdown will split it by.
PotCoversBets ==
  InHand(table) => /\ table.pot >= SeatedBets(table)
                   /\ \A i \in Seat : table.bet[i] <= table.totalBet[i]

\* A player still betting has chips behind; one who is all-in has none.
AllInMeansNoChips ==
  InHand(table) => \A i \in Occupied(table) :
     /\ table.status[i] = "ACTIVE" => table.stack[i] > 0
     /\ table.status[i] = "ALLIN"  => table.stack[i] = 0

\* Two players who are still betting have put the same amount into the closed
\* streets: no street is closed while one of them owes a call.
StreetsSettled ==
  InHand(table) => \A i, j \in Live(table) :
     table.dealt[i] /\ table.dealt[j] =>
       table.totalBet[i] - table.bet[i] = table.totalBet[j] - table.bet[j]

\* A seated player's stack shrinks only when he acts in his own turn or posts
\* a blind of a new hand.
OnlyActorPays ==
  [][\A i \in Seat :
       /\ table.id[i] # Nobody /\ table'.id[i] = table.id[i]
       /\ table'.stack[i] < table.stack[i]
       => table.active = i \/ table.stage = "WAITING"]_chips
=============================================================================
