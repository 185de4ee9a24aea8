------------------------------ MODULE SidePots ------------------------------
(***************************************************************************)
(* The two loops of the showdown (performShowdown and buildPots of         *)
(* table.ts), one action per iteration: the first walks up the levels of   *)
(* the contributions and builds the main pot and the side pots, the second *)
(* shares the pots out.  TableEngine gives the result in one expression    *)
(* (Payout); here is shown that the loops compute it, and what the players *)
(* may expect of it.                                                       *)
(*                                                                         *)
(* They run on any table a showdown can find: any contributions, anyone    *)
(* folded as long as somebody has not.  Showdown deals the cards first.    *)
(***************************************************************************)
EXTENDS TableEngine, Sequences

CONSTANT Contribution  \* bound: what a player may have put into the hand

ASSUME ContributionAssumption == Contribution \subseteq Nat /\ Contribution # {}

\* Everybody at a full table is somebody else.
ASSUME SeatingAssumption ==
  \E f \in [Seat -> Player] : \A i, j \in Seat : i # j => f[i] # f[j]

VARIABLES
  river,      \* the table at the showdown
  rank,       \* how good the hand of each seat is
  prevLevel,  \* buildPots: the level the pots built so far reach
  pots,       \* buildPots: the pots, [amount, eligible]
  paid,       \* performShowdown: how many of the pots have been shared out
  winAmounts, \* performShowdown
  phase       \* which of the two loops runs: "build" or "pay", then "done"

loopVars == <<river, rank, prevLevel, pots, paid, winAmounts, phase>>

\* The tables a showdown finds, as far as it reads them. (Who sits where does not
\* matter: any one seating does.)
Seating == CHOOSE f \in [Seat -> Player] : \A i, j \in Seat : i # j => f[i] # f[j]

RiverTable(put, status) ==
  [NewTable EXCEPT !.id = Seating, !.totalBet = put, !.status = status, !.stage = "RIVER"]

Contested == {s \in [Seat -> {"ALLIN", "FOLD"}] : \E i \in Seat : s[i] # "FOLD"}

ShowdownTables ==
  {RiverTable(put, status) : put \in [Seat -> Contribution], status \in Contested}

----------------------------------------------------------------------------
(* buildPots *)

LevelsAbove(level) == {river.totalBet[i] : i \in Occupied(river)} \ (0 .. level)

AtLevel(level) == {i \in Occupied(river) : river.totalBet[i] >= level}

\* Mutants: whoever reached the level may win it, folded or not; a level only
\* players who folded have reached is dropped.
FoldersMayWin(level, amount) ==
  Append(pots, [amount |-> amount, eligible |-> AtLevel(level)])

DeadMoneyDropped(level, amount) ==
  LET eligible == AtLevel(level) \ {i \in Seat : river.status[i] = "FOLD"}
  IN  IF eligible # {} THEN Append(pots, [amount |-> amount, eligible |-> eligible]) ELSE pots

\* A level nobody who is still in has reached goes to the pot below it.
AddPot(level, amount) ==
  LET eligible == {i \in AtLevel(level) : river.status[i] # "FOLD"}
  IN  IF eligible # {} THEN Append(pots, [amount |-> amount, eligible |-> eligible])
      ELSE IF pots # <<>> THEN [pots EXCEPT ![Len(pots)].amount = @ + amount]
      ELSE pots

BuildPot ==
  /\ phase = "build"
  /\ LevelsAbove(prevLevel) # {}
  /\ LET level == First(LevelsAbove(prevLevel))
     IN  /\ pots' = AddPot(level, (level - prevLevel) * Cardinality(AtLevel(level)))
         /\ prevLevel' = level
  /\ UNCHANGED <<river, rank, paid, winAmounts, phase>>

EndBuild ==
  /\ phase = "build"
  /\ LevelsAbove(prevLevel) = {}
  /\ phase' = "pay"
  /\ UNCHANGED <<river, rank, prevLevel, pots, paid, winAmounts>>

----------------------------------------------------------------------------
(* The distribution *)

Winners(eligible) == {i \in eligible : \A j \in eligible : rank[i] >= rank[j]}

\* Mutants: the odd chips are lost; every pot goes to the best hand at the table.
OddChipsLost(pot) ==
  LET W == Winners(pot.eligible)
  IN  [i \in Seat |-> IF i \in W THEN pot.amount \div Cardinality(W) ELSE 0]

BestHandTakesAll(pot) ==
  LET best == First(Winners(NotFolded(river)))
  IN  [i \in Seat |-> IF i = best THEN pot.amount ELSE 0]

\* What each seat gets of one pot.
Share(pot) ==
  LET W         == Winners(pot.eligible)
      share     == pot.amount \div Cardinality(W)
      remainder == pot.amount - share * Cardinality(W)
  IN  [i \in Seat |-> IF i \notin W THEN 0
                      ELSE IF i = First(W) THEN share + remainder ELSE share]

PayPot ==
  /\ phase = "pay"
  /\ paid < Len(pots)
  /\ winAmounts' = [i \in Seat |-> winAmounts[i] + Share(pots[paid + 1])[i]]
  /\ paid' = paid + 1
  /\ UNCHANGED <<river, rank, prevLevel, pots, phase>>

CreditStacks ==
  /\ phase = "pay"
  /\ paid = Len(pots)
  /\ phase' = "done"
  /\ river' = [river EXCEPT !.stack = [i \in Seat |-> @[i] + winAmounts[i]]]
  /\ UNCHANGED <<rank, prevLevel, pots, paid, winAmounts>>

LoopNext == BuildPot \/ EndBuild \/ PayPot \/ CreditStacks

----------------------------------------------------------------------------
(* What should be true of it *)

PotTotal == Total([k \in 1 .. Len(pots) |-> pots[k].amount])

\* What i has matched of j's contribution.
Matched(i, j) == Least(river.totalBet[i], river.totalBet[j])

\* At every iteration the pots hold, of everyone's contribution, the part up to
\* the level reached: none is counted twice and, as long as anyone who is in has
\* put in a chip, none is left out.
PotsHoldLevels ==
  OpenLevels(river) # {} =>
    PotTotal = Total([i \in Seat |-> Least(river.totalBet[i], prevLevel)])

\* The best hands among those who have reached the level of a pot share it evenly ...
EvenShare(level, i) ==
  LET W == PotWinners(river, level, rank)
  IN  IF i \in W THEN PotAmount(river, level) \div Cardinality(W) ELSE 0

\* ... and one of them gets the odd chips. The exception to the rule book, by which he is
\* the first after the button (TEXAS_HOLDEM_RULES.md:116): in the code he is the one in
\* the lowest seat, wherever the button is.
OddChips(level, i) ==
  LET W == PotWinners(river, level, rank)
  IN  IF i \in W /\ i = First(W)
      THEN PotAmount(river, level) - Cardinality(W) * (PotAmount(river, level) \div Cardinality(W))
      ELSE 0

\* The loops give what TableEngine says of a showdown (Payout), and that is an even
\* share of every pot for each of its winners, but for its odd chips.
PaysPayout ==
  phase = "done" =>
    /\ winAmounts = Payout(river, rank)
    /\ \A i \in Seat :
         winAmounts[i] = Total([l \in OpenLevels(river) |-> EvenShare(l, i) + OddChips(l, i)])

\* The best hand of those still in is worth all it has matched, whoever else is
\* all-in for more or less.
BestHandIsPaid ==
  phase = "done" => \A i \in NotFolded(river) :
    (\A j \in NotFolded(river) \ {i} : rank[i] > rank[j]) =>
      winAmounts[i] >= Total([j \in Seat |-> Matched(i, j)])

\* Nobody wins more of a player's chips than he has matched, except the chips
\* above every bet still in, which players put in before they folded.
NobodyWinsUnmatched ==
  phase = "done" => \A i \in NotFolded(river) :
    LET top  == Last({river.totalBet[j] : j \in NotFolded(river)})
        dead == Total([j \in Seat |-> IF river.totalBet[j] > top THEN river.totalBet[j] - top ELSE 0])
    IN  winAmounts[i] <= dead + Total([j \in Seat |-> Matched(i, j)])
=============================================================================
