------------------------------ MODULE Showdown ------------------------------
(***************************************************************************)
(* A showdown from the cards to the chips: determineWinners ranks what the *)
(* players hold (HandEvaluator), then the pots are built and shared out    *)
(* (SidePots).                                                             *)
(***************************************************************************)
EXTENDS SidePots, HandEvaluator

CONSTANTS
  BoardCards, \* bound: the cards the board is dealt from
  HoleCards   \* bound: the cards the players are dealt from, two each

ASSUME CardAssumption ==
  /\ BoardCards \subseteq Card /\ HoleCards \subseteq Card
  /\ BoardCards \cap HoleCards = {}

VARIABLES
  board, \* communityCards
  hole,  \* the cards of each seat
  score  \* determineWinners: results

showdownVars == <<loopVars, board, hole, score>>
cardVars     == <<board, hole, score>>
potVars      == <<river, prevLevel, pots, paid, winAmounts>>

Pairs == {P \in SUBSET HoleCards : Cardinality(P) = 2}

\* bestHandFrom for every seven cards that can be dealt
ScoreOf == [C \in {P \cup B : P \in Pairs, B \in Fives(BoardCards)} |-> BestHandFrom(C)]

NoCards  == [i \in Seat |-> {}]
NoScores == [i \in Seat |-> <<>>]

ShowdownInit ==
  /\ board = {} /\ hole = NoCards /\ score = NoScores
  /\ river = CHOOSE bets \in ShowdownTables : TRUE
  /\ rank = Zero /\ prevLevel = 0 /\ pots = <<>> /\ paid = 0 /\ winAmounts = Zero
  /\ phase = "deal"

\* Any cards may have been dealt.
Deal ==
  /\ phase = "deal" /\ board = {}
  /\ board' \in Fives(BoardCards)
  /\ hole' \in {f \in [Seat -> Pairs] : \A i, j \in Seat : i # j => f[i] \cap f[j] = {}}
  /\ UNCHANGED <<potVars, rank, phase, score>>

\* determineWinners scores the players ...
ScoreHands ==
  /\ phase = "deal" /\ board # {}
  /\ score' = [i \in Seat |-> ScoreOf[hole[i] \cup board]]
  /\ phase' = "score"
  /\ UNCHANGED <<potVars, rank, board, hole>>

\* ... and picks the best of any of them: only their order counts.
DetermineWinners ==
  /\ phase = "score"
  /\ rank' = [i \in Seat |-> Cardinality({score[j] : j \in {k \in Seat : Beats(score[i], score[k])}})]
  /\ phase' = "ranked"
  /\ board' = {} /\ hole' = NoCards /\ score' = NoScores
  /\ UNCHANGED potVars

\* Any bets may have led to the showdown.
Showdown ==
  /\ phase = "ranked"
  /\ river' \in ShowdownTables
  /\ phase' = "build"
  /\ UNCHANGED <<rank, prevLevel, pots, paid, winAmounts, cardVars>>

ShowdownNext ==
  \/ Deal \/ ScoreHands \/ DetermineWinners \/ Showdown
  \/ LoopNext /\ UNCHANGED cardVars

ShowdownSpec == ShowdownInit /\ [][ShowdownNext]_showdownVars
-----------------------------------------------------------------------------
\* The best five of a player's seven cards are worth what the rules say of all seven, so
\* kickers, ace-low straights, a second set of three or a third pair mislead nobody.
HandsAreBest ==
  phase = "score" => \A i \in Seat : score[i] = Direct(hole[i] \cup board)
=============================================================================
