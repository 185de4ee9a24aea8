---------------------------- MODULE HandEvaluator ----------------------------
(***************************************************************************)
(* hand-evaluator.ts: the worth of five cards, and the best five of those  *)
(* a player has at the showdown.  A score is <<rank>> and the values that  *)
(* break ties, high to low; the longer of two equal scores never occurs.   *)
(*                                                                         *)
(* Direct is the reference: it reads the hand off all the cards at once,   *)
(* by the rules of TEXAS_HOLDEM_RULES.md, and looks at no five of them.    *)
(***************************************************************************)
EXTENDS Naturals, Sequences, FiniteSets

Ace == 14

\* RANK_VALUES, parseRank, parseSuit
Card == [rank : 2..Ace, suit : {"S", "H", "D", "C"}]

Ranks(C)    == {c.rank : c \in C}
Suits(C)    == {c.suit : c \in C}
Count(C, r) == Cardinality({c \in C : c.rank = r})
Top(R)      == CHOOSE r \in R : \A q \in R : q <= r

\* A set in an order, the set of pairs "before": rankCount.entries().sort(...)
Sorted(S, before) ==
  [i \in 1..Cardinality(S) |->
     CHOOSE x \in S : Cardinality({y \in S : <<y, x>> \in before}) = i - 1]

\* compareScores
Beats(a, b) ==
  LET At(v, i) == IF i <= Len(v) THEN v[i] ELSE 0
  IN  \E i \in 1..Len(a) : /\ At(a, i) > At(b, i)
                           /\ \A j \in 1..(i - 1) : At(a, j) = At(b, j)

\* Mutant: no ace-low straight.
NoWheel(C) ==
  LET R == Ranks(C)
  IN  IF Cardinality(R) = 5 /\ \A q \in R : Top(R) - q <= 4 THEN Top(R) ELSE 0

\* straightHigh, 0 if the five cards are no straight; the ace is low in A-2-3-4-5.
StraightHigh(C) ==
  LET R == Ranks(C)
  IN  IF Cardinality(R) = 5 /\ \A q \in R : Top(R) - q <= 4 THEN Top(R)
      ELSE IF R = {Ace, 2, 3, 4, 5} THEN 5
      ELSE 0

\* evaluate5: the groups of one rank, the bigger first and then the higher, are the
\* values of every hand but a straight.
Evaluate5(C) ==
  LET count    == [r \in Ranks(C) |-> Count(C, r)]
      before   == {p \in Ranks(C) \X Ranks(C) :
                     \/ count[p[1]] > count[p[2]]
                     \/ count[p[1]] = count[p[2]] /\ p[1] > p[2]}
      groups   == Sorted(Ranks(C), before)
      counts   == [i \in 1..Len(groups) |-> count[groups[i]]]
      straight == StraightHigh(C)
      flush    == Cardinality(Suits(C)) = 1
  IN  CASE flush /\ straight = Ace              -> <<10, straight>>
        [] flush /\ straight \in 1..(Ace - 1)   -> <<9, straight>>
        [] counts[1] = 4                        -> <<8>> \o groups
        [] counts[1] = 3 /\ counts[2] = 2       -> <<7>> \o groups
        [] flush /\ straight = 0                -> <<6>> \o groups
        [] ~flush /\ straight # 0               -> <<5, straight>>
        [] counts[1] = 3 /\ counts[2] = 1       -> <<4>> \o groups
        [] counts[1] = 2 /\ counts[2] = 2       -> <<3>> \o groups
        [] counts[1] = 2 /\ counts[2] = 1       -> <<2>> \o groups
        [] ~flush /\ straight = 0 /\ counts[1] = 1 -> <<1>> \o groups

\* combinations
Fives(C) == {F \in SUBSET C : Cardinality(F) = 5}

\* bestHandFrom, with five community cards
BestHandFrom(C) ==
  LET scores == {Evaluate5(F) : F \in Fives(C)}
  IN  CHOOSE s \in scores : \A o \in scores : ~Beats(o, s)

-----------------------------------------------------------------------------
(* The reference *)

InSuit(C, s) == {c \in C : c.suit = s}

\* The highest r that ends five ranks in a row; an ace also counts as one.
StraightTop(R) ==
  LET low  == IF Ace \in R THEN R \cup {1} ELSE R
      tops == {r \in 5..Ace : (r - 4)..r \subseteq low}
  IN  IF tops = {} THEN 0 ELSE Top(tops)

\* The n highest of R.
Highest(n, R) == SubSeq(Sorted(R, {p \in R \X R : p[1] > p[2]}), 1, n)

Direct(C) ==
  LET R         == Ranks(C)
      AtLeast(n) == {r \in R : Count(C, r) >= n}
      flushes   == {s \in Suits(C) : Cardinality(InSuit(C, s)) >= 5}
      colour    == IF flushes = {} THEN {} ELSE Ranks(InSuit(C, CHOOSE s \in flushes : TRUE))
      trips     == AtLeast(3)
      pairs     == AtLeast(2)
  IN  IF colour # {} /\ StraightTop(colour) = Ace THEN <<10, Ace>>
      ELSE IF colour # {} /\ StraightTop(colour) # 0 THEN <<9, StraightTop(colour)>>
      ELSE IF AtLeast(4) # {} THEN <<8, Top(AtLeast(4)), Top(R \ {Top(AtLeast(4))})>>
      ELSE IF trips # {} /\ pairs # {Top(trips)}
           THEN <<7, Top(trips), Top(pairs \ {Top(trips)})>>
      ELSE IF colour # {} THEN <<6>> \o Highest(5, colour)
      ELSE IF StraightTop(R) # 0 THEN <<5, StraightTop(R)>>
      ELSE IF trips # {} THEN <<4, Top(trips)>> \o Highest(2, R \ trips)
      ELSE IF Cardinality(pairs) >= 2
           THEN LET two == Highest(2, pairs)
                IN  <<3>> \o two \o Highest(1, R \ {two[1], two[2]})
      ELSE IF pairs # {} THEN <<2, Top(pairs)>> \o Highest(3, R \ pairs)
      ELSE <<1>> \o Highest(5, R)
=============================================================================
