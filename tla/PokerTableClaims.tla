-------------------------- MODULE PokerTableClaims --------------------------
(***************************************************************************)
(* What the repository's rule book says a table does, stated of            *)
(* PokerTable.  It is refuted: the run that checks it shows where table.ts *)
(* does something else.                                                    *)
(***************************************************************************)
EXTENDS PokerTable

\* TEXAS_HOLDEM_RULES.md:120-123: a hand ends, with the others folding or with
\* the showdown. Given that every timer fires, no hand that two players stay at
\* the table for remains open for ever.
HandEnds == InHand(table) ~> ~InHand(table) \/ Cardinality(Occupied(table)) < 2
=============================================================================
