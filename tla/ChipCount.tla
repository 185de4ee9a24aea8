----------------------------- MODULE ChipCount -----------------------------
(***************************************************************************)
(* Sums of chips as numbers of chips.  A heap f gives each owner i a       *)
(* number f[i] of chips; chip k of owner i is the pair <<i, k>>, and the   *)
(* sum of the amounts is the number of the pairs.  Written so, with no     *)
(* recursion, a sum can be reasoned about for any number of owners.        *)
(***************************************************************************)
EXTENDS Integers, FiniteSets

Chips(f) == UNION {{i} \X (1 .. f[i]) : i \in DOMAIN f}
Total(f) == Cardinality(Chips(f))

\* The least and the greatest number of a set.
First(S) == CHOOSE i \in S : \A j \in S : i <= j
Last(S)  == CHOOSE i \in S : \A j \in S : i >= j

Least(a, b) == IF a < b THEN a ELSE b
=============================================================================
