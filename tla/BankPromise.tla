----------------------------- MODULE BankPromise -----------------------------
(***************************************************************************)
(* What the wallet promises: what a user owns, in chips, in USDT or in     *)
(* requested withdrawals, changes only by a deposit, which counts once, or *)
(* by the administrator.  The promise may become void.                     *)
(***************************************************************************)
EXTENDS Integers

CONSTANTS User, Transfer

VARIABLES assets, given, credited, void  \* given: by the administrator

vars == <<assets, given, credited, void>>

TypeOK ==
  /\ assets \in [User -> Int]
  /\ given \in [User -> Nat]
  /\ credited \subseteq Transfer
  /\ void \in BOOLEAN

Init ==
  /\ assets \in [User -> Nat]
  /\ given = [u \in User |-> 0]
  /\ credited = {}
  /\ void = FALSE

Credit(u, t) ==
  /\ t \notin credited /\ credited' = credited \cup {t}
  /\ assets' = [assets EXCEPT ![u] = @ + 1]
  /\ UNCHANGED <<given, void>>

Adjust(u) ==
  /\ given' = [given EXCEPT ![u] = @ + 1]
  /\ assets' = [assets EXCEPT ![u] = @ + 1]
  /\ UNCHANGED <<credited, void>>

Void ==
  /\ void' = TRUE
  /\ assets' = [u \in User |-> 0]
  /\ given' = assets'
  /\ credited' = {}

Next == Void \/ \E u \in User : Adjust(u) \/ \E t \in Transfer : Credit(u, t)

Spec == Init /\ [][Next]_vars
=============================================================================
