--------------------------- MODULE WithdrawPromise ---------------------------
(***************************************************************************)
(* What a withdrawal promises the user: the chips leave his account when   *)
(* the request is opened, and then it is either paid on the chain, once,   *)
(* or refunded, once and in full, whatever else the account is used for in *)
(* between.  A request may become void: the promise then says nothing more *)
(* of it, nor of its owner's account.                                      *)
(***************************************************************************)
EXTENDS Naturals

CONSTANTS
  User, Request,
  Owner,    \* the user who makes each request
  Unknown   \* the account of a user one of whose requests is void

VARIABLES account, outcome, amount

vars == <<account, outcome, amount>>

Account == Nat \cup {Unknown}
Outcome == {"none", "open", "paid", "refunded", "void"}

TypeOK ==
  /\ account \in [User -> Account]
  /\ outcome \in [Request -> Outcome]
  /\ amount \in [Request -> Nat]

Init ==
  /\ account \in [User -> Nat]
  /\ outcome = [r \in Request |-> "none"]
  /\ amount = [r \in Request |-> 0]

Plus(a, b)  == IF a = Unknown THEN Unknown ELSE a + b
Minus(a, b) == IF a = Unknown THEN Unknown ELSE a - b

Open(r) ==
  LET u == Owner[r]
  IN  /\ outcome[r] = "none"
      /\ outcome' = [outcome EXCEPT ![r] = "open"]
      /\ amount' = [amount EXCEPT ![r] = amount'[r]]
      /\ amount'[r] > 0
      /\ account[u] # Unknown => amount'[r] <= account[u]
      /\ account' = [account EXCEPT ![u] = Minus(@, amount'[r])]

Pay(r) ==
  /\ outcome[r] = "open"
  /\ outcome' = [outcome EXCEPT ![r] = "paid"]
  /\ UNCHANGED <<account, amount>>

Refund(r) ==
  /\ outcome[r] = "open"
  /\ outcome' = [outcome EXCEPT ![r] = "refunded"]
  /\ account' = [account EXCEPT ![Owner[r]] = Plus(@, amount[r])]
  /\ UNCHANGED amount

Change(u) ==
  /\ account[u] # Unknown
  /\ account' = [account EXCEPT ![u] = account'[u]]
  /\ account'[u] \in Nat
  /\ UNCHANGED <<outcome, amount>>

Void(R) ==
  /\ R # {}
  /\ outcome' = [r \in Request |-> IF r \in R THEN "void" ELSE outcome[r]]
  /\ amount'  = [r \in Request |-> IF r \in R THEN 0 ELSE amount[r]]
  /\ account' = [u \in User |-> IF \E r \in R : Owner[r] = u THEN Unknown ELSE account[u]]

Next ==
  \/ \E r \in Request : Open(r) \/ Pay(r) \/ Refund(r)
  \/ \E u \in User : Change(u)
  \/ \E R \in SUBSET Request : Void(R)

Spec == Init /\ [][Next]_vars
=============================================================================
