----------------------------- MODULE SeatPromise -----------------------------
(***************************************************************************)
(* What a seat promises a player: he is at one table at most, his chips    *)
(* are his whether he carries them or plays with them, only the players of *)
(* his table can win them, and they can be spent or added to only while he *)
(* sits nowhere.  The promise may become void: then it says nothing more.  *)
(***************************************************************************)
EXTENDS Naturals

CONSTANTS User, Room, Nowhere

VARIABLES seat, worth, trades, void  \* trades: how often chips were bought or spent

vars == <<seat, worth, trades, void>>

TypeOK ==
  /\ seat \in [User -> Room \cup {Nowhere}]
  /\ worth \in [User -> Nat]
  /\ trades \in Nat
  /\ void \in BOOLEAN

Init ==
  /\ seat = [u \in User |-> Nowhere]
  /\ worth \in [User -> Nat]
  /\ trades \in Nat
  /\ void = FALSE

SitDown(u, r) ==
  /\ seat[u] = Nowhere
  /\ seat' = [seat EXCEPT ![u] = r]
  /\ UNCHANGED <<worth, trades, void>>

StandUp(u) ==
  /\ seat[u] # Nowhere
  /\ seat' = [seat EXCEPT ![u] = Nowhere]
  /\ UNCHANGED <<worth, trades, void>>

Win(u, v) ==
  /\ u # v /\ seat[u] = seat[v] /\ seat[u] # Nowhere
  /\ worth' = [worth EXCEPT ![u] = worth'[u], ![v] = worth'[v]]
  /\ worth'[u] > worth[u] /\ worth'[u] + worth'[v] = worth[u] + worth[v]
  /\ UNCHANGED <<seat, trades, void>>

\* Chips are bought or spent.
Trade(u) ==
  /\ seat[u] = Nowhere
  /\ worth' = [worth EXCEPT ![u] = worth'[u]]
  /\ worth'[u] \in Nat /\ trades' = trades + 1
  /\ UNCHANGED <<seat, void>>

Void ==
  /\ void' = TRUE
  /\ seat' = [u \in User |-> Nowhere]
  /\ worth' = [u \in User |-> 0]
  /\ trades' = 0

\* Chips do not change hands while somebody comes or goes.
Next ==
  \/ seat' # seat /\ \E u \in User : StandUp(u) \/ \E r \in Room : SitDown(u, r)
  \/ worth' # worth /\ (\E u \in User : Trade(u) \/ \E v \in User : Win(u, v))
  \/ Void

Spec == Init /\ [][Next]_vars
=============================================================================
