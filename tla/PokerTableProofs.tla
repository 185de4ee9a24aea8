-------------------------- MODULE PokerTableProofs --------------------------
(***************************************************************************)
(* The safety invariants of PokerTable, for any number of players and      *)
(* seats, any blinds, stakes, amounts to raise to and ranks of hands; then *)
(* the properties of RoomPage, for any amounts to raise to and any bounds. *)
(*                                                                         *)
(* TypeOK is not inductive: a straddle takes 2 * BigBlind - bet chips from *)
(* the stack to the pot, which is negative over a bigger bet, and only     *)
(* because the pot covers the bets does the pot stay a natural number.     *)
(* IInv adds what that rests on (Sound, of TableEngineProofs).             *)
(***************************************************************************)
EXTENDS RoomPage, TableEngineProofs, SequenceTheorems

IInv == Sound(table) /\ wallet \in [Player -> Nat]

\* A new table is sound and the players' bankrolls are natural numbers.
LEMMA InitIInv == Init => IInv
BY NewTableSound, StakesAssumption DEF Init, IInv

\* A move that is sound stays so through the tail of processAction.
LEMMA PlaySound ==
  ASSUME NEW m, Sound(m), Play(m), wallet \in [Player -> Nat]
  PROVE  IInv'
BY FinishSound DEF Play, IInv

LEMMA JoinRoomIInv ==
  ASSUME IInv, NEW p \in Player, JoinRoom(p)
  PROVE  IInv'
<1> DEFINE free == Seat \ Occupied(table)
<1>1. free \in SUBSET Nat /\ free # {}
  BY DEF JoinRoom, Seat
<1>2. First(free) \in free
  BY <1>1, FirstType
<1>3. First(free) \in Seat /\ table.id[First(free)] = Nobody
  BY <1>2 DEF Occupied
<1>4. wallet[p] \in Nat
  BY DEF IInv
<1>5. Sound(AddPlayer(table, First(free), p, wallet[p]))
  <2> HIDE DEF free
  <2> QED BY <1>3, <1>4, AddPlayerSound DEF IInv
<1> QED BY <1>5 DEF JoinRoom, IInv

LEMMA LeaveRoomIInv ==
  ASSUME IInv, NEW p \in Player, LeaveRoom(p)
  PROVE  IInv'
<1> DEFINE i == SeatOf(table, p)
<1>1. i \in Seat
  BY SeatOfType DEF LeaveRoom
<1> HIDE DEF i
<1>2. PICK ranking \in Deals :
        /\ wallet' = [wallet EXCEPT ![p] = FoldPlayerOnLeave(table, i, ranking).stack[i]]
        /\ table' = IF Occupied(table) = {i} THEN NewTable
                    ELSE RemovePlayer(FoldPlayerOnLeave(table, i, ranking), i)
  BY DEF LeaveRoom, i
<1>3. Sound(FoldPlayerOnLeave(table, i, ranking))
  BY <1>1, FoldPlayerOnLeaveSound DEF IInv
<1>4. FoldPlayerOnLeave(table, i, ranking).stack[i] \in Nat
  BY <1>1, <1>3 DEF Sound, Table
<1>5. Sound(table')
  BY <1>1, <1>2, <1>3, NewTableSound, RemovePlayerSound
<1> QED BY <1>2, <1>4, <1>5 DEF IInv

LEMMA ToggleSound ==
  ASSUME IInv, NEW i \in Seat
  PROVE  Sound([table EXCEPT !.ready[i] = ~@])
<1> DEFINE ready == [table.ready EXCEPT ![i] = ~@]
           toggled == [table EXCEPT !.ready[i] = ~@]
<1>1. /\ ready \in [Seat -> BOOLEAN] /\ table.countdown \in BOOLEAN
      /\ table.revealed \in BOOLEAN
  BY DEF IInv, Sound, Table
<1>2. Sound([table EXCEPT !.ready = ready, !.countdown = table.countdown,
                          !.revealed = table.revealed])
  <2> HIDE DEF ready
  <2> QED BY <1>1, FlagsSound DEF IInv
<1>3. toggled = [table EXCEPT !.ready = ready, !.countdown = table.countdown,
                              !.revealed = table.revealed]
  BY DEF IInv, Sound, Table
<1> QED BY <1>2, <1>3

LEMMA PlayerReadyIInv ==
  ASSUME IInv, NEW p \in Player, PlayerReady(p)
  PROVE  IInv'
<1> DEFINE i == SeatOf(table, p)
           toggled == [table EXCEPT !.ready[i] = ~@]
<1>1. i \in Seat
  BY SeatOfType DEF PlayerReady
<1>2. Sound(toggled)
  BY <1>1, ToggleSound
<1>3. table' \in {toggled, StartHand(toggled), BeginReadyCountdown(toggled)}
      /\ wallet' = wallet
  BY DEF PlayerReady
<1> HIDE DEF toggled
<1>4. Sound(StartHand(toggled)) /\ Sound(BeginReadyCountdown(toggled))
  BY <1>2, StartHandSound, BeginReadyCountdownSound
<1> QED BY <1>2, <1>3, <1>4 DEF IInv

LEMMA CountdownSound ==
  ASSUME IInv
  PROVE  Sound([table EXCEPT !.countdown = FALSE])
<1> DEFINE u == [table EXCEPT !.countdown = FALSE]
<1>1. table.ready \in [Seat -> BOOLEAN] /\ table.revealed \in BOOLEAN /\ FALSE \in BOOLEAN
  BY DEF IInv, Sound, Table
<1>2. Sound([table EXCEPT !.ready = table.ready, !.countdown = FALSE,
                          !.revealed = table.revealed])
  BY <1>1, FlagsSound DEF IInv
<1>3. u = [table EXCEPT !.ready = table.ready, !.countdown = FALSE,
                        !.revealed = table.revealed]
  BY DEF IInv, Sound, Table
<1> QED BY <1>2, <1>3

LEMMA ReadyCountdownIInv ==
  ASSUME IInv, ReadyCountdownExpires
  PROVE  IInv'
<1> DEFINE u == [table EXCEPT !.countdown = FALSE]
<1>1. Sound(u)
  BY CountdownSound
<1> HIDE DEF u
<1>2. Sound(StartHandIfReady(u))
  BY <1>1, StartHandSound DEF StartHandIfReady
<1> QED BY <1>2 DEF ReadyCountdownExpires, IInv, u

LEMMA SettlementIInv ==
  ASSUME IInv, SettlementExpires
  PROVE  IInv'
BY ResetToWaitingSound, BeginReadyCountdownSound DEF SettlementExpires, IInv

LEMMA ShowCardsIInv ==
  ASSUME IInv, NEW p \in Player, ShowCards(p)
  PROVE  IInv'
BY RevealSound DEF ShowCards, IInv

LEMMA ActionTimeoutIInv ==
  ASSUME IInv, ActionTimeout
  PROVE  IInv'
<1>1. table.active \in Seat
  BY DEF ActionTimeout, TimeoutDue, Occupied
<1>2. CASE \E ranking \in Deals : table' = FoldSitOut(table, ranking) /\ UNCHANGED wallet
  BY <1>2, FoldSitOutSound DEF IInv
<1>3. CASE Play(IF CanCheck(table) THEN Check(table) ELSE Fold(table))
  <2>1. Sound(Check(table)) /\ Sound(Fold(table))
    BY <1>1, CheckSound, FoldSound DEF IInv
  <2> QED BY <1>3, <2>1, PlaySound DEF IInv
<1> QED BY <1>2, <1>3 DEF ActionTimeout, TimedOut, Play

LEMMA PlayerActsIInv ==
  ASSUME IInv, NEW p \in Player, PlayerActs(p)
  PROVE  IInv'
<1>1. TurnOf(table, p) => table.active \in Seat
  BY DEF TurnOf
<1>2. CASE PlayerFold(p)
  BY <1>1, <1>2, FoldSound, PlaySound DEF PlayerFold, IInv
<1>3. CASE PlayerCheck(p)
  BY <1>1, <1>3, CheckSound, PlaySound DEF PlayerCheck, IInv
<1>4. CASE PlayerCall(p)
  BY <1>1, <1>4, CallSound, PlaySound DEF PlayerCall, MayBet, IInv
<1>5. CASE PlayerAllIn(p)
  BY <1>1, <1>5, AllInSound, PlaySound DEF PlayerAllIn, MayBet, IInv
<1>6. CASE PlayerRaise(p)
  <2>1. PICK amount \in RaiseTo :
          MayBet(p) /\ CanRaise(table, amount) /\ Play(Raise(table, amount))
    BY <1>6 DEF PlayerRaise
  <2>2. Sound(Raise(table, amount))
    BY <1>1, <2>1, StakesAssumption, RaiseSound DEF MayBet, IInv
  <2> QED BY <2>1, <2>2, PlaySound DEF IInv
<1>7. CASE PlayerStraddle(p)
  BY <1>1, <1>7, StraddleSound DEF PlayerStraddle, IInv
<1>8. CASE PlayerSitOut(p)
  BY <1>1, <1>8, SitOutSound DEF PlayerSitOut, IInv
<1> QED BY <1>2, <1>3, <1>4, <1>5, <1>6, <1>7, <1>8 DEF PlayerActs

LEMMA NextIInv == IInv /\ [Next]_vars => IInv'
<1> SUFFICES ASSUME IInv, [Next]_vars PROVE IInv'
  OBVIOUS
<1>1. ASSUME NEW p \in Player, JoinRoom(p) PROVE IInv'
  BY <1>1, JoinRoomIInv
<1>2. ASSUME NEW p \in Player, LeaveRoom(p) PROVE IInv'
  BY <1>2, LeaveRoomIInv
<1>3. ASSUME NEW p \in Player, PlayerReady(p) PROVE IInv'
  BY <1>3, PlayerReadyIInv
<1>4. ASSUME NEW p \in Player, ShowCards(p) PROVE IInv'
  BY <1>4, ShowCardsIInv
<1>5. ASSUME NEW p \in Player, PlayerActs(p) PROVE IInv'
  BY <1>5, PlayerActsIInv
<1>6. CASE Timers
  BY <1>6, ReadyCountdownIInv, SettlementIInv, ActionTimeoutIInv DEF Timers
<1>7. CASE UNCHANGED vars
  BY <1>7 DEF vars, IInv
<1> QED BY <1>1, <1>2, <1>3, <1>4, <1>5, <1>6, <1>7 DEF Next

\* IInv holds in every reachable state.
THEOREM Invariance == Spec => []IInv
<1>1. Init => IInv
  BY InitIInv
<1>2. IInv /\ [Next]_vars => IInv'
  BY NextIInv
<1> QED BY <1>1, <1>2, PTL DEF Spec

\* Every field of the table keeps its type whatever the clients send: no stack,
\* bet or pot ever goes negative, not even when a straddle takes chips back.
THEOREM TypeCorrect == Spec => []TypeOK
<1>1. IInv => TypeOK
  BY DEF IInv, TypeOK, Sound
<1> QED BY <1>1, Invariance, PTL

\* The pot covers the contributions the showdown will split it by, through every
\* departure in the middle of the hand.
THEOREM PotAlwaysCovers == Spec => []PotCoversBets
<1>1. IInv => PotCoversBets
  BY DEF IInv, PotCoversBets, Sound, HandSound, PotCovered, BetsRecorded, InHand,
         SeatedBets
<1> QED BY <1>1, Invariance, PTL

\* During a hand ACTIVE players have chips behind and ALLIN players none.
THEOREM AllInAlwaysBroke == Spec => []AllInMeansNoChips
<1>1. IInv => AllInMeansNoChips
  BY DEF IInv, AllInMeansNoChips, Sound, HandSound, StackMatchesStatus, InHand, Occupied
<1> QED BY <1>1, Invariance, PTL

\* No street is ever closed while a dealt player who still bets owes a call.
THEOREM StreetsAlwaysSettled == Spec => []StreetsSettled
<1>1. IInv => StreetsSettled
  BY DEF IInv, StreetsSettled, Sound, HandSound, ClosedStreetsEven, InHand, Live, Occupied
<1> QED BY <1>1, Invariance, PTL

----------------------------------------------------------------------------
(***************************************************************************)
(* The chips. That a step keeps their number, or how much it may cost,     *)
(* rests on facts that IInv leaves out: an empty seat holds no chips, a    *)
(* player sits once and has brought his whole wallet, between hands there  *)
(* is no pot and no turn, and a hand that is played has no result.         *)
(***************************************************************************)

Tidy(t, w) ==
  /\ \A i \in Seat : t.id[i] = Nobody => t.stack[i] = 0
  /\ \A i, j \in Seat : t.id[i] # Nobody /\ t.id[i] = t.id[j] => i = j
  /\ \A i \in Seat : t.id[i] # Nobody => w[t.id[i]] = 0
  /\ t.stage = "WAITING" => t.active = NoSeat /\ t.pot = 0
  /\ Fresh(t)

ChipInv == IInv /\ Tidy(table, wallet)

\* What a step does to the chips: the four action properties of PokerTable.
Accounted ==
  /\ ChipTotal' <= ChipTotal
  /\ InHand(table') => ChipTotal' = ChipTotal
  /\ InHand(table) /\ table'.stage = "SETTLEMENT" =>
       \/ table'.isFoldWin /\ ChipTotal - ChipTotal' <= RakeCap
       \/ ChipTotal - ChipTotal' = Forfeited(table)
       \/ \A p \in Player : table'.result[p] <= 0
  /\ \A i \in Seat :
       /\ table.id[i] # Nobody /\ table'.id[i] = table.id[i]
       /\ table'.stack[i] < table.stack[i]
       => table.active = i \/ table.stage = "WAITING"

LEMMA DealsType ==
  ASSUME NEW ranking \in Deals
  PROVE  ranking \in [Seat -> Nat]
BY RankAssumption DEF Deals, Zero

LEMMA WalletType ==
  ASSUME NEW w, w \in [Player -> Nat]
  PROVE  Total(w) \in Nat
BY PlayerAssumption, TotalType

LEMMA InitTidy == Init => Tidy(table, wallet)
BY DEF Init, Tidy, NewTable, Zero, Fresh, InHand, ActionStage, NoSeat

\* Steps that touch neither stacks nor pot nor stage nor turn.
LEMMA QuietStep ==
  ASSUME ChipInv, IInv', wallet' = wallet,
         table'.id = table.id, table'.stack = table.stack, table'.pot = table.pot,
         table'.stage = table.stage, table'.active = table.active,
         table'.result = table.result
  PROVE  Tidy(table, wallet)' /\ Accounted
<1>1. ChipTotal' = ChipTotal
  BY DEF ChipTotal, TableChips
<1>2. ChipTotal \in Nat
  BY TableChipsType, WalletType DEF ChipInv, IInv, Sound, ChipTotal
<1>3. Tidy(table, wallet)'
  BY DEF ChipInv, Tidy, Fresh, InHand
<1>4. \A i \in Seat : ~(table'.stack[i] < table.stack[i])
  BY DEF ChipInv, IInv, Sound, Table
<1> QED BY <1>1, <1>2, <1>3, <1>4 DEF Accounted, InHand, ActionStage

\* The player in turn moves, or is folded, and play goes on.
LEMMA TurnStep ==
  ASSUME ChipInv, IInv', wallet' = wallet, table.active \in Occupied(table),
         NEW m, m \in Table, Moved(table, m), Carried(m, table')
  PROVE  Tidy(table, wallet)' /\ Accounted
<1>1. table \in Table /\ table' \in Table /\ wallet \in [Player -> Nat]
  BY DEF ChipInv, IInv, Sound
<1>2. table.active \in Seat /\ table.id[table.active] # Nobody /\ table.stage # "WAITING"
  BY DEF Occupied, ChipInv, Tidy, NoSeat, Seat
<1>3. /\ table'.id = table.id
      /\ \A i \in Seat \ {table.active} : /\ table'.stack[i] >= table.stack[i]
                                          /\ table.id[i] = Nobody => table'.stack[i] = table.stack[i]
  BY DEF Carried, Keeps, Moved
<1>4. /\ table'.stage # "WAITING"
      /\ InHand(table') => InHand(table) /\ table'.result = table.result
      /\ TableChips(table') <= TableChips(table)
      /\ InHand(table') => TableChips(table') = TableChips(table)
  BY <1>2 DEF Carried, Moved, InHand
<1>5. InHand(table) /\ table'.stage = "SETTLEMENT" => Settled(table, table')
  BY DEF Carried, Moved, InHand, Settled
<1>6. Tidy(table, wallet)'
  BY <1>2, <1>3, <1>4 DEF ChipInv, Tidy, Fresh
<1>7. /\ TableChips(table) \in Nat /\ TableChips(table') \in Nat /\ Total(wallet) \in Nat
      /\ ChipTotal = TableChips(table) + Total(wallet)
      /\ ChipTotal' = TableChips(table') + Total(wallet)
  BY <1>1, TableChipsType, WalletType DEF ChipTotal
<1>8. \A i \in Seat : table'.stack[i] < table.stack[i] => table.active = i
  BY <1>1, <1>3 DEF Table
<1> QED BY <1>4, <1>5, <1>6, <1>7, <1>8 DEF Accounted, Settled

LEMMA JoinRoomChips ==
  ASSUME ChipInv, IInv', NEW p \in Player, JoinRoom(p)
  PROVE  Tidy(table, wallet)' /\ Accounted
<1> DEFINE i == First(Seat \ Occupied(table))
<1>1. i \in Seat /\ table.id[i] = Nobody
  <2> DEFINE free == Seat \ Occupied(table)
  <2>1. free \in SUBSET Nat /\ free # {}
    BY DEF JoinRoom, Seat
  <2>2. First(free) \in free
    BY <2>1, FirstType
  <2> QED BY <2>2 DEF Occupied
<1>2. table' = AddPlayer(table, i, p, wallet[p]) /\ wallet' = [wallet EXCEPT ![p] = 0]
  BY DEF JoinRoom
<1> HIDE DEF i
<1>3. /\ table \in Table /\ table' \in Table
      /\ wallet \in [Player -> Nat] /\ wallet' \in [Player -> Nat]
  BY DEF ChipInv, IInv, Sound
<1>4. /\ table'.id = [table.id EXCEPT ![i] = p]
      /\ table'.stack = [table.stack EXCEPT ![i] = wallet[p]]
      /\ table'.pot = table.pot /\ table'.stage = table.stage
      /\ table'.active = table.active /\ table'.result = table.result
  BY <1>2, <1>3 DEF AddPlayer, Table
<1>5. /\ table.stack \in [Seat -> Nat] /\ table'.stack \in [Seat -> Nat]
      /\ table.stack[i] = 0 /\ table'.stack[i] = wallet[p] /\ wallet'[p] = 0
      /\ \A j \in Seat \ {i} : table'.stack[j] = table.stack[j]
      /\ \A q \in Player \ {p} : wallet'[q] = wallet[q]
  BY <1>1, <1>2, <1>3, <1>4 DEF ChipInv, Tidy, Table
<1>6. Total(table'.stack) = Total(table.stack) + wallet[p] - 0
  BY <1>1, <1>5, SeatFinite, TotalUpdate
<1>7. Total(wallet') = Total(wallet) + 0 - wallet[p]
  BY <1>3, <1>5, PlayerAssumption, TotalUpdate
<1>8. /\ Total(table.stack) \in Nat /\ table.pot \in Nat /\ Total(wallet) \in Nat
      /\ wallet[p] \in Nat
  BY <1>3, TableChipsType, WalletType DEF Table
<1>9. ChipTotal' = ChipTotal /\ ChipTotal \in Nat
  BY <1>4, <1>6, <1>7, <1>8 DEF ChipTotal, TableChips
<1>10. /\ \A j \in Seat : table.id[j] # p
       /\ table'.id[i] = p /\ \A j \in Seat \ {i} : table'.id[j] = table.id[j]
  BY <1>1, <1>3, <1>4 DEF JoinRoom, HasPlayer, Table
<1>11. \A j \in Seat : table.id[j] # Nobody => table.id[j] \in Player
  BY <1>3 DEF Table
<1>12. Tidy(table, wallet)'
  <2>1. /\ \A j \in Seat : table'.id[j] = Nobody => table'.stack[j] = 0
        /\ \A j, k \in Seat : table'.id[j] # Nobody /\ table'.id[j] = table'.id[k] => j = k
    BY <1>1, <1>5, <1>10, NobodyAssumption DEF ChipInv, Tidy
  <2>2. \A j \in Seat : table'.id[j] # Nobody => wallet'[table'.id[j]] = 0
    BY <1>5, <1>10, <1>11 DEF ChipInv, Tidy
  <2> QED BY <1>4, <2>1, <2>2 DEF ChipInv, Tidy, Fresh, InHand
<1>13. \A j \in Seat : table'.stack[j] < table.stack[j] => FALSE
  BY <1>3, <1>5, <1>8 DEF Table
<1> QED BY <1>4, <1>9, <1>12, <1>13 DEF Accounted, InHand, ActionStage

LEMMA LeaveRoomChips ==
  ASSUME ChipInv, IInv', NEW p \in Player, LeaveRoom(p)
  PROVE  Tidy(table, wallet)' /\ Accounted
<1> DEFINE i == SeatOf(table, p)
<1>1. i \in Seat /\ table.id[i] = p /\ p # Nobody
  BY SeatOfType, NobodyAssumption DEF LeaveRoom
<1>2. PICK ranking \in Deals :
        /\ wallet' = [wallet EXCEPT ![p] = FoldPlayerOnLeave(table, i, ranking).stack[i]]
        /\ table' = IF Occupied(table) = {i} THEN NewTable
                    ELSE RemovePlayer(FoldPlayerOnLeave(table, i, ranking), i)
  BY DEF LeaveRoom
<1> HIDE DEF i
<1> DEFINE f == FoldPlayerOnLeave(table, i, ranking)
<1>3. Carried(table, f) /\ f \in Table /\ (table.stage = "WAITING" => f = table)
  <2>1. Carried(table, f) /\ Sound(f)
    BY <1>1, DealsType, FoldPlayerOnLeaveCarried, FoldPlayerOnLeaveSound
       DEF ChipInv, IInv, Tidy
  <2>2. table.stage = "WAITING" => f = table
    BY DEF FoldPlayerOnLeave, ActionStage
  <2> QED BY <2>1, <2>2 DEF Sound
<1>4. /\ wallet' = [wallet EXCEPT ![p] = f.stack[i]]
      /\ table' = IF Occupied(table) = {i} THEN NewTable ELSE RemovePlayer(f, i)
  BY <1>2
<1> HIDE DEF f
<1>5. /\ table \in Table /\ table' \in Table
      /\ wallet \in [Player -> Nat] /\ wallet' \in [Player -> Nat]
  BY DEF ChipInv, IInv, Sound
<1>6. /\ f.stack \in [Seat -> Nat] /\ f.pot \in Nat /\ f.id = table.id
      /\ wallet[p] = 0 /\ wallet'[p] = f.stack[i]
      /\ \A q \in Player \ {p} : wallet'[q] = wallet[q]
  BY <1>1, <1>3, <1>4, <1>5 DEF Carried, Keeps, Table, ChipInv, Tidy
<1>7. Total(wallet') = Total(wallet) + f.stack[i] - 0
  BY <1>5, <1>6, PlayerAssumption, TotalUpdate
<1>8. /\ TableChips(f) \in Nat /\ TableChips(f) = Total(f.stack) + f.pot
      /\ Total(f.stack) \in Nat /\ f.stack[i] \in Nat /\ f.stack[i] <= Total(f.stack)
      /\ TableChips(table) \in Nat /\ TableChips(f) <= TableChips(table)
      /\ Total(wallet) \in Nat /\ ChipTotal = TableChips(table) + Total(wallet)
      /\ ChipTotal' = TableChips(table') + Total(wallet')
  BY <1>1, <1>3, <1>5, <1>6, SeatFinite, TotalBound, TableChipsType, WalletType
     DEF Carried, TableChips, ChipTotal
<1>9. CASE Occupied(table) = {i}
  <2>1. table' = NewTable
    BY <1>4, <1>9
  <2>2. TableChips(NewTable) = 0
    <3>1. Zero \in [Seat -> Nat] /\ \A j \in Seat : Zero[j] = 0
      BY DEF Zero
    <3>2. Total(Zero) = 0
      BY <3>1, TotalZero
    <3> QED BY <3>2 DEF TableChips, NewTable
  <2>3. /\ table'.stage = "WAITING" /\ \A j \in Seat : table'.id[j] = Nobody
        /\ Tidy(table, wallet)'
    BY <2>1 DEF NewTable, Tidy, Zero, Fresh, InHand, ActionStage
  <2>4. ChipTotal' <= ChipTotal
    BY <1>6, <1>7, <1>8, <2>1, <2>2
  <2> QED BY <2>3, <2>4 DEF Accounted, InHand, ActionStage
<1>10. CASE Occupied(table) # {i}
  <2>1. /\ table'.id = [f.id EXCEPT ![i] = Nobody]
        /\ table'.stack = [f.stack EXCEPT ![i] = 0]
        /\ table'.pot = f.pot /\ table'.stage = f.stage /\ table'.active = f.active
        /\ table'.result = f.result /\ table'.isFoldWin = f.isFoldWin
    BY <1>3, <1>4, <1>10 DEF RemovePlayer, Table
  <2>2. /\ table'.stack \in [Seat -> Nat] /\ table'.stack[i] = 0
        /\ \A j \in Seat \ {i} : table'.stack[j] = f.stack[j] /\ table'.id[j] = table.id[j]
        /\ table'.id[i] = Nobody
    BY <1>1, <1>3, <1>5, <1>6, <2>1 DEF Table
  <2>3. Total(table'.stack) = Total(f.stack) + 0 - f.stack[i]
    BY <1>1, <1>6, <2>2, SeatFinite, TotalUpdate
  <2>4. ChipTotal' = TableChips(f) + Total(wallet)
    BY <1>6, <1>7, <1>8, <2>1, <2>3 DEF TableChips
  <2>5. /\ f.stage = "WAITING" => table.stage = "WAITING"
        /\ InHand(f) => InHand(table) /\ f.result = table.result
                        /\ TableChips(f) = TableChips(table)
        /\ InHand(table) /\ f.stage = "SETTLEMENT" => Settled(table, f)
        /\ \A j \in Seat : /\ f.stack[j] >= table.stack[j]
                           /\ table.id[j] = Nobody => f.stack[j] = table.stack[j]
    BY <1>3 DEF Carried, Keeps
  <2>6. \A j \in Seat \ {i} : table.id[j] # p /\ (table.id[j] # Nobody => table.id[j] \in Player)
    BY <1>1, <1>5 DEF ChipInv, Tidy, Table
  <2>7. Tidy(table, wallet)'
    <3>1. /\ \A j \in Seat : table'.id[j] = Nobody => table'.stack[j] = 0
          /\ \A j, k \in Seat : table'.id[j] # Nobody /\ table'.id[j] = table'.id[k] => j = k
      BY <2>2, <2>5 DEF ChipInv, Tidy
    <3>2. \A j \in Seat : table'.id[j] # Nobody => wallet'[table'.id[j]] = 0
      BY <1>6, <2>2, <2>6 DEF ChipInv, Tidy
    <3>3. table'.stage = "WAITING" => table'.active = NoSeat /\ table'.pot = 0
      BY <1>3, <2>1, <2>5 DEF ChipInv, Tidy
    <3>4. Fresh(table')
      BY <2>1, <2>5 DEF ChipInv, Tidy, Fresh, InHand
    <3> QED BY <3>1, <3>2, <3>3, <3>4 DEF Tidy
  <2>8. \A j \in Seat : table'.id[j] = table.id[j] /\ table.id[j] # Nobody
                          => ~(table'.stack[j] < table.stack[j])
    BY <1>1, <1>5, <1>6, <2>2, <2>5 DEF Table
  <2>9. InHand(table) /\ table'.stage = "SETTLEMENT" =>
          \/ table'.isFoldWin /\ ChipTotal - ChipTotal' <= RakeCap
          \/ ChipTotal - ChipTotal' = Forfeited(table)
          \/ \A q \in Player : table'.result[q] <= 0
    BY <1>8, <2>1, <2>4, <2>5 DEF Settled
  <2> QED BY <1>8, <2>1, <2>4, <2>5, <2>7, <2>8, <2>9 DEF Accounted, InHand
<1> QED BY <1>9, <1>10

\* A hand is dealt: blinds move from two stacks to the pot.
LEMMA HandStarts ==
  ASSUME ChipInv, IInv', wallet' = wallet, table.stage = "WAITING",
         NEW u, Sound(u), u.id = table.id, u.stack = table.stack, u.pot = table.pot,
         Cardinality(Playable(u)) >= 2, table' = StartHand(u)
  PROVE  Tidy(table, wallet)' /\ Accounted
<1>1. u.pot = 0
  BY DEF ChipInv, Tidy
<1>2. /\ TableChips(table') = TableChips(u)
      /\ table'.id = u.id /\ table'.result = NoResult /\ table'.stage = "PREFLOP"
      /\ \A i \in Seat : u.stack[i] = 0 => table'.stack[i] = 0
  BY <1>1, StartHandChips
<1>3. TableChips(u) = TableChips(table)
  BY DEF TableChips
<1>4. TableChips(table) \in Nat /\ Total(wallet) \in Nat
  BY TableChipsType, WalletType DEF ChipInv, IInv, Sound
<1>5. ChipTotal' = ChipTotal /\ ChipTotal \in Nat
  BY <1>2, <1>3, <1>4 DEF ChipTotal
<1>6. Tidy(table, wallet)'
  BY <1>2 DEF ChipInv, Tidy, Fresh
<1> QED BY <1>5, <1>6 DEF Accounted, InHand, ActionStage

LEMMA PlayerReadyChips ==
  ASSUME ChipInv, IInv', NEW p \in Player, PlayerReady(p)
  PROVE  Tidy(table, wallet)' /\ Accounted
<1> DEFINE i == SeatOf(table, p)
           toggled == [table EXCEPT !.ready[i] = ~@]
<1>1. table.stage = "WAITING" /\ wallet' = wallet /\ i \in Seat
  BY SeatOfType DEF PlayerReady
<1>2. Sound(toggled)
  BY <1>1, ToggleSound DEF ChipInv
<1>3. /\ toggled.id = table.id /\ toggled.stack = table.stack
      /\ toggled.pot = table.pot /\ toggled.stage = table.stage
      /\ toggled.active = table.active /\ toggled.result = table.result
  BY DEF ChipInv, IInv, Sound, Table
<1>4. \/ table' = toggled
      \/ table' = BeginReadyCountdown(toggled)
      \/ AreAllSeatedPlayersReady(toggled) /\ table' = StartHand(toggled)
  BY DEF PlayerReady
<1> HIDE DEF toggled
<1>5. CASE table' = toggled
  BY <1>1, <1>3, <1>5, QuietStep
<1>6. CASE table' = BeginReadyCountdown(toggled)
  <2>1. /\ table'.id = table.id /\ table'.stack = table.stack
        /\ table'.pot = table.pot /\ table'.stage = table.stage
        /\ table'.active = table.active /\ table'.result = table.result
    BY <1>2, <1>3, <1>6 DEF BeginReadyCountdown, Sound, Table
  <2> QED BY <1>1, <2>1, QuietStep
<1>7. CASE AreAllSeatedPlayersReady(toggled) /\ table' = StartHand(toggled)
  BY <1>1, <1>2, <1>3, <1>7, HandStarts DEF AreAllSeatedPlayersReady
<1> QED BY <1>4, <1>5, <1>6, <1>7

LEMMA ReadyCountdownChips ==
  ASSUME ChipInv, IInv', ReadyCountdownExpires
  PROVE  Tidy(table, wallet)' /\ Accounted
<1> DEFINE u == [table EXCEPT !.countdown = FALSE]
<1>1. table.stage = "WAITING" /\ wallet' = wallet
  BY DEF ReadyCountdownExpires
<1>2. Sound(u)
  BY CountdownSound DEF ChipInv
<1>3. /\ u.id = table.id /\ u.stack = table.stack
      /\ u.pot = table.pot /\ u.stage = table.stage
      /\ u.active = table.active /\ u.result = table.result
  BY DEF ChipInv, IInv, Sound, Table
<1>4. \/ table' = u
      \/ AreAllSeatedPlayersReady(u) /\ table' = StartHand(u)
  BY DEF ReadyCountdownExpires, StartHandIfReady
<1> HIDE DEF u
<1>5. CASE table' = u
  BY <1>1, <1>3, <1>5, QuietStep
<1>6. CASE AreAllSeatedPlayersReady(u) /\ table' = StartHand(u)
  BY <1>1, <1>2, <1>3, <1>6, HandStarts DEF AreAllSeatedPlayersReady
<1> QED BY <1>4, <1>5, <1>6

\* What is left of the pot after a settlement is lost.
LEMMA SettlementChips ==
  ASSUME ChipInv, IInv', SettlementExpires
  PROVE  Tidy(table, wallet)' /\ Accounted
<1> DEFINE u == ResetToWaiting(table)
<1>1. table.stage = "SETTLEMENT" /\ wallet' = wallet /\ table' = BeginReadyCountdown(u)
  BY DEF SettlementExpires
<1>2. /\ u.stack = table.stack /\ u.id = table.id /\ u.pot = 0
      /\ u.active = NoSeat /\ u.stage = "WAITING"
  BY ResetToWaitingChips DEF ChipInv, IInv, Sound
<1>3. Sound(u)
  BY ResetToWaitingSound DEF ChipInv, IInv
<1> HIDE DEF u
<1>4. /\ table'.stack = table.stack /\ table'.id = table.id /\ table'.pot = 0
      /\ table'.active = NoSeat /\ table'.stage = "WAITING"
  BY <1>1, <1>2, <1>3 DEF BeginReadyCountdown, Sound, Table
<1>5. /\ Total(table.stack) \in Nat /\ Total(wallet) \in Nat /\ table.pot \in Nat
      /\ table.stack \in [Seat -> Nat]
  BY TableChipsType, WalletType DEF ChipInv, IInv, Sound, Table
<1>6. ChipTotal' <= ChipTotal
  BY <1>1, <1>4, <1>5 DEF ChipTotal, TableChips
<1>7. Tidy(table, wallet)'
  BY <1>1, <1>4 DEF ChipInv, Tidy, Fresh, InHand, ActionStage
<1> QED BY <1>1, <1>4, <1>5, <1>6, <1>7 DEF Accounted, InHand, ActionStage

LEMMA ShowCardsChips ==
  ASSUME ChipInv, IInv', NEW p \in Player, ShowCards(p)
  PROVE  Tidy(table, wallet)' /\ Accounted
<1>1. wallet' = wallet /\ table' = RevealFoldWinnerCards(table)
  BY DEF ShowCards
<1>2. /\ table'.id = table.id /\ table'.stack = table.stack
      /\ table'.pot = table.pot /\ table'.stage = table.stage
      /\ table'.active = table.active /\ table'.result = table.result
  BY <1>1 DEF RevealFoldWinnerCards, ChipInv, IInv, Sound, Table
<1> QED BY <1>1, <1>2, QuietStep

\* A move, then the tail of processAction.
LEMMA PlayChips ==
  ASSUME ChipInv, IInv', table.active \in Occupied(table),
         NEW m, Sound(m), Moved(table, m), Play(m)
  PROVE  Tidy(table, wallet)' /\ Accounted
<1>1. PICK ranking \in Deals : table' = Finish(m, ranking) /\ wallet' = wallet
  BY DEF Play
<1>2. Fresh(m)
  BY DEF Moved, ChipInv, Tidy, Fresh, InHand
<1>3. Carried(m, table')
  BY <1>1, <1>2, DealsType, FinishCarried
<1> QED BY <1>1, <1>3, TurnStep DEF Sound

\* A player who sits out, or is folded for it, has paid nothing.
LEMMA UnpaidTurn ==
  ASSUME ChipInv, IInv', wallet' = wallet, table.active \in Occupied(table),
         Carried(table, table')
  PROVE  Tidy(table, wallet)' /\ Accounted
<1>1. Moved(table, table) /\ table \in Table
  BY DEF Moved, ChipInv, IInv, Sound
<1> QED BY <1>1, TurnStep

LEMMA ActionTimeoutChips ==
  ASSUME ChipInv, IInv', ActionTimeout
  PROVE  Tidy(table, wallet)' /\ Accounted
<1>1. table.active \in Occupied(table) /\ table.active \in Seat
  BY DEF ActionTimeout, TimeoutDue, Occupied
<1>2. Sound(table) /\ Fresh(table)
  BY DEF ChipInv, IInv, Tidy
<1>3. CASE \E ranking \in Deals : table' = FoldSitOut(table, ranking) /\ UNCHANGED wallet
  <2>1. PICK ranking \in Deals : table' = FoldSitOut(table, ranking) /\ wallet' = wallet
    BY <1>3
  <2>2. Carried(table, table')
    BY <1>2, <2>1, DealsType, FoldSitOutCarried
  <2> QED BY <1>1, <2>1, <2>2, UnpaidTurn
<1>4. CASE Play(IF CanCheck(table) THEN Check(table) ELSE Fold(table))
  <2>1. /\ Sound(Check(table)) /\ Moved(table, Check(table))
        /\ Sound(Fold(table)) /\ Moved(table, Fold(table))
    BY <1>1, <1>2, CheckSound, FoldSound, FoldMoved DEF Sound
  <2> QED BY <1>1, <1>4, <2>1, PlayChips
<1> QED BY <1>3, <1>4 DEF ActionTimeout, TimedOut, Play

LEMMA PlayerActsChips ==
  ASSUME ChipInv, IInv', NEW p \in Player, PlayerActs(p)
  PROVE  Tidy(table, wallet)' /\ Accounted
<1>1. TurnOf(table, p) => table.active \in Seat /\ table.active \in Occupied(table)
  BY NobodyAssumption DEF TurnOf, Occupied
<1>2. Sound(table) /\ Fresh(table) /\ table \in Table
  BY DEF ChipInv, IInv, Tidy, Sound
<1>3. CASE PlayerFold(p)
  BY <1>1, <1>2, <1>3, FoldSound, FoldMoved, PlayChips DEF PlayerFold
<1>4. CASE PlayerCheck(p)
  BY <1>1, <1>2, <1>4, CheckSound, FoldMoved, PlayChips DEF PlayerCheck
<1>5. CASE PlayerCall(p)
  BY <1>1, <1>2, <1>5, CallSound, CallMoved, PlayChips DEF PlayerCall, MayBet
<1>6. CASE PlayerAllIn(p)
  BY <1>1, <1>2, <1>6, AllInSound, AllInMoved, PlayChips DEF PlayerAllIn, MayBet
<1>7. CASE PlayerRaise(p)
  <2>1. PICK amount \in RaiseTo :
          MayBet(p) /\ CanRaise(table, amount) /\ Play(Raise(table, amount))
    BY <1>7 DEF PlayerRaise
  <2>2. amount \in Nat /\ table.active \in Occupied(table) /\ table.active \in Seat
    BY <1>1, <2>1, StakesAssumption DEF MayBet
  <2>3. Sound(Raise(table, amount)) /\ Moved(table, Raise(table, amount))
    BY <1>2, <2>1, <2>2, RaiseSound, RaiseMoved
  <2> QED BY <2>1, <2>2, <2>3, PlayChips
<1>8. CASE PlayerStraddle(p)
  <2>1. /\ table' = Straddle(table) /\ wallet' = wallet /\ CanStraddle(table)
        /\ table.active \in Occupied(table) /\ table.active \in Seat
    BY <1>1, <1>8 DEF PlayerStraddle
  <2>2. Moved(table, table') /\ table' \in Table
    BY <1>2, <2>1, StraddleMoved DEF IInv, Sound
  <2>3. Carried(table', table')
    BY <2>2, UnpaidCarried
  <2> QED BY <2>1, <2>2, <2>3, TurnStep
<1>9. CASE PlayerSitOut(p)
  <2>1. PICK ranking \in Deals : table' = SitOut(table, ranking)
    BY <1>9 DEF PlayerSitOut
  <2>2. /\ wallet' = wallet /\ table.stage \in ActionStage
        /\ table.active \in Occupied(table) /\ table.active \in Seat
    BY <1>1, <1>9 DEF PlayerSitOut
  <2>3. Carried(table, table')
    BY <1>2, <2>1, <2>2, DealsType, SitOutCarried
  <2> QED BY <2>2, <2>3, UnpaidTurn
<1> QED BY <1>3, <1>4, <1>5, <1>6, <1>7, <1>8, <1>9 DEF PlayerActs

LEMMA NextChips == ChipInv /\ [Next]_vars => ChipInv' /\ Accounted
<1> SUFFICES ASSUME ChipInv, [Next]_vars PROVE ChipInv' /\ Accounted
  OBVIOUS
<1>1. IInv'
  BY NextIInv DEF ChipInv
<1>2. ASSUME NEW p \in Player, JoinRoom(p) PROVE Tidy(table, wallet)' /\ Accounted
  BY <1>1, <1>2, JoinRoomChips
<1>3. ASSUME NEW p \in Player, LeaveRoom(p) PROVE Tidy(table, wallet)' /\ Accounted
  BY <1>1, <1>3, LeaveRoomChips
<1>4. ASSUME NEW p \in Player, PlayerReady(p) PROVE Tidy(table, wallet)' /\ Accounted
  BY <1>1, <1>4, PlayerReadyChips
<1>5. ASSUME NEW p \in Player, ShowCards(p) PROVE Tidy(table, wallet)' /\ Accounted
  BY <1>1, <1>5, ShowCardsChips
<1>6. ASSUME NEW p \in Player, PlayerActs(p) PROVE Tidy(table, wallet)' /\ Accounted
  BY <1>1, <1>6, PlayerActsChips
<1>7. ASSUME Timers PROVE Tidy(table, wallet)' /\ Accounted
  BY <1>1, <1>7, ReadyCountdownChips, SettlementChips, ActionTimeoutChips DEF Timers
<1>8. ASSUME UNCHANGED vars PROVE Tidy(table, wallet)' /\ Accounted
  BY <1>1, <1>8, QuietStep DEF vars
<1>9. Tidy(table, wallet)' /\ Accounted
  BY <1>2, <1>3, <1>4, <1>5, <1>6, <1>7, <1>8 DEF Next
<1> QED BY <1>1, <1>9 DEF ChipInv

\* Every step of the system accounts for its chips.
THEOREM ChipInvariance == Spec => []ChipInv /\ [][Accounted]_vars
<1>1. Init => ChipInv
  BY InitIInv, InitTidy DEF ChipInv
<1>2. ChipInv /\ [Next]_vars => ChipInv' /\ Accounted
  BY NextChips
<1> QED BY <1>1, <1>2, PTL DEF Spec

\* No sequence of calls, however late or out of turn, creates chips.
THEOREM ChipsNeverCreated == Spec => NoChipsCreated
<1>1. [Accounted]_vars => [ChipTotal' <= ChipTotal]_chips
  BY DEF Accounted, vars, chips
<1> QED BY <1>1, ChipInvariance, PTL DEF NoChipsCreated

\* While a hand is played chips only move between stacks, pot and wallets.
THEOREM HandsConserveChips == Spec => ChipsConservedInHand
<1>1. [Accounted]_vars => [InHand(table') => ChipTotal' = ChipTotal]_chips
  BY DEF Accounted, vars, chips
<1> QED BY <1>1, ChipInvariance, PTL DEF ChipsConservedInHand

\* The end of a hand costs at most the capped rake when everyone has folded but one,
\* exactly what the players who left had put in when hands are shown (the rake the
\* code takes off the pot is not taken from anyone's winnings), or nobody is paid.
THEOREM SettlementCost == Spec => SettlementLoss
<1>1. [Accounted]_vars =>
        [InHand(table) /\ table'.stage = "SETTLEMENT" =>
           \/ table'.isFoldWin /\ ChipTotal - ChipTotal' <= RakeCap
           \/ ChipTotal - ChipTotal' = Forfeited(table)
           \/ \A p \in Player : table'.result[p] <= 0]_vars
  BY DEF Accounted
<1> QED BY <1>1, ChipInvariance, PTL DEF SettlementLoss, RakedFoldWin, UnrakedShowdown

\* A stack shrinks only on its owner's turn or for a blind.
THEOREM OnlyActorEverPays == Spec => OnlyActorPays
<1>1. [Accounted]_vars =>
        [\A i \in Seat :
           /\ table.id[i] # Nobody /\ table'.id[i] = table.id[i]
           /\ table'.stack[i] < table.stack[i]
           => table.active = i \/ table.stage = "WAITING"]_chips
  BY DEF Accounted, vars, chips
<1> QED BY <1>1, ChipInvariance, PTL DEF OnlyActorPays
----------------------------------------------------------------------------
(* Timeouts *)

\* The street t was on is over in u.
StreetOver(t, u) == u.stage = "SETTLEMENT" \/ Later(t.stage, u.stage)

\* The turn has passed from t to the next player still betting.
TurnPassed(t) == [t EXCEPT !.active = NextActiveFrom(t, t.active)]

\* A street that is closed is followed by the next one or by the settlement.
LEMMA StreetAdvances ==
  ASSUME NEW t \in Table, InHand(t), NEW ranking
  PROVE  StreetOver(t, AdvanceStreet(t, ranking))
<1> DEFINE closed == [t EXCEPT !.bet = Zero, !.hasActed = False,
                               !.currentBet = 0, !.minBet = BigBlind]
<1>1. DOMAIN closed = DOMAIN t /\ "stage" \in DOMAIN closed /\ "active" \in DOMAIN closed
  BY DEF Table
<1>2. CASE t.stage = "RIVER"
  <2>1. AdvanceStreet(t, ranking) = PerformShowdown(closed, ranking)
    BY <1>2 DEF AdvanceStreet
  <2> HIDE DEF closed
  <2>2. PerformShowdown(closed, ranking).stage = "SETTLEMENT"
    BY <1>1 DEF PerformShowdown
  <2> QED BY <2>1, <2>2 DEF StreetOver
<1>3. CASE t.stage # "RIVER"
  <2>1. AdvanceStreet(t, ranking) = [closed EXCEPT !.stage = NextStage(t.stage),
                                                !.active = NextActiveFrom(t, t.dealer)]
    BY <1>3 DEF AdvanceStreet
  <2> HIDE DEF closed
  <2>2. AdvanceStreet(t, ranking).stage = NextStage(t.stage)
    BY <1>1, <2>1
  <2>3. Later(t.stage, NextStage(t.stage))
    BY <1>3 DEF InHand, ActionStage, NextStage, Later
  <2> QED BY <2>2, <2>3 DEF StreetOver
<1> QED BY <1>2, <1>3

\* A fold ends the street or passes the turn.
LEMMA FoldResolved ==
  ASSUME NEW t \in Table, InHand(t), NEW ranking
  PROVE  \/ StreetOver(t, Resolve(t, ranking))
         \/ Resolve(t, ranking) = TurnPassed(t)
<1>1. CASE Cardinality(NotFolded(t)) = 1
  <2>1. \A w : FoldWin(t, w).stage = "SETTLEMENT"
    BY DEF FoldWin, Table
  <2> QED BY <1>1, <2>1 DEF Resolve, StreetOver
<1>2. CASE Cardinality(NotFolded(t)) # 1
  BY <1>2, StreetAdvances DEF Resolve, PassTurn, TurnPassed
<1> QED BY <1>1, <1>2

\* A player sitting out who is folded after that does not bring the street back.
LEMMA FoldSitOutAfter ==
  ASSUME NEW t, NEW u, Sound(u), StreetOver(t, u), NEW ranking
  PROVE  StreetOver(t, FoldSitOut(u, ranking))
<1>1. CASE ~IsCurrentPlayerSitOut(u)
  BY <1>1 DEF FoldSitOut
<1>2. CASE IsCurrentPlayerSitOut(u)
  <2>1. FoldSitOut(u, ranking) = Resolve(Fold(u), ranking) /\ u.active \in Seat
    BY <1>2 DEF FoldSitOut, Fold, IsCurrentPlayerSitOut, Occupied
  <2>2. PICK f : f = Fold(u)
    OBVIOUS
  <2>3. f \in Table /\ f.stage = u.stage
    BY <2>1, <2>2, FoldSound DEF Sound, Fold, Table
  <2>4. InHand(f)
    BY <1>2, <2>3 DEF IsCurrentPlayerSitOut, InHand
  <2>5. TurnPassed(f).stage = f.stage
    BY <2>3 DEF TurnPassed, Table
  <2>6. StreetOver(f, Resolve(f, ranking)) \/ Resolve(f, ranking) = TurnPassed(f)
    BY <2>3, <2>4, FoldResolved
  <2>7. StreetOver(t, Resolve(f, ranking))
    BY <2>3, <2>5, <2>6 DEF StreetOver, Later
  <2> QED BY <2>1, <2>2, <2>7
<1> QED BY <1>1, <1>2

LEMMA PendingSize ==
  ASSUME NEW t
  PROVE  IsFiniteSet(Pending(t)) /\ Cardinality(Pending(t)) \in Nat
<1>1. Pending(t) \subseteq Seat
  BY DEF Pending, Owing, Live, Occupied
<1> QED BY <1>1, SeatFinite, FS_Subset, FS_CardinalityType

\* One player less is waited for.
LEMMA OneFewer ==
  ASSUME NEW t, NEW u, NEW a \in Pending(t), Pending(u) \subseteq Pending(t) \ {a}
  PROVE  Nearer(t, u)
<1>1. IsFiniteSet(Pending(t) \ {a})
  BY PendingSize, FS_Subset
<1>2. Cardinality(Pending(t) \ {a}) = Cardinality(Pending(t)) - 1
  BY PendingSize, FS_RemoveElement
<1>3. Cardinality(Pending(u)) <= Cardinality(Pending(t) \ {a})
  BY <1>1, FS_Subset
<1>4. Cardinality(Pending(u)) < Cardinality(Pending(t))
  BY <1>2, <1>3, PendingSize
<1> QED BY <1>4 DEF Nearer

LEMMA StreetOverNearer ==
  ASSUME NEW t, NEW u, StreetOver(t, u)
  PROVE  Nearer(t, u)
BY DEF StreetOver, Nearer, InHand, ActionStage

\* Once a has acted, folded or not, at most the others are waited for.
LEMMA ActedPending ==
  ASSUME NEW t \in Table, NEW u \in Table, t.active \in Seat,
         u.id = t.id, u.bet = t.bet, u.currentBet = t.currentBet,
         u.hasActed = [t.hasActed EXCEPT ![t.active] = TRUE],
         \/ u.status = [t.status EXCEPT ![t.active] = "FOLD"]
         \/ /\ u.status = t.status /\ t.status[t.active] = "ACTIVE"
            /\ t.bet[t.active] = t.currentBet
  PROVE  /\ Pending(u) = Pending(t) \ {t.active}
         /\ Owing(u) = Owing(t) \ {t.active}
<1>1. /\ t.hasActed \in [Seat -> BOOLEAN] /\ t.status \in [Seat -> Status]
      /\ t.hasActed[t.active] \in BOOLEAN
  BY DEF Table
<1>2. \A i \in Seat : /\ u.hasActed[i] = IF i = t.active THEN TRUE ELSE t.hasActed[i]
                      /\ i # t.active => u.status[i] = t.status[i]
  BY <1>1
<1>3. Occupied(u) = Occupied(t)
  BY DEF Occupied
<1>4. \/ u.status[t.active] = "FOLD"
      \/ u.status[t.active] = "ACTIVE" /\ u.bet[t.active] = u.currentBet
  <2>1. CASE u.status = [t.status EXCEPT ![t.active] = "FOLD"]
    BY <1>1, <2>1
  <2>2. CASE u.status = t.status /\ t.status[t.active] = "ACTIVE"
             /\ t.bet[t.active] = t.currentBet
    BY <2>2
  <2> QED BY <2>1, <2>2
<1>5. \A i : i \in Owing(u) <=> i \in Owing(t) \ {t.active}
  BY <1>2, <1>3, <1>4 DEF Owing, Live, Occupied
<1>6. \A i : i \in Pending(u) <=> i \in Pending(t) \ {t.active}
  BY <1>2, <1>3, <1>4, <1>5 DEF Pending, Occupied
<1> QED BY <1>5, <1>6

\* The turn does not matter to who is waited for.
LEMMA PassedPending ==
  ASSUME NEW t \in Table
  PROVE  /\ Pending(TurnPassed(t)) = Pending(t) /\ Owing(TurnPassed(t)) = Owing(t)
         /\ TurnPassed(t).active = NextActiveFrom(t, t.active)
         /\ TurnPassed(t).stage = t.stage /\ TurnPassed(t).status = t.status
BY DEF TurnPassed, Pending, Owing, Live, Occupied, Table

\* From a the next of S is no nearer than the next of a larger set; if they differ,
\* the one is that much nearer from the other.
LEMMA CloserAhead ==
  ASSUME NEW S \in SUBSET Seat, NEW L \in SUBSET Seat, S \subseteq L, S # {},
         NEW a \in Seat, NextIn(L, a) \notin S
  PROVE  /\ Ahead(NextIn(L, a), NextIn(S, NextIn(L, a))) < Ahead(a, NextIn(S, a))
         /\ 0 < Ahead(a, NextIn(S, a))
<1>1. PICK n : n = NextIn(L, a)
  OBVIOUS
<1>2. n \in L /\ n \in Seat /\ \A k \in L : Ahead(a, n) <= Ahead(a, k)
  BY <1>1, NextInType
<1>3. PICK o : o = NextIn(S, a)
  OBVIOUS
<1>4. o \in S /\ o \in Seat /\ o \in L
  BY <1>3, NextInType
<1>5. PICK q : q = NextIn(S, n)
  OBVIOUS
<1>6. q \in S /\ q \in Seat /\ Ahead(n, q) <= Ahead(n, o)
  BY <1>2, <1>4, <1>5, NextInType
<1>7. o # n /\ Ahead(a, n) <= Ahead(a, o)
  BY <1>1, <1>2, <1>4
<1>8. Ahead(n, q) < Ahead(a, o) /\ 0 < Ahead(a, o)
  <2>1. MaxPlayers \in Nat /\ a \in 0 .. MaxPlayers - 1 /\ n \in 0 .. MaxPlayers - 1
        /\ o \in 0 .. MaxPlayers - 1 /\ q \in 0 .. MaxPlayers - 1
    BY <1>2, <1>4, <1>6, SeatAssumption DEF Seat
  <2> QED BY <1>6, <1>7, <2>1 DEF Ahead
<1> QED BY <1>1, <1>3, <1>5, <1>8

\* A timeout folds a player sitting out, which ends the hand or takes him out of
\* those who are waited for.
LEMMA SitOutTimeout ==
  ASSUME NEW t, Sound(t), IsCurrentPlayerSitOut(t), NEW ranking
  PROVE  Nearer(t, FoldSitOut(t, ranking))
<1>1. /\ FoldSitOut(t, ranking) = Resolve(Fold(t), ranking)
      /\ t.active \in Pending(t) /\ t.active \in Seat /\ InHand(t)
  BY DEF FoldSitOut, Fold, IsCurrentPlayerSitOut, Occupied, Pending, InHand
<1>2. PICK f : f = Fold(t)
  OBVIOUS
<1>3. f \in Table /\ f.stage = t.stage
  BY <1>1, <1>2, FoldSound DEF Sound, Fold, Table
<1>4. Pending(f) = Pending(t) \ {t.active}
  <2>1. /\ f.id = t.id /\ f.bet = t.bet /\ f.currentBet = t.currentBet
        /\ f.hasActed = [t.hasActed EXCEPT ![t.active] = TRUE]
        /\ f.status = [t.status EXCEPT ![t.active] = "FOLD"]
    BY <1>2 DEF Fold, Sound, Table
  <2> QED BY <1>1, <1>3, <2>1, ActedPending DEF Sound
<1>5. StreetOver(f, Resolve(f, ranking)) \/ Resolve(f, ranking) = TurnPassed(f)
  BY <1>1, <1>3, FoldResolved DEF InHand
<1>6. CASE StreetOver(f, Resolve(f, ranking))
  BY <1>1, <1>2, <1>3, <1>6, StreetOverNearer DEF StreetOver
<1>7. CASE Resolve(f, ranking) = TurnPassed(f)
  <2>1. Pending(TurnPassed(f)) = Pending(f)
    BY <1>3, PassedPending
  <2> QED BY <1>1, <1>2, <1>4, <1>7, <2>1, OneFewer
<1> QED BY <1>5, <1>6, <1>7

\* The tail of processAction ends the hand or the street, or passes the turn to
\* somebody still betting.
LEMMA MoveFinished ==
  ASSUME NEW m, Sound(m), InHand(m), m.active \in Seat, NEW ranking
  PROVE  \/ StreetOver(m, Finish(m, ranking))
         \/ /\ Finish(m, ranking) = TurnPassed(m)
            /\ Owing(m) # {}
<1>0. m \in Table
  BY DEF Sound
<1>1. CASE Cardinality(NotFolded(m)) = 1
  <2>1. \A w : FoldWin(m, w).stage = "SETTLEMENT"
    BY <1>0 DEF FoldWin, Table
  <2> QED BY <1>1, <2>1 DEF Finish, Resolve, StreetOver
<1>2. CASE Cardinality(NotFolded(m)) # 1 /\ IsBettingRoundComplete(m)
  <2>1. Finish(m, ranking) = FoldSitOut(AdvanceStreet(m, ranking), ranking)
    BY <1>2 DEF Finish, PassTurn
  <2>2. StreetOver(m, AdvanceStreet(m, ranking)) /\ Sound(AdvanceStreet(m, ranking))
    BY <1>0, <1>2, StreetAdvances, AdvanceStreetSound
  <2> QED BY <2>1, <2>2, FoldSitOutAfter
<1>3. CASE Cardinality(NotFolded(m)) # 1 /\ ~IsBettingRoundComplete(m)
  <2>1. Finish(m, ranking) = FoldSitOut(TurnPassed(m), ranking)
    BY <1>3 DEF Finish, PassTurn, TurnPassed
  <2>2. Owing(m) # {} /\ Live(m) # {}
    BY <1>3 DEF IsBettingRoundComplete, Owing
  <2>3. NextActiveFrom(m, m.active) \in Live(m)
    BY <2>2, NextInType DEF NextActiveFrom, Live, Occupied
  <2>4. ~IsCurrentPlayerSitOut(TurnPassed(m))
    BY <1>0, <2>3, PassedPending DEF IsCurrentPlayerSitOut, Live
  <2> QED BY <2>1, <2>2, <2>4 DEF FoldSitOut
<1> QED BY <1>1, <1>2, <1>3

\* A timeout folds a player who has to match a bet and checks for one who has not.
LEMMA MoveTimeout ==
  ASSUME NEW t, Sound(t), InHand(t), t.active \in Live(t),
         t.bet[t.active] <= t.currentBet, NEW ranking
  PROVE  Nearer(t, Finish(IF CanCheck(t) THEN Check(t) ELSE Fold(t), ranking))
<1>0. t \in Table /\ t.active \in Seat /\ t.active \in Occupied(t)
      /\ t.status[t.active] = "ACTIVE"
  BY DEF Sound, Live, Occupied
<1>1. PICK m : m = IF CanCheck(t) THEN Check(t) ELSE Fold(t)
  OBVIOUS
<1>2. Sound(m) /\ m \in Table
  BY <1>0, <1>1, CheckSound, FoldSound DEF Sound
<1>3. /\ m.id = t.id /\ m.bet = t.bet /\ m.currentBet = t.currentBet
      /\ m.active = t.active /\ m.stage = t.stage
      /\ m.hasActed = [t.hasActed EXCEPT ![t.active] = TRUE]
  BY <1>0, <1>1 DEF Check, Fold, Table
<1>4. \/ m.status = [t.status EXCEPT ![t.active] = "FOLD"] /\ ~CanCheck(t)
      \/ m.status = t.status /\ CanCheck(t)
  BY <1>0, <1>1 DEF Check, Fold, Table
<1>5. t.bet[t.active] \in Nat /\ t.currentBet \in Nat
  BY <1>0 DEF Table
<1>6. CanCheck(t) => t.bet[t.active] = t.currentBet
  BY <1>5 DEF CanCheck
<1>7. /\ Pending(m) = Pending(t) \ {t.active}
      /\ Owing(m) = Owing(t) \ {t.active}
  BY <1>0, <1>2, <1>3, <1>4, <1>6, ActedPending
<1>8. \/ StreetOver(m, Finish(m, ranking))
      \/ Finish(m, ranking) = TurnPassed(m) /\ Owing(m) # {}
  BY <1>0, <1>2, <1>3, MoveFinished DEF InHand
<1>9. CASE StreetOver(m, Finish(m, ranking))
  BY <1>1, <1>3, <1>9, StreetOverNearer DEF StreetOver
<1>10. CASE Finish(m, ranking) = TurnPassed(m) /\ Owing(m) # {} /\ t.active \in Pending(t)
  <2>1. Pending(TurnPassed(m)) = Pending(m)
    BY <1>2, PassedPending
  <2> QED BY <1>1, <1>7, <1>10, <2>1, OneFewer
<1>11. CASE Finish(m, ranking) = TurnPassed(m) /\ Owing(m) # {} /\ t.active \notin Pending(t)
  <2>1. Owing(t) = Owing(m) /\ Pending(t) = Pending(m)
    <3>1. t.active \notin Owing(t)
      BY <1>11 DEF Pending
    <3> QED BY <1>7, <1>11, <3>1
  <2>2. PICK u : u = TurnPassed(m)
    OBVIOUS
  <2>3. Owing(u) = Owing(t) /\ Pending(u) = Pending(t)
        /\ u.active = NextIn(Live(m), t.active)
    BY <1>2, <1>3, <2>1, <2>2, PassedPending DEF NextActiveFrom
  <2>4. Owing(t) \subseteq Live(m) /\ Owing(t) # {} /\ Live(m) \subseteq Seat
    BY <1>11, <2>1 DEF Owing, Live, Occupied
  <2>5. Owing(t) \subseteq Pending(t)
    BY DEF Pending
  <2>6. Detour(t) = Ahead(t.active, NextIn(Owing(t), t.active))
    BY <1>11, <2>4 DEF Detour
  <2>7. CASE u.active \in Owing(t)
    <3>1. Detour(u) = 0
      BY <2>3, <2>5, <2>7 DEF Detour
    <3>2. 0 < Detour(t)
      <4>1. NextIn(Owing(t), t.active) \in Seat
        BY <1>0, <2>4, NextInType
      <4>2. t.active \in 0 .. MaxPlayers - 1
            /\ NextIn(Owing(t), t.active) \in 0 .. MaxPlayers - 1 /\ MaxPlayers \in Nat
        BY <1>0, <4>1, SeatAssumption DEF Seat
      <4> QED BY <2>6, <4>2 DEF Ahead
    <3> QED BY <1>1, <1>11, <2>2, <2>3, <3>1, <3>2 DEF Nearer
  <2>8. CASE u.active \notin Owing(t)
    <3>1. /\ Ahead(u.active, NextIn(Owing(t), u.active)) < Detour(t)
          /\ 0 < Detour(t)
      BY <1>0, <2>3, <2>4, <2>6, <2>8, CloserAhead
    <3>2. Detour(u) = 0 \/ Detour(u) = Ahead(u.active, NextIn(Owing(t), u.active))
      BY <2>3, <2>4 DEF Detour
    <3> QED BY <1>1, <1>11, <2>2, <2>3, <3>1, <3>2 DEF Nearer
  <2> QED BY <2>7, <2>8
<1> QED BY <1>8, <1>9, <1>10, <1>11

\* finalizeActionTimeout leaves no hand where it was, for any number of seats: as
\* long as no bet is above the current one, each timeout ends the hand or its
\* street, removes somebody who was waited for, or brings the turn closer to him.
THEOREM TimeoutsAlwaysProgress == Spec => []TimeoutsProgress
<1>1. IInv => TimeoutsProgress
  <2> SUFFICES ASSUME IInv, TimeoutDue, ~Overbet, NEW ranking \in Deals
               PROVE  Nearer(table, TimedOut(ranking))
    BY DEF TimeoutsProgress
  <2>1. Sound(table) /\ InHand(table) /\ table.active \in Occupied(table)
        /\ table.status[table.active] \in {"ACTIVE", "SITOUT"}
    BY DEF IInv, TimeoutDue, InHand
  <2>2. CASE IsCurrentPlayerSitOut(table)
    BY <2>1, <2>2, SitOutTimeout DEF TimedOut
  <2>3. CASE ~IsCurrentPlayerSitOut(table)
    <3>1. table.active \in Live(table)
      BY <2>1, <2>3 DEF IsCurrentPlayerSitOut, InHand, Live
    <3>2. table.active \in Seat /\ table \in Table
      BY <2>1 DEF Sound, Occupied
    <3>3. table.bet[table.active] \in Nat /\ table.currentBet \in Nat
      BY <3>2 DEF Table
    <3>4. table.bet[table.active] <= table.currentBet
      BY <3>1, <3>3 DEF Overbet
    <3> QED BY <2>1, <2>3, <3>1, <3>4, MoveTimeout DEF TimedOut
  <2> QED BY <2>2, <2>3
<1> QED BY <1>1, Invariance, PTL

----------------------------------------------------------------------------
(***************************************************************************)
(* One player's page (RoomPage).  PageCurrent is not inductive: a socket   *)
(* that is in the room without its player, or a closed page that still has *)
(* one, would let the next page believe it is current.  PageInv adds what  *)
(* that rests on (Attached), that nobody sits twice, and that what the     *)
(* page shows of the turn of Me, and what it asked in that turn, stay true *)
(* as long as the turn lasts.                                              *)
(***************************************************************************)

\* Nobody has sat down or left and nobody's contribution to the hand has changed.
SameBets(t, u) == u.id = t.id /\ u.totalBet = t.totalBet

LEMMA AdvanceStreetBets ==
  ASSUME NEW t \in Table, NEW ranking
  PROVE  SameBets(t, AdvanceStreet(t, ranking))
<1> DEFINE closed == [t EXCEPT !.bet = Zero, !.hasActed = False,
                               !.currentBet = 0, !.minBet = BigBlind]
<1>1. DOMAIN closed = DOMAIN t /\ closed.id = t.id /\ closed.totalBet = t.totalBet
  BY DEF Table
<1>2. CASE t.stage = "RIVER"
  <2>1. AdvanceStreet(t, ranking) = PerformShowdown(closed, ranking)
    BY <1>2 DEF AdvanceStreet
  <2> HIDE DEF closed
  <2> QED BY <1>1, <2>1 DEF PerformShowdown, SameBets
<1>3. CASE t.stage # "RIVER"
  <2>1. AdvanceStreet(t, ranking) = [closed EXCEPT !.stage = NextStage(t.stage),
                                                   !.active = NextActiveFrom(t, t.dealer)]
    BY <1>3 DEF AdvanceStreet
  <2> HIDE DEF closed
  <2> QED BY <1>1, <2>1 DEF SameBets
<1> QED BY <1>2, <1>3

LEMMA ResolveBets ==
  ASSUME NEW t \in Table, NEW ranking
  PROVE  SameBets(t, PassTurn(t, ranking)) /\ SameBets(t, Resolve(t, ranking))
<1>1. SameBets(t, [t EXCEPT !.active = NextActiveFrom(t, t.active)])
  BY DEF SameBets, Table
<1>2. SameBets(t, PassTurn(t, ranking))
  BY <1>1, AdvanceStreetBets DEF PassTurn
<1>3. \A w : SameBets(t, FoldWin(t, w))
  BY DEF FoldWin, SameBets, Table
<1> QED BY <1>2, <1>3 DEF Resolve

LEMMA FoldSitOutBets ==
  ASSUME NEW t, Sound(t), NEW ranking
  PROVE  SameBets(t, FoldSitOut(t, ranking))
<1>1. CASE ~IsCurrentPlayerSitOut(t)
  BY <1>1 DEF FoldSitOut, SameBets
<1>2. CASE IsCurrentPlayerSitOut(t)
  <2>1. FoldSitOut(t, ranking) = Resolve(Fold(t), ranking) /\ t.active \in Seat
    BY <1>2 DEF FoldSitOut, Fold, IsCurrentPlayerSitOut, Occupied
  <2>2. PICK f : f = Fold(t)
    OBVIOUS
  <2>3. f \in Table /\ SameBets(t, f)
    BY <2>1, <2>2, FoldSound DEF Sound, Fold, Table, SameBets
  <2> QED BY <2>1, <2>2, <2>3, ResolveBets DEF SameBets
<1> QED BY <1>1, <1>2

LEMMA FinishBets ==
  ASSUME NEW t, Sound(t), NEW ranking
  PROVE  SameBets(t, Finish(t, ranking))
<1>1. SameBets(t, Resolve(t, ranking))
  BY ResolveBets DEF Sound
<1>2. PICK u : u = PassTurn(t, ranking)
  OBVIOUS
<1>3. SameBets(t, u) /\ (Cardinality(NotFolded(t)) # 1 => Sound(u))
  BY <1>2, ResolveBets, PassTurnSound DEF Sound
<1>4. Cardinality(NotFolded(t)) # 1 => SameBets(t, FoldSitOut(u, ranking))
  BY <1>3, FoldSitOutBets DEF SameBets
<1> QED BY <1>1, <1>2, <1>4 DEF Finish

\* What a player puts in is his contribution.
LEMMA PutInBets ==
  ASSUME NEW t \in Table, t.active \in Seat, NEW x \in Int
  PROVE  LET u == PutIn(t, x) IN
         /\ DOMAIN u = DOMAIN t /\ u.id = t.id
         /\ u.totalBet[t.active] = t.totalBet[t.active] + x
BY DEF PutIn, Table

LEMMA MoveBets ==
  ASSUME NEW t \in Table, t.active \in Seat, NEW amount \in Nat
  PROVE  LET a == t.active IN
         /\ SameBets(t, Fold(t)) /\ SameBets(t, Check(t))
         /\ /\ Call(t).id = t.id
            /\ Call(t).totalBet[a] = t.totalBet[a] + CallAmount(t)
         /\ /\ Raise(t, amount).id = t.id
            /\ Raise(t, amount).totalBet[a]
                 = t.totalBet[a] + Least(amount - t.bet[a], t.stack[a])
         /\ AllIn(t).id = t.id
         /\ /\ Straddle(t).id = t.id
            /\ Straddle(t).totalBet[a] = t.totalBet[a] + (2 * BigBlind - t.bet[a])
<1> DEFINE a == t.active
<1>1. /\ t.bet[a] \in Nat /\ t.stack[a] \in Nat /\ t.currentBet \in Nat
      /\ BigBlind \in Nat
      /\ {"id", "totalBet", "calledAllIn", "minBet", "currentBet",
          "hasActed", "active", "straddled"} \subseteq DOMAIN t
  BY BlindAssumption DEF Table
<1>2. SameBets(t, Fold(t)) /\ SameBets(t, Check(t))
  BY DEF Fold, Check, SameBets, Table
<1>3. \A u : {"id", "totalBet", "hasActed"} \subseteq DOMAIN u =>
        ReopenAction(u).id = u.id /\ ReopenAction(u).totalBet = u.totalBet
  BY DEF ReopenAction
<1>4. Call(t).id = t.id /\ Call(t).totalBet[a] = t.totalBet[a] + CallAmount(t)
  <2>1. CallAmount(t) \in Int
    BY <1>1 DEF CallAmount, Least
  <2>2. PICK u : u = PutIn(t, CallAmount(t))
    OBVIOUS
  <2>3. DOMAIN u = DOMAIN t /\ u.id = t.id /\ u.totalBet[a] = t.totalBet[a] + CallAmount(t)
    BY <2>1, <2>2, PutInBets
  <2>4. Call(t) \in {u, [u EXCEPT !.calledAllIn = u.bet[a]]}
    BY <2>2 DEF Call
  <2> QED BY <1>1, <2>3, <2>4
<1>5. /\ Raise(t, amount).id = t.id
      /\ Raise(t, amount).totalBet[a] = t.totalBet[a] + Least(amount - t.bet[a], t.stack[a])
  <2>1. Least(amount - t.bet[a], t.stack[a]) \in Int
    BY <1>1 DEF Least
  <2>2. PICK u : u = PutIn(t, Least(amount - t.bet[a], t.stack[a]))
    OBVIOUS
  <2>3. DOMAIN u = DOMAIN t /\ u.id = t.id
        /\ u.totalBet[a] = t.totalBet[a] + Least(amount - t.bet[a], t.stack[a])
    BY <2>1, <2>2, PutInBets
  <2>4. PICK v : v = [u EXCEPT !.minBet = amount - t.currentBet, !.currentBet = u.bet[a],
                               !.calledAllIn = NoAllIn]
    OBVIOUS
  <2>5. v.id = u.id /\ v.totalBet = u.totalBet
        /\ {"id", "totalBet", "hasActed"} \subseteq DOMAIN v
    BY <1>1, <2>3, <2>4
  <2>6. Raise(t, amount) = ReopenAction(v)
    BY <2>2, <2>4 DEF Raise
  <2> QED BY <1>3, <2>3, <2>5, <2>6
<1>6. AllIn(t).id = t.id
  <2>1. PICK u : u = PutIn(t, t.stack[a])
    OBVIOUS
  <2>2. DOMAIN u = DOMAIN t /\ u.id = t.id
    BY <1>1, <2>1, PutInBets
  <2>3. PICK v : v = [u EXCEPT !.minBet = u.bet[a] - t.currentBet, !.currentBet = u.bet[a],
                               !.calledAllIn = NoAllIn]
    OBVIOUS
  <2>4. v.id = u.id /\ {"id", "totalBet", "hasActed"} \subseteq DOMAIN v
    BY <1>1, <2>2, <2>3
  <2>5. \/ AllIn(t) = ReopenAction(v)
        \/ \E c : AllIn(t) = [u EXCEPT !.calledAllIn = c]
    BY <2>1, <2>3 DEF AllIn
  <2> QED BY <1>1, <1>3, <2>2, <2>4, <2>5
<1>7. /\ Straddle(t).id = t.id
      /\ Straddle(t).totalBet[a] = t.totalBet[a] + (2 * BigBlind - t.bet[a])
  <2>1. 2 * BigBlind - t.bet[a] \in Int
    BY <1>1
  <2>2. PICK u : u = PutIn(t, 2 * BigBlind - t.bet[a])
    OBVIOUS
  <2>3. DOMAIN u = DOMAIN t /\ u.id = t.id
        /\ u.totalBet[a] = t.totalBet[a] + (2 * BigBlind - t.bet[a])
    BY <2>1, <2>2, PutInBets
  <2>4. PICK v : v = [u EXCEPT !.currentBet = 2 * BigBlind, !.minBet = BigBlind,
                               !.straddled = TRUE]
    OBVIOUS
  <2>5. DOMAIN v = DOMAIN u /\ v.id = u.id /\ v.totalBet = u.totalBet
    BY <1>1, <2>3, <2>4
  <2>6. PICK w : w = ReopenAction(v)
    OBVIOUS
  <2>7. w.id = v.id /\ w.totalBet = v.totalBet /\ DOMAIN w = DOMAIN v
    BY <1>1, <1>3, <2>3, <2>5, <2>6 DEF ReopenAction
  <2>8. Straddle(t) = [w EXCEPT !.active = NextActiveFrom(v, a)]
    BY <2>2, <2>4, <2>6 DEF Straddle
  <2> QED BY <1>1, <2>3, <2>5, <2>7, <2>8
<1> QED BY <1>2, <1>4, <1>5, <1>6, <1>7

LEMMA SitOutBets ==
  ASSUME NEW t, Sound(t), t.active \in Seat, NEW ranking
  PROVE  SameBets(t, SitOut(t, ranking))
<1>1. PICK u : u = [t EXCEPT !.status[t.active] = "SITOUT"]
  OBVIOUS
<1>2. t.hasActed \in [Seat -> BOOLEAN]
  BY DEF Sound, Table
<1>3. Sound([t EXCEPT !.status[t.active] = "SITOUT", !.hasActed = t.hasActed])
  BY <1>2, OutSound
<1>4. u = [t EXCEPT !.status[t.active] = "SITOUT", !.hasActed = t.hasActed]
  BY <1>1 DEF Sound, Table
<1>5. Sound(u) /\ SameBets(t, u)
  BY <1>1, <1>3, <1>4 DEF SameBets, Sound, Table
<1>6. SameBets(u, FoldSitOut(u, ranking))
  BY <1>5, FoldSitOutBets
<1> QED BY <1>1, <1>5, <1>6 DEF SitOut, SameBets

----------------------------------------------------------------------------
(* Who sits at the table *)

\* Nobody sits twice.
SitsOnce(t) == \A i, j \in Seat : t.id[i] # Nobody /\ t.id[i] = t.id[j] => i = j

\* While the turn of Me goes on, so do its figures.
MineStays(t, u) ==
  InTurn(t) /\ InTurn(u) /\ u.stage = t.stage =>
    u.active = t.active /\ u.bet[t.active] = t.bet[t.active] /\ u.currentBet = t.currentBet

\* The player in turn sits on the active seat.
LEMMA MySeat ==
  ASSUME NEW t, SitsOnce(t), InTurn(t)
  PROVE  /\ t.active \in Seat /\ t.id[t.active] = Me /\ HasPlayer(t, Me)
         /\ SeatOf(t, Me) = t.active
<1>1. t.active \in Seat /\ t.id[t.active] = Me
  BY DEF InTurn, TurnOf
<1>2. HasPlayer(t, Me)
  BY <1>1 DEF HasPlayer
<1>3. SeatOf(t, Me) \in Seat /\ t.id[SeatOf(t, Me)] = Me /\ Me # Nobody
  BY <1>2, SeatOfType, PageAssumption, NobodyAssumption
<1> QED BY <1>1, <1>2, <1>3 DEF SitsOnce

LEMMA JoinRoomSeats ==
  ASSUME IInv, IInv', SitsOnce(table), NEW p \in Player, JoinRoom(p)
  PROVE  /\ SitsOnce(table') /\ HasPlayer(table', p) /\ MineStays(table, table')
         /\ \A q \in Player : HasPlayer(table, q) => HasPlayer(table', q)
<1> DEFINE i == First(Seat \ Occupied(table))
<1>1. i \in Seat /\ table.id[i] = Nobody
  <2> DEFINE free == Seat \ Occupied(table)
  <2>1. free \in SUBSET Nat /\ free # {}
    BY DEF JoinRoom, Seat
  <2>2. First(free) \in free
    BY <2>1, FirstType
  <2> QED BY <2>2 DEF Occupied
<1>2. table' = AddPlayer(table, i, p, wallet[p]) /\ ~HasPlayer(table, p)
  BY DEF JoinRoom
<1> HIDE DEF i
<1>3. /\ table'.id = [table.id EXCEPT ![i] = p] /\ table'.active = table.active
      /\ table'.bet = table.bet /\ table'.currentBet = table.currentBet
  BY <1>2 DEF AddPlayer, IInv, Sound, Table
<1>4. /\ table'.id[i] = p /\ \A j \in Seat \ {i} : table'.id[j] = table.id[j]
      /\ \A j \in Seat : table.id[j] # p
  BY <1>1, <1>2, <1>3 DEF IInv, Sound, Table, HasPlayer
<1>5. SitsOnce(table')
  BY <1>4 DEF SitsOnce
<1>6. HasPlayer(table', p)
  BY <1>1, <1>4 DEF HasPlayer
<1>7. \A q \in Player : HasPlayer(table, q) => HasPlayer(table', q)
  BY <1>1, <1>4, NobodyAssumption DEF HasPlayer
<1> QED BY <1>3, <1>5, <1>6, <1>7 DEF MineStays

\* When somebody leaves, his fold ends the street or passes the turn at most.
LEMMA FoldPlayerOnLeaveBets ==
  ASSUME NEW t, Sound(t), NEW i \in Seat, NEW ranking
  PROVE  LET f == FoldPlayerOnLeave(t, i, ranking) IN
         /\ SameBets(t, f)
         /\ \/ StreetOver(t, f)
            \/ f.stage = t.stage /\ f.bet = t.bet /\ f.currentBet = t.currentBet
<1> DEFINE f == FoldPlayerOnLeave(t, i, ranking)
<1>1. CASE f = t
  BY <1>1 DEF SameBets
<1>2. CASE f # t
  <2>1. PICK u : u = [t EXCEPT !.status[i] = "FOLD"]
    OBVIOUS
  <2>2. t.hasActed \in [Seat -> BOOLEAN]
    BY DEF Sound, Table
  <2>3. Sound([t EXCEPT !.status[i] = "FOLD", !.hasActed = t.hasActed])
    BY <2>2, OutSound
  <2>4. u = [t EXCEPT !.status[i] = "FOLD", !.hasActed = t.hasActed]
    BY <2>1 DEF Sound, Table
  <2>5. u \in Table /\ SameBets(t, u) /\ u.stage = t.stage /\ u.bet = t.bet
        /\ u.currentBet = t.currentBet
    BY <2>1, <2>3, <2>4 DEF Sound, Table, SameBets
  <2>6. f \in {u, Resolve(u, ranking)} /\ InHand(u)
    BY <1>2, <2>1, <2>5 DEF FoldPlayerOnLeave, InHand
  <2>7. PICK r : r = Resolve(u, ranking)
    OBVIOUS
  <2>8. SameBets(u, r) /\ (StreetOver(u, r) \/ r = TurnPassed(u))
    BY <2>5, <2>6, <2>7, ResolveBets, FoldResolved
  <2>9. r = TurnPassed(u) => r.stage = u.stage /\ r.bet = u.bet /\ r.currentBet = u.currentBet
    BY <2>5 DEF TurnPassed, Table
  <2> QED BY <2>5, <2>6, <2>7, <2>8, <2>9 DEF SameBets, StreetOver
<1> QED BY <1>1, <1>2

LEMMA LeaveRoomSeats ==
  ASSUME IInv, IInv', SitsOnce(table), NEW p \in Player, LeaveRoom(p)
  PROVE  /\ SitsOnce(table') /\ (p # Me => MineStays(table, table'))
         /\ \A q \in Player \ {p} : HasPlayer(table, q) => HasPlayer(table', q)
<1> DEFINE i == SeatOf(table, p)
<1>1. i \in Seat /\ table.id[i] = p /\ p # Nobody
  BY SeatOfType, NobodyAssumption DEF LeaveRoom
<1>2. PICK ranking \in Deals :
        table' = IF Occupied(table) = {i} THEN NewTable
                 ELSE RemovePlayer(FoldPlayerOnLeave(table, i, ranking), i)
  BY DEF LeaveRoom
<1> HIDE DEF i
<1>3. PICK f : f = FoldPlayerOnLeave(table, i, ranking)
  OBVIOUS
<1>4. /\ Sound(f) /\ SameBets(table, f)
      /\ \/ StreetOver(table, f)
         \/ f.stage = table.stage /\ f.bet = table.bet /\ f.currentBet = table.currentBet
  BY <1>1, <1>3, FoldPlayerOnLeaveSound, FoldPlayerOnLeaveBets DEF IInv
<1>5. CASE Occupied(table) = {i}
  <2>1. table'.stage = "WAITING" /\ \A j \in Seat : table'.id[j] = Nobody
    BY <1>2, <1>5 DEF NewTable
  <2>2. \A q \in Player \ {p} : ~HasPlayer(table, q)
    BY <1>1, <1>5, NobodyAssumption DEF HasPlayer, Occupied
  <2> QED BY <2>1, <2>2 DEF SitsOnce, MineStays, InTurn, ActionStage
<1>6. CASE Occupied(table) # {i}
  <2>1. table' = RemovePlayer(f, i)
    BY <1>2, <1>3, <1>6
  <2>2. /\ table'.id = [table.id EXCEPT ![i] = Nobody] /\ table'.stage = f.stage
        /\ table'.currentBet = f.currentBet /\ table'.bet = [f.bet EXCEPT ![i] = 0]
    BY <1>4, <2>1 DEF RemovePlayer, Sound, Table, SameBets
  <2>3. /\ table'.id[i] = Nobody /\ \A j \in Seat \ {i} : table'.id[j] = table.id[j]
        /\ \A j \in Seat \ {i} : table'.bet[j] = f.bet[j]
    BY <1>1, <1>4, <2>2 DEF IInv, Sound, Table
  <2>4. SitsOnce(table')
    BY <2>3 DEF SitsOnce
  <2>5. \A q \in Player \ {p} : HasPlayer(table, q) => HasPlayer(table', q)
    BY <1>1, <2>3 DEF HasPlayer
  <2>6. ASSUME p # Me, InTurn(table), InTurn(table'), table'.stage = table.stage
        PROVE  /\ table'.active = table.active /\ table'.currentBet = table.currentBet
               /\ table'.bet[table.active] = table.bet[table.active]
    <3>1. ~StreetOver(table, f)
      BY <2>2, <2>6 DEF StreetOver, Later, InTurn, ActionStage
    <3>2. /\ table.active \in Seat /\ table.id[table.active] = Me
          /\ table'.active \in Seat /\ table'.id[table'.active] = Me
      BY <2>6 DEF InTurn, TurnOf
    <3>3. Me # Nobody
      BY PageAssumption, NobodyAssumption
    <3>4. table'.active # i /\ table.active # i
      BY <1>1, <2>3, <2>6, <3>2, <3>3
    <3>5. table'.active = table.active
      BY <2>3, <3>2, <3>3, <3>4 DEF SitsOnce
    <3> QED BY <1>4, <2>2, <2>3, <3>1, <3>2, <3>4, <3>5
  <2> QED BY <2>4, <2>5, <2>6 DEF MineStays
<1> QED BY <1>5, <1>6

LEMMA PlaySeats ==
  ASSUME NEW m, Sound(m), Play(m)
  PROVE  table'.id = m.id /\ table'.totalBet = m.totalBet
BY FinishBets DEF Play, SameBets

LEMMA StartHandSeats ==
  ASSUME NEW t \in Table
  PROVE  StartHand(t).id = t.id /\ BeginReadyCountdown(t).id = t.id
BY DEF StartHand, BeginReadyCountdown, Table

LEMMA PlayerReadySeats ==
  ASSUME IInv, NEW p \in Player, PlayerReady(p)
  PROVE  table'.id = table.id /\ table.stage = "WAITING"
<1>1. PICK toggled : toggled = [table EXCEPT !.ready[SeatOf(table, p)] = ~@]
  OBVIOUS
<1>2. Sound(toggled) /\ toggled.id = table.id
  BY <1>1, SeatOfType, ToggleSound DEF PlayerReady, IInv, Sound, Table
<1>3. table' \in {toggled, StartHand(toggled), BeginReadyCountdown(toggled)}
      /\ table.stage = "WAITING"
  BY <1>1 DEF PlayerReady
<1> QED BY <1>2, <1>3, StartHandSeats DEF Sound

LEMMA TimerSeats ==
  ASSUME IInv, ReadyCountdownExpires \/ SettlementExpires
  PROVE  table'.id = table.id /\ table.stage \in {"WAITING", "SETTLEMENT"}
<1>1. CASE ReadyCountdownExpires
  <2>1. PICK u : u = [table EXCEPT !.countdown = FALSE]
    OBVIOUS
  <2>2. Sound(u) /\ u.id = table.id
    BY <2>1, CountdownSound DEF IInv, Sound, Table
  <2>3. table' \in {u, StartHand(u)} /\ table.stage = "WAITING"
    BY <1>1, <2>1 DEF ReadyCountdownExpires, StartHandIfReady
  <2> QED BY <2>2, <2>3, StartHandSeats DEF Sound
<1>2. CASE SettlementExpires
  <2>1. PICK u : u = ResetToWaiting(table)
    OBVIOUS
  <2>2. Sound(u) /\ u.id = table.id
    BY <2>1, ResetToWaitingSound, ResetToWaitingChips DEF IInv, Sound
  <2>3. table' = BeginReadyCountdown(u) /\ table.stage = "SETTLEMENT"
    BY <1>2, <2>1 DEF SettlementExpires
  <2> QED BY <2>2, <2>3, StartHandSeats DEF Sound
<1> QED BY <1>1, <1>2

LEMMA ShowCardsSeats ==
  ASSUME IInv, NEW p \in Player, ShowCards(p)
  PROVE  table'.id = table.id /\ table.stage = "SETTLEMENT"
BY DEF ShowCards, RevealFoldWinnerCards, IInv, Sound, Table

LEMMA ActionTimeoutSeats ==
  ASSUME IInv, ActionTimeout
  PROVE  table'.id = table.id
<1>1. table.active \in Seat /\ table \in Table
  BY DEF ActionTimeout, TimeoutDue, Occupied, IInv, Sound
<1>2. CASE \E ranking \in Deals : table' = FoldSitOut(table, ranking)
  BY <1>2, FoldSitOutBets DEF SameBets, IInv
<1>3. CASE Play(IF CanCheck(table) THEN Check(table) ELSE Fold(table))
  <2>1. Sound(Check(table)) /\ Sound(Fold(table))
    BY <1>1, CheckSound, FoldSound DEF IInv
  <2>2. Check(table).id = table.id /\ Fold(table).id = table.id
    BY <1>1 DEF Check, Fold, Table
  <2> QED BY <1>3, <2>1, <2>2, PlaySeats
<1> QED BY <1>2, <1>3 DEF ActionTimeout, TimedOut, Play

\* What the player in turn pays, by what he does.
LEMMA PlayerPays ==
  ASSUME IInv, NEW p \in Player, TurnOf(table, p)
  PROVE  LET a == table.active
             cost == table'.totalBet[a] - table.totalBet[a]
         IN  /\ PlayerFold(p) \/ PlayerCheck(p) \/ PlayerSitOut(p) =>
                  table'.id = table.id /\ cost = 0
             /\ PlayerCall(p) => table'.id = table.id /\ cost = CallAmount(table)
             /\ \A amount \in Nat : CanRaise(table, amount) /\ Play(Raise(table, amount)) =>
                  /\ table'.id = table.id
                  /\ cost = Least(amount - table.bet[a], table.stack[a])
             /\ PlayerAllIn(p) => table'.id = table.id
             /\ PlayerStraddle(p) => table'.id = table.id /\ cost = 2 * BigBlind - table.bet[a]
<1> DEFINE a == table.active
           cost == table'.totalBet[a] - table.totalBet[a]
<1>1. a \in Seat /\ Sound(table) /\ table \in Table /\ 0 \in Nat
      /\ table.totalBet[a] \in Nat /\ table.bet[a] \in Nat /\ table.stack[a] \in Nat
      /\ table.currentBet \in Nat /\ BigBlind \in Nat
  BY BlindAssumption DEF TurnOf, IInv, Sound, Table
<1>2. /\ SameBets(table, Fold(table)) /\ SameBets(table, Check(table))
      /\ /\ Call(table).id = table.id
         /\ Call(table).totalBet[a] = table.totalBet[a] + CallAmount(table)
      /\ AllIn(table).id = table.id
      /\ /\ Straddle(table).id = table.id
         /\ Straddle(table).totalBet[a] = table.totalBet[a] + (2 * BigBlind - table.bet[a])
  BY <1>1, MoveBets
<1>3. ASSUME PlayerFold(p) PROVE table'.id = table.id /\ cost = 0
  <2>1. Sound(Fold(table)) /\ Play(Fold(table))
    BY <1>1, <1>3, FoldSound DEF PlayerFold
  <2> QED BY <1>1, <1>2, <2>1, PlaySeats DEF SameBets
<1>4. ASSUME PlayerCheck(p) PROVE table'.id = table.id /\ cost = 0
  <2>1. Sound(Check(table)) /\ Play(Check(table))
    BY <1>1, <1>4, CheckSound DEF PlayerCheck
  <2> QED BY <1>1, <1>2, <2>1, PlaySeats DEF SameBets
<1>5. ASSUME PlayerSitOut(p) PROVE table'.id = table.id /\ cost = 0
  <2>1. PICK ranking \in Deals : table' = SitOut(table, ranking)
    BY <1>5 DEF PlayerSitOut
  <2> QED BY <1>1, <2>1, SitOutBets DEF SameBets
<1>6. ASSUME PlayerCall(p) PROVE table'.id = table.id /\ cost = CallAmount(table)
  <2>1. Sound(Call(table)) /\ Play(Call(table))
    BY <1>1, <1>6, CallSound DEF PlayerCall
  <2>2. CallAmount(table) \in Int
    BY <1>1 DEF CallAmount, Least
  <2> QED BY <1>1, <1>2, <2>1, <2>2, PlaySeats
<1>7. ASSUME NEW amount \in Nat, CanRaise(table, amount), Play(Raise(table, amount))
      PROVE  table'.id = table.id /\ cost = Least(amount - table.bet[a], table.stack[a])
  <2>1. Sound(Raise(table, amount))
    BY <1>1, <1>7, RaiseSound
  <2>2. /\ Raise(table, amount).id = table.id
        /\ Raise(table, amount).totalBet[a]
             = table.totalBet[a] + Least(amount - table.bet[a], table.stack[a])
    BY <1>1, MoveBets
  <2>3. Least(amount - table.bet[a], table.stack[a]) \in Int
    BY <1>1 DEF Least
  <2> QED BY <1>1, <1>7, <2>1, <2>2, <2>3, PlaySeats
<1>8. ASSUME PlayerAllIn(p) PROVE table'.id = table.id
  <2>1. Sound(AllIn(table)) /\ Play(AllIn(table))
    BY <1>1, <1>8, AllInSound DEF PlayerAllIn
  <2> QED BY <1>2, <2>1, PlaySeats
<1>9. ASSUME PlayerStraddle(p)
      PROVE  table'.id = table.id /\ cost = 2 * BigBlind - table.bet[a]
  BY <1>1, <1>2, <1>9 DEF PlayerStraddle
<1> QED BY <1>3, <1>4, <1>5, <1>6, <1>7, <1>8, <1>9

LEMMA PlayerActsSeats ==
  ASSUME IInv, NEW p \in Player, PlayerActs(p)
  PROVE  table'.id = table.id /\ TurnOf(table, p)
<1>1. TurnOf(table, p)
  BY DEF PlayerActs, PlayerFold, PlayerCheck, PlayerCall, PlayerAllIn, PlayerRaise,
         PlayerStraddle, PlayerSitOut, MayBet
<1>2. CASE PlayerRaise(p)
  <2>1. PICK amount \in RaiseTo : CanRaise(table, amount) /\ Play(Raise(table, amount))
    BY <1>2 DEF PlayerRaise
  <2> QED BY <1>1, <2>1, PlayerPays, StakesAssumption
<1>3. CASE ~PlayerRaise(p)
  BY <1>1, <1>3, PlayerPays DEF PlayerActs
<1> QED BY <1>1, <1>2, <1>3

----------------------------------------------------------------------------
(* What the page knows *)

\* What an update says of the turn of Me holds as long as that turn lasts.
Figures(t, v) ==
  v.turn = "live" =>
    /\ InTurn(t)
    /\ v.bet = t.bet[t.active]
    /\ v.owe = Owes(t, t.active)

\* The price of a click made in the turn of Me is the price as long as it lasts.
Costed(t, c) ==
  c.kind \in TurnClick /\ c.turn = "live" =>
    /\ InTurn(t)
    /\ c.kind = "call" => c.price = Owes(t, t.active)
    /\ c.kind = "raise" => c.price = c.amount - t.bet[t.active]
    /\ c.kind = "straddle" => c.price = 2 * BigBlind - t.bet[t.active]
    /\ c.kind \in {"fold", "check", "sit-out", "all-in"} => c.price = 0

AllCosted(t, s) == \A k \in DOMAIN s : Costed(t, s[k])

NoJoin(s) == \A k \in DOMAIN s : s[k].kind # "join"

\* The next event on its way is handled.
LEMMA TailClicks ==
  ASSUME NEW s \in Seq(ClickShape), s # << >>
  PROVE  /\ Head(s) \in ClickShape /\ Tail(s) \in Seq(ClickShape)
         /\ \A t : AllCosted(t, s) => Costed(t, Head(s)) /\ AllCosted(t, Tail(s))
         /\ Head(s).kind # "join" /\ NoJoin(Tail(s)) => NoJoin(s)
<1>1. /\ Len(s) \in Nat /\ Len(s) # 0 /\ DOMAIN s = 1 .. Len(s) /\ Head(s) = s[1]
      /\ Tail(s) \in Seq(ClickShape) /\ DOMAIN Tail(s) = 1 .. Len(s) - 1
      /\ \A k \in 1 .. Len(s) - 1 : Tail(s)[k] = s[k + 1]
  BY HeadTailProperties, EmptySeq, ElementOfSeq
<1>2. Head(s) \in ClickShape
  BY HeadTailProperties
<1>3. ASSUME NEW t, AllCosted(t, s) PROVE Costed(t, Head(s)) /\ AllCosted(t, Tail(s))
  BY <1>1, <1>3 DEF AllCosted
<1>4. ASSUME Head(s).kind # "join", NoJoin(Tail(s)) PROVE NoJoin(s)
  <2> SUFFICES ASSUME NEW k \in 1 .. Len(s) PROVE s[k].kind # "join"
    BY <1>1 DEF NoJoin
  <2>1. CASE k = 1
    BY <1>1, <1>4, <2>1
  <2>2. CASE k # 1
    <3>1. k - 1 \in 1 .. Len(s) - 1 /\ Tail(s)[k - 1] = s[k]
      BY <1>1, <2>2
    <3> QED BY <1>1, <1>4, <3>1 DEF NoJoin
  <2> QED BY <2>1, <2>2
<1> QED BY <1>1, <1>2, <1>3, <1>4

\* One more event is sent.
LEMMA AppendClicks ==
  ASSUME NEW s \in Seq(ClickShape), NEW c \in ClickShape
  PROVE  /\ Append(s, c) \in Seq(ClickShape)
         /\ \A t : AllCosted(t, s) /\ Costed(t, c) => AllCosted(t, Append(s, c))
         /\ NoJoin(Append(s, c)) => NoJoin(s) /\ c.kind # "join"
<1>1. /\ Len(s) \in Nat /\ DOMAIN s = 1 .. Len(s) /\ Append(s, c) \in Seq(ClickShape)
      /\ DOMAIN Append(s, c) = 1 .. Len(s) + 1
      /\ \A k \in 1 .. Len(s) : Append(s, c)[k] = s[k]
      /\ Append(s, c)[Len(s) + 1] = c
  BY AppendProperties, ElementOfSeq
<1>2. \A k \in 1 .. Len(s) + 1 : k \in 1 .. Len(s) \/ k = Len(s) + 1
  BY <1>1
<1>3. 1 .. Len(s) \subseteq 1 .. Len(s) + 1 /\ Len(s) + 1 \in 1 .. Len(s) + 1
  BY <1>1
<1>4. ASSUME NEW t, AllCosted(t, s), Costed(t, c) PROVE AllCosted(t, Append(s, c))
  BY <1>1, <1>2, <1>4 DEF AllCosted
<1>5. NoJoin(Append(s, c)) => NoJoin(s) /\ c.kind # "join"
  BY <1>1, <1>3 DEF NoJoin
<1> QED BY <1>1, <1>4, <1>5

LEMMA OverType ==
  /\ \A v \in ViewShape : Over(v) \in ViewShape /\ Over(v).turn # "live"
                          /\ (v.turn = "none" => Over(v).turn = "none")
  /\ \A c \in ClickShape : Over(c) \in ClickShape /\ Over(c).turn # "live"
BY DEF Over, ViewShape, ClickShape

\* The turn that events were sent in is over.
LEMMA OverClicks ==
  ASSUME NEW s \in Seq(ClickShape)
  PROVE  /\ AllOver(s) \in Seq(ClickShape)
         /\ \A t : AllCosted(t, AllOver(s))
<1>1. /\ Len(s) \in Nat /\ DOMAIN s = 1 .. Len(s)
      /\ \A k \in 1 .. Len(s) : s[k] \in ClickShape
  BY ElementOfSeq
<1>2. AllOver(s) = [k \in 1 .. Len(s) |-> Over(s[k])]
  BY <1>1 DEF AllOver
<1>3. \A k \in 1 .. Len(s) : Over(s[k]) \in ClickShape /\ Over(s[k]).turn # "live"
  BY <1>1, OverType
<1>4. AllOver(s) \in [1 .. Len(s) -> ClickShape]
  BY <1>2, <1>3
<1>5. AllOver(s) \in Seq(ClickShape)
  BY <1>1, <1>4, SeqDef
<1>6. ASSUME NEW t PROVE AllCosted(t, AllOver(s))
  BY <1>2, <1>3 DEF AllCosted, Costed
<1> QED BY <1>5, <1>6

\* What getMaskedView shows is what is so.
LEMMA ViewRight ==
  ASSUME NEW t \in Table, SitsOnce(t)
  PROVE  View(t) \in ViewShape /\ Figures(t, View(t))
<1> DEFINE i == SeatOf(t, Me)
<1>1. InTurn(t) => i \in Seat /\ i = t.active /\ HasPlayer(t, Me)
  BY MySeat
<1>2. HasPlayer(t, Me) => i \in Seat
  BY SeatOfType
<1> HIDE DEF i
<1>3. /\ \A j \in Seat : t.bet[j] \in Nat /\ t.ready[j] \in BOOLEAN
      /\ t.currentBet \in Nat /\ BigBlind \in Nat /\ t.stage \in Stage
      /\ t.straddled \in BOOLEAN /\ t.isFoldWin \in BOOLEAN
  BY BlindAssumption DEF Table
<1>4. \A j \in Seat : Owes(t, j) \in Nat
  BY <1>3 DEF Owes
<1>5. View(t) \in ViewShape
  <2>1. /\ (IF t.stage \in ActionStage THEN "BETTING" ELSE t.stage)
             \in {"LOADING", "WAITING", "BETTING", "SETTLEMENT"}
        /\ (IF InTurn(t) THEN "live" ELSE "none") \in {"none", "live", "over"}
    BY <1>3 DEF Stage, ActionStage
  <2>2. /\ (IF InTurn(t) THEN t.bet[i] ELSE 0) \in Nat
        /\ (IF InTurn(t) THEN Owes(t, i) ELSE 0) \in Nat
        /\ (IF InTurn(t) THEN t.currentBet + BigBlind ELSE 0) \in Nat
    BY <1>1, <1>3, <1>4
  <2>3. /\ (InTurn(t) /\ t.stage = "PREFLOP" /\ ~t.straddled) \in BOOLEAN
        /\ (t.stage = "SETTLEMENT" /\ t.result # NoResult) \in BOOLEAN
        /\ (t.stage = "SETTLEMENT" /\ t.isFoldWin /\ t.result[Me] > 0) \in BOOLEAN
        /\ (t.stage = "WAITING" /\ HasPlayer(t, Me) /\ t.ready[i]) \in BOOLEAN
    OBVIOUS
  <2> QED BY <2>1, <2>2, <2>3, Zenon DEF View, ViewShape, i
<1>6. Figures(t, View(t))
  BY <1>1 DEF Figures, View, i
<1> QED BY <1>5, <1>6

LEMMA PriceOf ==
  ASSUME NEW v
  PROVE  /\ Price("call", v) = v.owe
         /\ Price("raise", v) = RaiseAmount(v) - v.bet
         /\ Price("straddle", v) = 2 * BigBlind - v.bet
         /\ \A k \in Click \ {"call", "raise", "straddle"} : Price(k, v) = 0
BY DEF Price

\* What a button sends costs what the page says of it.
LEMMA ClickRight ==
  ASSUME NEW t, NEW v \in ViewShape, raise \in Nat, NEW k \in Click
  PROVE  /\ ClickOn(k, v) \in ClickShape /\ ClickOn(k, v).kind = k
         /\ Figures(t, v) => Costed(t, ClickOn(k, v))
<1>1. /\ v.owe \in Nat /\ v.bet \in Nat /\ v.raiseTo \in Nat /\ BigBlind \in Nat
      /\ v.turn \in {"none", "live", "over"} /\ RaiseAmount(v) \in Nat
  BY BlindAssumption DEF ViewShape, RaiseAmount
<1>2. Price(k, v) \in Int
  <2>1. k \in {"call", "raise", "straddle"} \/ k \in Click \ {"call", "raise", "straddle"}
    OBVIOUS
  <2> QED BY <1>1, <2>1, PriceOf
<1>3. ClickOn(k, v) \in ClickShape
  BY <1>1, <1>2 DEF ClickOn, ClickShape
<1>4. ASSUME Figures(t, v) PROVE Costed(t, ClickOn(k, v))
  <2>1. PICK c : c = ClickOn(k, v)
    OBVIOUS
  <2>2. c.kind = k /\ c.turn = v.turn /\ c.price = Price(k, v)
        /\ (k = "raise" => c.amount = RaiseAmount(v))
    BY <2>1 DEF ClickOn
  <2>3. k \in {"fold", "check", "sit-out", "all-in"} => Price(k, v) = 0
    BY PriceOf
  <2> QED BY <1>4, <2>1, <2>2, <2>3, PriceOf DEF Costed, Figures
<1> QED BY <1>3, <1>4 DEF ClickOn

----------------------------------------------------------------------------
(* The invariant of the page *)

PageTyped ==
  /\ client \in Client /\ page \in {"open", "leaving", "closed"} /\ link \in {"up", "down"}
  /\ shown \in ViewShape /\ raise \in Nat /\ clicks \in Seq(ClickShape)
  /\ owed \in 0 .. MaxOwed /\ missed \in 0 .. MaxMissed

\* A socket in the room is connected and its player seated.  A closed web page has
\* no connection, and a page that is not open shows no turn.
Attached ==
  /\ joined => link = "up" /\ HasPlayer(table, Me)
  /\ page = "closed" /\ client # "app" => link = "down"
  /\ page # "open" => shown.turn = "none"

PageInv ==
  /\ IInv /\ SitsOnce(table)
  /\ PageTyped /\ Attached
  /\ Figures(table, shown) /\ AllCosted(table, clicks)
  /\ PageCurrent

\* What a change of the table leaves to be shown for the page.
PageFollows ==
  /\ shown' \in ViewShape /\ clicks' \in Seq(ClickShape) /\ missed' \in 0 .. MaxMissed
  /\ Figures(table', shown') /\ AllCosted(table', clicks')
  /\ shown.turn = "none" => shown'.turn = "none"

LEMMA MissedType ==
  ASSUME PageTyped, Changing
  PROVE  missed' \in 0 .. MaxMissed
<1>1. MaxMissed \in Nat \ {0}
  BY PageAssumption
<1> QED BY <1>1 DEF Changing, PageTyped

\* The change ended the turn of Me.
LEMMA TurnEnded ==
  ASSUME PageTyped, NEW q \in Seq(ClickShape), Changing,
         shown' = Over(shown), clicks' = AllOver(q)
  PROVE  PageFollows
<1>1. shown \in ViewShape
  BY DEF PageTyped
<1>2. /\ shown' \in ViewShape /\ shown'.turn # "live"
      /\ shown.turn = "none" => shown'.turn = "none"
  BY <1>1, OverType
<1>3. Figures(table', shown')
  BY <1>2 DEF Figures
<1>4. clicks' \in Seq(ClickShape) /\ AllCosted(table', clicks')
  BY OverClicks
<1> QED BY <1>2, <1>3, <1>4, MissedType DEF PageFollows

\* The change left the turn of Me, if it was his, and its figures alone.
LEMMA TurnGoesOn ==
  ASSUME PageTyped, Figures(table, shown), NEW q \in Seq(ClickShape), AllCosted(table, q),
         Changing, shown' = shown, clicks' = q,
         ~TakenAway, MineStays(table, table')
  PROVE  PageFollows
<1>1. InTurn(table) => /\ InTurn(table') /\ table'.active = table.active
                       /\ table'.bet[table.active] = table.bet[table.active]
                       /\ table'.currentBet = table.currentBet
  BY DEF TakenAway, MineStays
<1>2. InTurn(table) => Owes(table', table'.active) = Owes(table, table.active)
  BY <1>1 DEF Owes
<1>3. Figures(table', shown')
  BY <1>1, <1>2 DEF Figures
<1>4. \A c : Costed(table, c) => Costed(table', c)
  BY <1>1, <1>2 DEF Costed
<1>5. AllCosted(table', clicks')
  BY <1>4 DEF AllCosted
<1> QED BY <1>3, <1>5, MissedType DEF PageFollows, PageTyped

LEMMA PassingFollows ==
  ASSUME PageInv, Passing(TakenAway, clicks), MineStays(table, table')
  PROVE  PageFollows
<1>1. PageTyped /\ Figures(table, shown) /\ AllCosted(table, clicks)
      /\ clicks \in Seq(ClickShape)
  BY DEF PageInv, PageTyped
<1>2. CASE TakenAway
  BY <1>1, <1>2, TurnEnded DEF Passing
<1>3. CASE ~TakenAway
  BY <1>1, <1>3, TurnGoesOn DEF Passing
<1> QED BY <1>2, <1>3

LEMMA EndingFollows ==
  ASSUME PageInv, Passing(InTurn(table), clicks)
  PROVE  PageFollows
<1>1. PageTyped /\ Figures(table, shown) /\ AllCosted(table, clicks)
      /\ clicks \in Seq(ClickShape)
  BY DEF PageInv, PageTyped
<1>2. CASE InTurn(table)
  BY <1>1, <1>2, TurnEnded DEF Passing
<1>3. CASE ~InTurn(table)
  BY <1>1, <1>3, TurnGoesOn DEF Passing, TakenAway, MineStays
<1> QED BY <1>2, <1>3

\* A handler that owes the room a broadcast has not told it yet.
LEMMA StillToTell ==
  ASSUME PageInv, IInv', SitsOnce(table'), PageFollows, Attached',
         client' = client, page' = page, link' = link, raise' = raise, OneMoreOwed
  PROVE  PageInv'
<1>1. owed' \in 0 .. MaxOwed /\ owed' # 0
  BY PageAssumption DEF OneMoreOwed, PageInv, PageTyped
<1>2. PageCurrent'
  BY <1>1 DEF PageCurrent, Caught
<1> QED BY <1>1, <1>2 DEF PageInv, PageTyped, PageFollows

\* Where nobody sits down or leaves, sitting once and being seated stay.
LEMMA SameSeats ==
  ASSUME table'.id = table.id
  PROVE  /\ SitsOnce(table) => SitsOnce(table')
         /\ \A p \in Player : HasPlayer(table', p) <=> HasPlayer(table, p)
BY DEF SitsOnce, HasPlayer

\* The turn is one player's.
LEMMA OneTurn ==
  ASSUME NEW p \in Player \ {Me}, TurnOf(table, p)
  PROVE  ~InTurn(table)
BY DEF TurnOf, InTurn

LEMMA OthersSeats ==
  ASSUME IInv, IInv', SitsOnce(table), NEW p \in Player \ {Me},
         JoinRoom(p) \/ LeaveRoom(p) \/ PlayerReady(p) \/ ShowCards(p) \/ PlayerActs(p)
  PROVE  /\ SitsOnce(table') /\ MineStays(table, table')
         /\ HasPlayer(table, Me) => HasPlayer(table', Me)
<1>1. CASE JoinRoom(p)
  BY <1>1, JoinRoomSeats, PageAssumption
<1>2. CASE LeaveRoom(p)
  BY <1>2, LeaveRoomSeats, PageAssumption
<1>3. CASE PlayerReady(p) \/ ShowCards(p)
  <2>1. table'.id = table.id /\ ~InTurn(table)
    BY <1>3, PlayerReadySeats, ShowCardsSeats DEF InTurn, ActionStage
  <2> QED BY <2>1, SameSeats, PageAssumption DEF MineStays
<1>4. CASE PlayerActs(p)
  <2>1. table'.id = table.id /\ ~InTurn(table)
    BY <1>4, PlayerActsSeats, OneTurn
  <2> QED BY <2>1, SameSeats, PageAssumption DEF MineStays
<1> QED BY <1>1, <1>2, <1>3, <1>4

LEMMA AnnouncedKeeps ==
  ASSUME PageInv, Announced
  PROVE  PageInv'
<1>1. IInv /\ SitsOnce(table)
  BY DEF PageInv
<1>2. IInv' /\ SitsOnce(table') /\ MineStays(table, table')
      /\ (HasPlayer(table, Me) => HasPlayer(table', Me))
  <2>1. CASE ReadyCountdownExpires \/ SettlementExpires
    <3>1. IInv'
      BY <1>1, <2>1, ReadyCountdownIInv, SettlementIInv
    <3>2. table'.id = table.id /\ ~InTurn(table)
      BY <1>1, <2>1, TimerSeats DEF InTurn, ActionStage
    <3> QED BY <1>1, <3>1, <3>2, SameSeats, PageAssumption DEF MineStays
  <2>2. ASSUME NEW p \in Player \ {Me},
               JoinRoom(p) \/ LeaveRoom(p) \/ PlayerReady(p) \/ ShowCards(p) \/ PlayerActs(p)
        PROVE  IInv' /\ SitsOnce(table') /\ MineStays(table, table')
               /\ (HasPlayer(table, Me) => HasPlayer(table', Me))
    <3>1. IInv'
      BY <1>1, <2>2, JoinRoomIInv, LeaveRoomIInv, PlayerReadyIInv, ShowCardsIInv,
         PlayerActsIInv
    <3> QED BY <1>1, <2>2, <3>1, OthersSeats
  <2> QED BY <2>1, <2>2 DEF Announced
<1>3. PageFollows
  BY <1>2, PassingFollows DEF Announced
<1>4. Attached'
  BY <1>2, <1>3 DEF PageInv, Attached, Announced, Quietly, PageFollows
<1> QED BY <1>2, <1>3, <1>4, StillToTell DEF Announced, Quietly

LEMMA TurnTimesOutKeeps ==
  ASSUME PageInv, TurnTimesOut
  PROVE  PageInv'
<1>1. IInv /\ SitsOnce(table) /\ ActionTimeout
  BY DEF PageInv, TurnTimesOut
<1>2. IInv' /\ SitsOnce(table') /\ (HasPlayer(table, Me) <=> HasPlayer(table', Me))
  BY <1>1, ActionTimeoutIInv, ActionTimeoutSeats, SameSeats, PageAssumption
<1>3. PageFollows
  BY EndingFollows DEF TurnTimesOut
<1>4. Attached'
  BY <1>2, <1>3 DEF PageInv, Attached, TurnTimesOut, Quietly, PageFollows
<1> QED BY <1>2, <1>3, <1>4, StillToTell DEF TurnTimesOut, Quietly

LEMMA GraceEndsKeeps ==
  ASSUME PageInv, GraceEnds
  PROVE  PageInv'
<1>1. IInv /\ SitsOnce(table) /\ LeaveRoom(Me) /\ Me \in Player /\ ~joined
  BY PageAssumption DEF PageInv, Attached, GraceEnds
<1>2. IInv' /\ SitsOnce(table')
  BY <1>1, LeaveRoomIInv, LeaveRoomSeats
<1>3. PageFollows
  BY EndingFollows DEF GraceEnds
<1>4. ~joined'
  BY <1>1 DEF GraceEnds, Quietly
<1>5. Attached'
  BY <1>3, <1>4 DEF PageInv, Attached, GraceEnds, Quietly, PageFollows
<1> QED BY <1>2, <1>3, <1>5, StillToTell DEF GraceEnds, Quietly

LEMMA LeaveUnannouncedKeeps ==
  ASSUME PageInv, NEW p \in Player \ {Me}, LeaveUnannounced(p)
  PROVE  PageInv'
<1>1. IInv /\ SitsOnce(table) /\ LeaveRoom(p)
  BY DEF PageInv, LeaveUnannounced
<1>2. IInv' /\ SitsOnce(table') /\ MineStays(table, table')
      /\ (HasPlayer(table, Me) => HasPlayer(table', Me))
  BY <1>1, LeaveRoomIInv, OthersSeats
<1>3. PageFollows
  BY <1>2, PassingFollows DEF LeaveUnannounced
<1>4. Attached'
  BY <1>2, <1>3 DEF PageInv, Attached, LeaveUnannounced, Quietly, PageFollows
<1>5. silent'
  BY DEF LeaveUnannounced
<1>6. PageCurrent'
  BY <1>5 DEF PageCurrent
<1>7. PageTyped'
  BY <1>3 DEF PageInv, PageTyped, LeaveUnannounced, Quietly, PageFollows
<1> QED BY <1>2, <1>3, <1>4, <1>6, <1>7 DEF PageInv, PageFollows

\* A page that is in its room and shown the table is shown it as it is.
LEMMA BroadcastKeeps ==
  ASSUME PageInv, Broadcast
  PROVE  PageInv'
<1>1. UNCHANGED <<vars, client, page, link, joined, raise, clicks, missed>>
  BY DEF Broadcast
<1>2. IInv' /\ SitsOnce(table') /\ AllCosted(table', clicks')
  BY <1>1 DEF PageInv, IInv, vars
<1>3. owed' \in 0 .. MaxOwed
  BY PageAssumption DEF Broadcast, PageInv, PageTyped
<1>4. CASE page = "open" /\ joined
  <2>1. shown' = View(table)
    BY <1>4 DEF Broadcast
  <2>2. shown' \in ViewShape /\ Figures(table', shown') /\ shown' = View(table')
    BY <1>1, <2>1, ViewRight DEF PageInv, IInv, Sound, vars
  <2>3. PageTyped'
    BY <1>1, <1>3, <2>2 DEF PageInv, PageTyped
  <2>4. Attached'
    BY <1>1, <1>4 DEF PageInv, Attached, vars
  <2>5. PageCurrent'
    BY <2>2 DEF PageCurrent
  <2> QED BY <1>2, <2>2, <2>3, <2>4, <2>5 DEF PageInv
<1>5. CASE ~(page = "open" /\ joined)
  <2>1. shown' = shown
    BY <1>5 DEF Broadcast
  <2>2. PageTyped'
    BY <1>1, <1>3, <2>1 DEF PageInv, PageTyped
  <2>3. Attached' /\ Figures(table', shown')
    BY <1>1, <2>1 DEF PageInv, Attached, vars
  <2>4. PageCurrent'
    BY <1>1, <1>5 DEF PageCurrent, Caught
  <2> QED BY <1>2, <2>2, <2>3, <2>4 DEF PageInv
<1> QED BY <1>4, <1>5

\* Which handler an event gets to.
LEMMA EventCarried ==
  ASSUME NEW c \in ClickShape, c.kind # "leave", Accepts(table, c), Carry(c)
  PROVE  \/ c.kind = "fold" /\ PlayerFold(Me)
         \/ c.kind = "check" /\ PlayerCheck(Me)
         \/ c.kind = "call" /\ PlayerCall(Me)
         \/ c.kind = "raise" /\ MayBet(Me) /\ CanRaise(table, c.amount)
            /\ Play(Raise(table, c.amount))
         \/ c.kind = "straddle" /\ PlayerStraddle(Me)
         \/ c.kind = "sit-out" /\ PlayerSitOut(Me)
         \/ c.kind = "show" /\ ShowCards(Me)
         \/ c.kind = "ready" /\ PlayerReady(Me)
         \/ c.kind = "join" /\ JoinRoom(Me)
<1>1. c.kind \in Click
  BY DEF ClickShape
<1>2. c.kind # "all-in"
  BY DEF Accepts
<1>3. c.kind = "raise" => CanRaise(table, c.amount)
  BY DEF Accepts
<1>4. /\ c.kind = "fold" => PlayerFold(Me)
      /\ c.kind = "check" => PlayerCheck(Me)
      /\ c.kind = "call" => PlayerCall(Me)
      /\ c.kind = "raise" => MayBet(Me) /\ Play(Raise(table, c.amount))
      /\ c.kind = "straddle" => PlayerStraddle(Me)
      /\ c.kind = "sit-out" => PlayerSitOut(Me)
      /\ c.kind = "show" => ShowCards(Me)
      /\ c.kind = "ready" => PlayerReady(Me)
      /\ c.kind = "join" => JoinRoom(Me)
  BY DEF Carry
<1> QED BY <1>1, <1>2, <1>3, <1>4 DEF Click, TurnClick

LEMMA RaiseIInv ==
  ASSUME IInv, NEW amount \in Nat, MayBet(Me), CanRaise(table, amount),
         Play(Raise(table, amount))
  PROVE  IInv' /\ table'.id = table.id
<1>1. TurnOf(table, Me) /\ Me \in Player
  BY PageAssumption DEF MayBet
<1>2. Sound(Raise(table, amount))
  BY <1>1, RaiseSound DEF IInv, TurnOf
<1> QED BY <1>1, <1>2, PlaySound, PlayerPays DEF IInv

LEMMA EventSeats ==
  ASSUME IInv, SitsOnce(table), NEW c \in ClickShape, c.kind # "leave",
         Accepts(table, c), Carry(c)
  PROVE  /\ IInv' /\ SitsOnce(table')
         /\ HasPlayer(table, Me) => HasPlayer(table', Me)
         /\ c.kind = "join" => HasPlayer(table', Me)
         /\ c.kind \notin TurnClick => MineStays(table, table')
<1>1. Me \in Player /\ c.amount \in Nat
  BY PageAssumption DEF ClickShape
<1>2. CASE c.kind = "raise" /\ MayBet(Me) /\ CanRaise(table, c.amount)
           /\ Play(Raise(table, c.amount))
  BY <1>1, <1>2, RaiseIInv, SameSeats DEF TurnClick
<1>3. CASE c.kind \in TurnClick /\ PlayerActs(Me)
  BY <1>1, <1>3, PlayerActsIInv, PlayerActsSeats, SameSeats DEF TurnClick
<1>4. CASE c.kind \in {"ready", "show"} /\ (PlayerReady(Me) \/ ShowCards(Me))
  <2>1. IInv' /\ table'.id = table.id /\ ~InTurn(table)
    BY <1>1, <1>4, PlayerReadyIInv, ShowCardsIInv, PlayerReadySeats, ShowCardsSeats
       DEF InTurn, ActionStage
  <2> QED BY <1>1, <1>4, <2>1, SameSeats DEF MineStays
<1>5. CASE c.kind = "join" /\ JoinRoom(Me)
  <2>1. IInv'
    BY <1>1, <1>5, JoinRoomIInv
  <2> QED BY <1>1, <1>5, <2>1, JoinRoomSeats
<1> QED BY <1>2, <1>3, <1>4, <1>5, EventCarried DEF TurnClick, PlayerActs

\* An event of the page is carried out: its turn is over, or goes on as it was.
LEMMA DeliverKeeps ==
  ASSUME PageInv, Deliver
  PROVE  PageInv'
<1>1. PICK c : c = Head(clicks)
  OBVIOUS
<1>2. /\ link = "up" /\ clicks # << >> /\ c.kind # "leave"
      /\ OneMoreOwed /\ Accepts(table, c) /\ Carry(c)
      /\ Passing(TakenAway \/ (c.kind \in TurnClick /\ InTurn(table)), Tail(clicks))
      /\ UNCHANGED <<client, page, link, raise, chosen, auto, silent>>
  BY <1>1 DEF Deliver
<1>3. joined' => joined \/ c.kind = "join"
  BY <1>1 DEF Deliver
<1>4. /\ IInv /\ SitsOnce(table) /\ PageTyped /\ Figures(table, shown)
      /\ clicks \in Seq(ClickShape) /\ AllCosted(table, clicks)
  BY DEF PageInv, PageTyped
<1>5. c \in ClickShape /\ Tail(clicks) \in Seq(ClickShape) /\ AllCosted(table, Tail(clicks))
  BY <1>1, <1>2, <1>4, TailClicks
<1>6. /\ IInv' /\ SitsOnce(table')
      /\ HasPlayer(table, Me) => HasPlayer(table', Me)
      /\ c.kind = "join" => HasPlayer(table', Me)
      /\ c.kind \notin TurnClick => MineStays(table, table')
  BY <1>2, <1>4, <1>5, EventSeats
<1>7. PageFollows
  <2>1. CASE TakenAway \/ (c.kind \in TurnClick /\ InTurn(table))
    BY <1>2, <1>4, <1>5, <2>1, TurnEnded DEF Passing
  <2>2. CASE ~(TakenAway \/ (c.kind \in TurnClick /\ InTurn(table)))
    <3>1. MineStays(table, table')
      BY <1>6, <2>2 DEF MineStays
    <3> QED BY <1>2, <1>4, <1>5, <2>2, <3>1, TurnGoesOn DEF Passing
  <2> QED BY <2>1, <2>2
<1>8. joined' => link = "up" /\ HasPlayer(table', Me)
  BY <1>2, <1>3, <1>6 DEF PageInv, Attached
<1>9. Attached'
  BY <1>2, <1>7, <1>8 DEF PageInv, Attached, PageFollows
<1> QED BY <1>2, <1>6, <1>7, <1>9, StillToTell

LEMMA EmptyClicks == << >> \in Seq(ClickShape) /\ \A t : AllCosted(t, << >>)
BY DEF AllCosted

LEMMA DeliverLeaveKeeps ==
  ASSUME PageInv, DeliverLeave
  PROVE  PageInv'
<1>1. /\ IInv /\ SitsOnce(table) /\ LeaveRoom(Me) /\ Me \in Player /\ clicks # << >>
      /\ PageTyped /\ Attached /\ Figures(table, shown)
      /\ clicks \in Seq(ClickShape) /\ AllCosted(table, clicks) /\ UNCHANGED client
  BY PageAssumption DEF PageInv, PageTyped, DeliverLeave
<1>2. IInv' /\ SitsOnce(table')
  BY <1>1, LeaveRoomIInv, LeaveRoomSeats
<1>3. ~joined'
  BY DEF DeliverLeave
<1>4. PageCurrent'
  BY <1>3 DEF PageCurrent, Caught
<1>5. owed' \in 0 .. MaxOwed
  BY <1>1, PageAssumption DEF DeliverLeave, OneMoreOwed, PageTyped
<1>6. CASE page = "leaving"
  <2>1. /\ page' = "closed" /\ link' = "down" /\ clicks' = << >>
        /\ UNCHANGED <<shown, raise, chosen, auto, missed>>
    BY <1>6 DEF DeliverLeave
  <2>2. shown'.turn = "none"
    BY <1>1, <1>6, <2>1 DEF Attached
  <2>3. Figures(table', shown') /\ AllCosted(table', clicks')
    BY <2>1, <2>2, EmptyClicks DEF Figures
  <2>4. PageTyped' /\ Attached'
    BY <1>1, <1>3, <1>5, <2>1, <2>2, EmptyClicks DEF PageTyped, Attached
  <2> QED BY <1>2, <1>4, <2>3, <2>4 DEF PageInv
<1>7. CASE page # "leaving"
  <2>1. Passing(TRUE, Tail(clicks)) /\ UNCHANGED <<page, link, raise, chosen, auto>>
    BY <1>7 DEF DeliverLeave
  <2>2. Tail(clicks) \in Seq(ClickShape)
    BY <1>1, TailClicks
  <2>3. PageFollows
    BY <1>1, <2>1, <2>2, TurnEnded DEF Passing
  <2>4. PageTyped' /\ Attached'
    BY <1>1, <1>3, <1>5, <2>1, <2>3 DEF PageTyped, Attached, PageFollows
  <2> QED BY <1>2, <1>4, <2>3, <2>4 DEF PageInv, PageFollows
<1> QED BY <1>6, <1>7

\* A refused event changes nothing, except that a seated player's join puts his
\* socket back into the room, which then owes him an update.
LEMMA RefuseKeeps ==
  ASSUME PageInv, Refuse
  PROVE  PageInv'
<1>1. PICK c : c = Head(clicks)
  OBVIOUS
<1>2. PICK back \in BOOLEAN : back <=> (c.kind = "join" /\ HasPlayer(table, Me))
  OBVIOUS
<1>3. /\ link = "up" /\ clicks # << >> /\ clicks' = Tail(clicks)
      /\ UNCHANGED <<vars, client, page, link, shown, raise, chosen, auto, silent, missed>>
  BY DEF Refuse
<1>4. joined' => joined \/ back
  BY <1>1, <1>2 DEF Refuse
<1>5. owed' = IF back THEN Least(owed + 1, MaxOwed) ELSE owed
  BY <1>1, <1>2 DEF Refuse
<1>6. /\ PageTyped /\ Attached /\ Figures(table, shown) /\ clicks \in Seq(ClickShape)
      /\ AllCosted(table, clicks) /\ PageCurrent
  BY DEF PageInv, PageTyped
<1>7. /\ clicks' \in Seq(ClickShape) /\ AllCosted(table, clicks')
      /\ c.kind # "join" /\ NoJoin(clicks') => NoJoin(clicks)
  BY <1>1, <1>3, <1>6, TailClicks
<1>8. owed' \in 0 .. MaxOwed /\ (back => owed' # 0)
  BY <1>5, <1>6, PageAssumption DEF PageTyped, Least
<1>9. PageTyped' /\ Attached'
  <2>1. HasPlayer(table', Me) <=> HasPlayer(table, Me)
    BY <1>3 DEF vars
  <2>2. joined' => HasPlayer(table, Me)
    BY <1>2, <1>4, <1>6 DEF Attached
  <2> QED BY <1>3, <1>6, <1>7, <1>8, <2>1, <2>2 DEF PageTyped, Attached
<1>10. PageCurrent'
  <2> SUFFICES ASSUME Caught', ~silent' PROVE shown' = View(table')
    BY DEF PageCurrent
  <2>1. joined' /\ page' = "open" /\ owed' = 0 /\ NoJoin(clicks')
    BY DEF Caught, NoJoin
  <2>2. ~back /\ joined
    BY <1>4, <1>8, <2>1
  <2>3. c.kind # "join"
    BY <1>2, <1>6, <2>2 DEF Attached
  <2>4. Caught /\ ~silent
    BY <1>3, <1>5, <1>7, <2>1, <2>2, <2>3 DEF Caught, NoJoin
  <2> QED BY <1>3, <1>6, <2>4 DEF PageCurrent, vars
<1> QED BY <1>3, <1>6, <1>7, <1>9, <1>10 DEF PageInv, IInv, vars

\* A step of the page alone: it sends the event c or nothing, what it shows stays.
LEMMA PageActs ==
  ASSUME PageInv, UNCHANGED <<vars, client, page, link, joined, shown, owed, silent, missed>>,
         raise' \in Nat,
         \/ clicks' = clicks
         \/ \E c \in ClickShape : Costed(table, c) /\ clicks' = Append(clicks, c)
  PROVE  PageInv'
<1>1. /\ PageTyped /\ Attached /\ Figures(table, shown) /\ clicks \in Seq(ClickShape)
      /\ AllCosted(table, clicks) /\ PageCurrent
  BY DEF PageInv, PageTyped
<1>2. /\ clicks' \in Seq(ClickShape) /\ AllCosted(table, clicks')
      /\ NoJoin(clicks') => NoJoin(clicks)
  BY <1>1, AppendClicks
<1>3. HasPlayer(table', Me) <=> HasPlayer(table, Me)
  BY DEF vars
<1>4. PageTyped' /\ Attached'
  BY <1>1, <1>2, <1>3 DEF PageTyped, Attached
<1>5. Caught' => Caught
  BY <1>2 DEF Caught, NoJoin
<1>6. PageCurrent'
  BY <1>1, <1>5 DEF PageCurrent, vars
<1> QED BY <1>1, <1>2, <1>4, <1>6 DEF PageInv, IInv, vars

LEMMA ClickButtonKeeps ==
  ASSUME PageInv, NEW k \in Click, ClickButton(k)
  PROVE  PageInv'
<1>1. shown \in ViewShape /\ raise \in Nat /\ Figures(table, shown)
  BY DEF PageInv, PageTyped
<1>2. ClickOn(k, shown) \in ClickShape /\ Costed(table, ClickOn(k, shown))
  BY <1>1, ClickRight
<1> QED BY <1>1, <1>2, PageActs DEF ClickButton, Send

LEMMA AutoActKeeps ==
  ASSUME PageInv, AutoAct
  PROVE  PageInv'
<1>1. shown \in ViewShape /\ raise \in Nat /\ Figures(table, shown)
  BY DEF PageInv, PageTyped
<1>2. PICK k : k = IF shown.owe = 0 THEN "check" ELSE "fold"
  OBVIOUS
<1>3. k \in Click
  BY <1>2 DEF Click, TurnClick
<1>4. ClickOn(k, shown) \in ClickShape /\ Costed(table, ClickOn(k, shown))
  BY <1>1, <1>3, ClickRight
<1> QED BY <1>1, <1>2, <1>4, PageActs DEF AutoAct, Send

LEMMA QuietPageKeeps ==
  ASSUME PageInv, Muck \/ \E amount \in RaiseInput : SetRaise(amount)
  PROVE  PageInv'
<1>1. raise' \in Nat
  BY PageAssumption DEF Muck, SetRaise, PageInv, PageTyped
<1> QED BY <1>1, PageActs DEF Muck, SetRaise

LEMMA PlainType ==
  ASSUME NEW k \in Click
  PROVE  /\ Plain(k) \in ClickShape /\ Plain(k).kind = k
         /\ \A t : Costed(t, Plain(k))
BY DEF Plain, ClickShape, Costed

LEMMA LoadingType == Loading \in ViewShape /\ Loading.turn = "none"
BY DEF Loading, ViewShape

\* A step of the page or its connection that leaves the page out of the room, or
\* not open, or waiting for its join.
LEMMA NotCaught ==
  ASSUME PageInv, UNCHANGED <<vars, client, owed, missed>>,
         page' \in {"open", "leaving", "closed"}, link' \in {"up", "down"},
         shown' \in {shown, Loading}, raise' \in Nat,
         clicks' \in Seq(ClickShape), AllCosted(table, clicks'),
         Attached', ~Caught'
  PROVE  PageInv'
<1>1. PageTyped'
  BY LoadingType DEF PageInv, PageTyped
<1>2. Figures(table, shown')
  BY LoadingType DEF PageInv, Figures
<1>3. PageCurrent'
  BY DEF PageCurrent
<1> QED BY <1>1, <1>2, <1>3 DEF PageInv, IInv, vars

LEMMA ConnectKeeps ==
  ASSUME PageInv, Connect
  PROVE  PageInv'
<1>1. /\ clicks \in Seq(ClickShape) /\ AllCosted(table, clicks) /\ ~joined
      /\ Attached /\ raise \in Nat /\ page \in {"open", "leaving", "closed"}
  BY DEF PageInv, PageTyped, Attached, Connect
<1>2. "join" \in Click
  BY DEF Click
<1>3. clicks' \in Seq(ClickShape) /\ AllCosted(table, clicks')
  BY <1>1, <1>2, PlainType, AppendClicks DEF Connect
<1>4. Attached' /\ ~Caught'
  BY <1>1 DEF Connect, Attached, Caught
<1> QED BY <1>1, <1>3, <1>4, NotCaught DEF Connect

LEMMA DropKeeps ==
  ASSUME PageInv, Drop
  PROVE  PageInv'
<1>1. ~joined' /\ Attached /\ raise \in Nat /\ page \in {"open", "leaving", "closed"}
  BY DEF PageInv, PageTyped, Drop
<1>2. Attached' /\ ~Caught'
  BY <1>1 DEF Drop, Attached, Caught
<1> QED BY <1>1, <1>2, EmptyClicks, NotCaught DEF Drop

LEMMA ConfirmLeaveKeeps ==
  ASSUME PageInv, ConfirmLeave
  PROVE  PageInv'
<1>1. /\ clicks \in Seq(ClickShape) /\ AllCosted(table, clicks)
      /\ Attached /\ link \in {"up", "down"}
  BY DEF PageInv, PageTyped
<1>2. "leave" \in Click
  BY DEF Click
<1>3. clicks' \in Seq(ClickShape) /\ AllCosted(table, clicks')
  BY <1>1, <1>2, PlainType, AppendClicks DEF ConfirmLeave, Send
<1>4. Attached'
  BY <1>1, LoadingType DEF ConfirmLeave, Unmounted, Attached, vars
<1>5. ~Caught'
  BY DEF ConfirmLeave, Caught
<1> QED BY <1>1, <1>3, <1>4, <1>5, NotCaught DEF ConfirmLeave, Unmounted

LEMMA LeaveByPostKeeps ==
  ASSUME PageInv, LeaveByPost
  PROVE  PageInv'
<1>1. /\ page' = "closed" /\ link' = "down" /\ clicks' = << >>
      /\ UNCHANGED <<client, shown, raise, chosen, auto, owed, missed>>
  BY DEF LeaveByPost
<1>2. ~joined'
  BY DEF LeaveByPost
<1>3. PageTyped /\ Attached /\ IInv /\ SitsOnce(table)
  BY DEF PageInv
<1>4. IInv' /\ SitsOnce(table')
  <2>1. CASE LeaveRoom(Me)
    BY <1>3, <2>1, LeaveRoomIInv, LeaveRoomSeats, PageAssumption
  <2>2. CASE UNCHANGED vars
    BY <1>3, <2>2 DEF IInv, vars
  <2> QED BY <2>1, <2>2 DEF LeaveByPost
<1>5. shown'.turn = "none"
  BY <1>1, <1>3 DEF Attached, LeaveByPost
<1>6. PageTyped' /\ Attached'
  BY <1>1, <1>2, <1>3, <1>5, EmptyClicks DEF PageTyped, Attached
<1>7. Figures(table', shown') /\ AllCosted(table', clicks')
  BY <1>1, <1>5, EmptyClicks DEF Figures
<1>8. PageCurrent'
  BY <1>2 DEF PageCurrent, Caught
<1> QED BY <1>4, <1>6, <1>7, <1>8 DEF PageInv

LEMMA GoBackKeeps ==
  ASSUME PageInv, GoBack
  PROVE  PageInv'
<1>1. /\ clicks \in Seq(ClickShape) /\ AllCosted(table, clicks)
      /\ Attached /\ link \in {"up", "down"}
  BY DEF PageInv, PageTyped
<1>2. "leave" \in Click
  BY DEF Click
<1>3. /\ page' = "closed" /\ shown' = Loading /\ raise' = 0
      /\ UNCHANGED <<vars, client, owed, missed>>
  BY DEF GoBack, Unmounted
<1>4. ~Caught'
  BY <1>3 DEF Caught
<1>5. CASE client = "phone"
  <2>1. link' = "down" /\ clicks' = << >>
    BY <1>5 DEF GoBack
  <2>2. ~joined'
    BY <1>5 DEF GoBack
  <2>3. Attached'
    BY <1>3, <2>1, <2>2, LoadingType DEF Attached
  <2> QED BY <1>3, <1>4, <2>1, <2>3, EmptyClicks, NotCaught
<1>6. CASE client # "phone"
  <2>1. clicks' = Append(clicks, Plain("leave")) /\ UNCHANGED <<link, joined>>
    BY <1>6 DEF GoBack, Send
  <2>2. clicks' \in Seq(ClickShape) /\ AllCosted(table, clicks')
    BY <1>1, <1>2, <2>1, PlainType, AppendClicks
  <2>3. client' = "app"
    BY <1>3, <1>6, PageAssumption DEF GoBack, PageInv, PageTyped
  <2>4. Attached'
    BY <1>1, <1>3, <2>1, <2>3, LoadingType DEF Attached, vars
  <2> QED BY <1>1, <1>3, <1>4, <2>1, <2>2, <2>4, NotCaught
<1> QED BY <1>5, <1>6

\* The app's new page waits for its join; the others' have no connection yet.
LEMMA OpenKeeps ==
  ASSUME PageInv, Open
  PROVE  PageInv'
<1>1. /\ clicks \in Seq(ClickShape) /\ AllCosted(table, clicks)
      /\ Attached /\ link \in {"up", "down"} /\ raise \in Nat
  BY DEF PageInv, PageTyped
<1>2. "join" \in Click
  BY DEF Click
<1>3. /\ page = "closed" /\ page' = "open"
      /\ UNCHANGED <<vars, client, link, joined, shown, raise, chosen, auto, owed, silent, missed>>
  BY DEF Open
<1>4. Attached'
  BY <1>1, <1>3 DEF Attached, vars
<1>5. CASE client = "app"
  <2>1. clicks' = Append(clicks, Plain("join"))
    BY <1>5 DEF Open, Send
  <2>2. clicks' \in Seq(ClickShape) /\ AllCosted(table, clicks')
    BY <1>1, <1>2, <2>1, PlainType, AppendClicks
  <2>3. ~NoJoin(clicks')
    BY <1>1, <1>2, <2>1, PlainType, AppendClicks
  <2> QED BY <1>1, <1>3, <1>4, <2>2, <2>3, NotCaught DEF Caught, NoJoin
<1>6. CASE client # "app"
  <2>1. clicks' = clicks
    BY <1>6 DEF Open
  <2>2. ~joined'
    BY <1>1, <1>3, <1>6 DEF Attached
  <2> QED BY <1>1, <1>3, <1>4, <2>1, <2>2, NotCaught DEF Caught
<1> QED BY <1>5, <1>6

LEMMA InitPageInv == PageInit => PageInv
<1> SUFFICES ASSUME PageInit PROVE PageInv
  OBVIOUS
<1>1. IInv
  BY InitIInv DEF PageInit
<1>2. SitsOnce(table)
  BY DEF PageInit, Init, NewTable, SitsOnce
<1>3. shown = Loading /\ ~joined /\ owed = 0 /\ missed = 0 /\ raise = 0
      /\ page = "open" /\ link = "down" /\ client \in Client
  BY DEF PageInit
<1>4. clicks \in Seq(ClickShape) /\ AllCosted(table, clicks)
  <2>1. clicks \in {<<Plain("join")>>, << >>}
    BY DEF PageInit
  <2>2. "join" \in Click
    BY DEF Click
  <2>3. <<Plain("join")>> = Append(<< >>, Plain("join"))
    OBVIOUS
  <2>4. Plain("join") \in ClickShape /\ Costed(table, Plain("join"))
    BY <2>2, PlainType
  <2>5. << >> \in Seq(ClickShape) /\ AllCosted(table, << >>)
    BY EmptyClicks
  <2>6. /\ <<Plain("join")>> \in Seq(ClickShape)
        /\ AllCosted(table, <<Plain("join")>>)
    BY <2>3, <2>4, <2>5, AppendClicks
  <2> QED BY <2>1, <2>5, <2>6
<1>5. Figures(table, shown)
  BY <1>3, LoadingType DEF Figures
<1>6. PageTyped /\ Attached /\ PageCurrent
  BY <1>3, <1>4, LoadingType, PageAssumption DEF PageTyped, Attached, PageCurrent, Caught
<1> QED BY <1>1, <1>2, <1>4, <1>5, <1>6 DEF PageInv

LEMMA NextPageInv == PageInv /\ [PageNext]_allVars => PageInv'
<1> SUFFICES ASSUME PageInv, [PageNext]_allVars PROVE PageInv'
  OBVIOUS
<1>1. CASE UNCHANGED allVars
  <2>1. UNCHANGED <<vars, client, page, link, joined, shown, owed, silent, missed>>
        /\ clicks' = clicks /\ raise' \in Nat
    BY <1>1 DEF allVars, pageVars, PageInv, PageTyped
  <2> QED BY <2>1, PageActs
<1>2. CASE \/ Broadcast \/ Announced \/ TurnTimesOut \/ GraceEnds
           \/ Deliver \/ DeliverLeave \/ Refuse
  BY <1>2, BroadcastKeeps, AnnouncedKeeps, TurnTimesOutKeeps, GraceEndsKeeps, DeliverKeeps,
     DeliverLeaveKeeps, RefuseKeeps
<1>3. CASE \E q \in Player \ {Me} : LeaveUnannounced(q)
  BY <1>3, LeaveUnannouncedKeeps
<1>4. CASE \/ Muck \/ (\E amount \in RaiseInput : SetRaise(amount))
           \/ AutoAct \/ \E k \in Click : ClickButton(k)
  BY <1>4, QuietPageKeeps, AutoActKeeps, ClickButtonKeeps
<1>5. CASE Connect \/ Drop \/ ConfirmLeave \/ LeaveByPost \/ GoBack \/ Open
  BY <1>5, ConnectKeeps, DropKeeps, ConfirmLeaveKeeps, LeaveByPostKeeps, GoBackKeeps,
     OpenKeeps
<1> QED BY <1>1, <1>2, <1>3, <1>4, <1>5 DEF PageNext

\* Whatever joins, leaves, times out or is lost: the table behind the page stays
\* sound and seats nobody twice, a socket in the room belongs to a seated player,
\* and what the page shows of the turn of Me, and the price of every event it sent
\* in that turn, is so for as long as the turn lasts.
THEOREM PageInvariance == PageSpec => []PageInv
<1>1. PageInit => PageInv
  BY InitPageInv
<1>2. PageInv /\ [PageNext]_allVars => PageInv'
  BY NextPageInv
<1> QED BY <1>1, <1>2, PTL DEF PageSpec

\* A page that is in its room, waits for no broadcast and has no join under way
\* shows the table as it is, unless somebody has left by POST leave-room.
THEOREM PagesAlwaysCurrent == PageSpec => []PageCurrent
<1>1. PageInv => PageCurrent
  BY DEF PageInv
<1> QED BY <1>1, PageInvariance, PTL

\* The buttons for the player in turn offer what the server takes, and the timeout does
\* what the page announces, unless its player is all-in or sitting out.
THEOREM OffersAlwaysTaken == PageSpec => []OfferTaken
<1>1. ASSUME PageInv PROVE OfferTaken
  <2> SUFFICES ASSUME shown.turn = "live"
               PROVE  /\ \A k \in Offered(shown) \ {"raise"} :
                           \/ Accepts(table, ClickOn(k, shown))
                           \/ table.stack[table.active] = 0
                      /\ CanCheck(table) <=> "check" \in Offered(shown)
                      /\ table.status[table.active] = "ACTIVE" =>
                           /\ TimeoutDue
                           /\ \A ranking \in Deals :
                                TimedOut(ranking) =
                                  Finish(IF TimeoutAction(shown) = "autoCheck" THEN Check(table)
                                         ELSE Fold(table), ranking)
    BY DEF OfferTaken, AnnouncedInVain
  <2> DEFINE a == table.active
  <2>1. InTurn(table) /\ shown.owe = Owes(table, a) /\ a \in Seat /\ TurnOf(table, Me)
    BY <1>1 DEF PageInv, Figures, InTurn, TurnOf
  <2>2. table.currentBet \in Nat /\ table.bet[a] \in Nat /\ table.stack[a] \in Nat
    BY <1>1, <2>1 DEF PageInv, IInv, Sound, Table
  <2>3. /\ shown.owe = 0 <=> CanCheck(table)
        /\ shown.owe # 0 => CanCall(table) \/ table.stack[a] = 0
    BY <2>1, <2>2 DEF Owes, CanCheck, CanCall, CallAmount, Least
  <2>4. Offered(shown) = {"fold", "raise", IF shown.owe = 0 THEN "check" ELSE "call"}
    BY DEF Offered
  <2>5. \A k : ClickOn(k, shown).kind = k
    BY DEF ClickOn
  <2>6. \A c : /\ c.kind = "fold" => (Accepts(table, c) <=> TurnOf(table, Me))
               /\ c.kind = "check" => (Accepts(table, c) <=> TurnOf(table, Me) /\ CanCheck(table))
               /\ c.kind = "call" => (Accepts(table, c) <=> TurnOf(table, Me) /\ CanCall(table))
    BY DEF Accepts
  <2>7. ASSUME table.status[a] = "ACTIVE"
        PROVE  /\ TimeoutDue
               /\ \A ranking \in Deals :
                    TimedOut(ranking) =
                      Finish(IF TimeoutAction(shown) = "autoCheck" THEN Check(table)
                             ELSE Fold(table), ranking)
    <3>1. TimeoutDue
      BY <2>1, <2>7, PageAssumption, NobodyAssumption DEF TimeoutDue, InTurn, TurnOf, Occupied
    <3>2. ~IsCurrentPlayerSitOut(table)
      BY <2>7 DEF IsCurrentPlayerSitOut
    <3>3. TimeoutAction(shown) = "autoCheck" <=> CanCheck(table)
      BY <2>3 DEF TimeoutAction
    <3> QED BY <3>1, <3>2, <3>3 DEF TimedOut
  <2> QED BY <2>1, <2>3, <2>4, <2>5, <2>6, <2>7
<1> QED BY <1>1, PageInvariance, PTL

\* A click carried out in the turn it was made in moves the chips its button named,
\* or all its player has.
THEOREM ClicksCostTheirPrice == PageSpec => ClickCostsItsPrice
<1> DEFINE Priced ==
      LET c == Head(clicks)
          i == SeatOf(table, Me)
      IN  Len(clicks') < Len(clicks) /\ c.kind \in TurnClick /\ c.turn = "live" /\ Deliver =>
            table'.totalBet[i] - table.totalBet[i] = Least(c.price, table.stack[i])
<1>1. ASSUME PageInv, [PageNext]_allVars PROVE [Priced]_allVars
  <2>1. PICK c : c = Head(clicks)
    OBVIOUS
  <2>2. PICK i : i = SeatOf(table, Me)
    OBVIOUS
  <2> SUFFICES ASSUME c.kind \in TurnClick, c.turn = "live", Deliver
               PROVE  table'.totalBet[i] - table.totalBet[i] = Least(c.price, table.stack[i])
    BY <2>1, <2>2
  <2>3. c.kind # "leave" /\ Accepts(table, c) /\ Carry(c) /\ clicks # << >>
    BY <2>1 DEF Deliver
  <2>4. IInv /\ SitsOnce(table) /\ clicks \in Seq(ClickShape) /\ AllCosted(table, clicks)
    BY <1>1 DEF PageInv, PageTyped
  <2>5. c \in ClickShape /\ Costed(table, c)
    BY <2>1, <2>3, <2>4, TailClicks
  <2>6. InTurn(table) /\ i = table.active /\ i \in Seat /\ TurnOf(table, Me)
        /\ Me \in Player /\ c.amount \in Nat
    BY <2>2, <2>4, <2>5, MySeat, PageAssumption DEF Costed, InTurn, ClickShape
  <2>7. table.currentBet \in Nat /\ table.bet[i] \in Nat /\ table.stack[i] \in Nat
        /\ BigBlind \in Nat
    BY <2>4, <2>6, BlindAssumption DEF IInv, Sound, Table
  <2>8. CASE c.kind \in {"fold", "check", "sit-out"}
             /\ (PlayerFold(Me) \/ PlayerCheck(Me) \/ PlayerSitOut(Me))
    <3>1. table'.totalBet[i] - table.totalBet[i] = 0
      BY <2>4, <2>6, <2>8, PlayerPays
    <3>2. c.price = 0
      BY <2>5, <2>8 DEF Costed
    <3> QED BY <2>7, <3>1, <3>2 DEF Least
  <2>9. CASE c.kind = "call" /\ PlayerCall(Me)
    <3>1. table'.totalBet[i] - table.totalBet[i] = CallAmount(table) /\ CallAmount(table) > 0
      BY <2>4, <2>6, <2>9, PlayerPays DEF PlayerCall, CanCall
    <3>2. c.price = Owes(table, i)
      BY <2>5, <2>6, <2>9 DEF Costed
    <3> QED BY <2>6, <2>7, <3>1, <3>2 DEF Owes, CallAmount, Least
  <2>10. CASE c.kind = "raise" /\ CanRaise(table, c.amount) /\ Play(Raise(table, c.amount))
    <3>1. table'.totalBet[i] - table.totalBet[i]
            = Least(c.amount - table.bet[i], table.stack[i])
      BY <2>4, <2>6, <2>10, PlayerPays
    <3>2. c.price = c.amount - table.bet[i]
      BY <2>5, <2>6, <2>10 DEF Costed
    <3> QED BY <3>1, <3>2
  <2>11. CASE c.kind = "straddle" /\ PlayerStraddle(Me)
    <3>1. table'.totalBet[i] - table.totalBet[i] = 2 * BigBlind - table.bet[i]
      BY <2>4, <2>6, <2>11, PlayerPays
    <3>2. table.stack[i] >= 2 * BigBlind
      BY <2>6, <2>11 DEF PlayerStraddle, CanStraddle
    <3>3. c.price = 2 * BigBlind - table.bet[i]
      BY <2>5, <2>6, <2>11 DEF Costed
    <3> QED BY <2>7, <3>1, <3>2, <3>3 DEF Least
  <2> QED BY <2>3, <2>5, <2>8, <2>9, <2>10, <2>11, EventCarried DEF TurnClick
<1>2. PageInv /\ [PageNext]_allVars => [Priced]_allVars
  BY <1>1
<1>3. ClickCostsItsPrice <=> [][Priced]_allVars
  BY DEF ClickCostsItsPrice
<1> QED BY <1>2, <1>3, PageInvariance, PTL DEF PageSpec

Flags == {joined, chosen, auto, silent} \subseteq BOOLEAN

LEMMA InitFlags == PageInit => Flags
BY DEF PageInit, Flags

LEMMA NextFlags == Flags /\ [PageNext]_allVars => Flags'
<1> SUFFICES ASSUME Flags, [PageNext]_allVars PROVE Flags'
  OBVIOUS
<1> USE DEF Flags
<1>1. CASE UNCHANGED allVars
  BY <1>1 DEF allVars, pageVars
<1>2. CASE Broadcast
  <2>1. UNCHANGED joined /\ silent' \in BOOLEAN
    BY <1>2 DEF Broadcast
  <2>2. chosen' \in BOOLEAN /\ auto' \in BOOLEAN
    BY <1>2, Zenon DEF Broadcast
  <2> QED BY <2>1, <2>2
<1>3. CASE \/ Announced \/ TurnTimesOut \/ GraceEnds \/ Muck
           \/ \E q \in Player \ {Me} : LeaveUnannounced(q)
  <2>1. \/ UNCHANGED <<joined, chosen, auto, silent>>
        \/ UNCHANGED <<joined, auto, silent>> /\ chosen' \in BOOLEAN
        \/ UNCHANGED <<joined, chosen, auto>> /\ silent' \in BOOLEAN
    BY <1>3 DEF Announced, TurnTimesOut, GraceEnds, LeaveUnannounced, Muck, Quietly
  <2> QED BY <2>1
<1>4. CASE Deliver \/ DeliverLeave \/ Refuse
  <2>1. UNCHANGED <<chosen, auto, silent>>
    BY <1>4 DEF Deliver, DeliverLeave, Refuse
  <2>2. joined' \in BOOLEAN
    BY <1>4, Zenon DEF Deliver, DeliverLeave, Refuse
  <2> QED BY <2>1, <2>2
<1>5. CASE \E k \in Click : ClickButton(k)
  <2>1. UNCHANGED <<joined, auto, silent>>
    BY <1>5 DEF ClickButton
  <2>2. chosen' \in BOOLEAN
    BY <1>5, Zenon DEF ClickButton
  <2> QED BY <2>1, <2>2
<1>6. CASE AutoAct \/ Connect \/ Open \/ \E amount \in RaiseInput : SetRaise(amount)
  BY <1>6 DEF AutoAct, SetRaise, Connect, Open
<1>7. CASE Drop \/ ConfirmLeave
  BY <1>7 DEF Drop, ConfirmLeave, Unmounted
<1>8. CASE LeaveByPost
  BY <1>8 DEF LeaveByPost
<1>9. CASE GoBack
  BY <1>9 DEF GoBack, Unmounted
<1> QED BY <1>1, <1>2, <1>3, <1>4, <1>5, <1>6, <1>7, <1>8, <1>9 DEF PageNext

\* The page's variables keep their types: what it shows and sends is of the shape
\* its buttons and the server read.
THEOREM PageTypeCorrect == PageSpec => []PageTypeOK
<1>1. ASSUME PageInv, Flags PROVE PageTypeOK
  <2>1. TypeOK
    BY <1>1 DEF PageInv, IInv, Sound, TypeOK
  <2>2. \A k \in DOMAIN clicks : clicks[k] \in ClickShape
    <3>1. clicks \in Seq(ClickShape)
      BY <1>1 DEF PageInv, PageTyped
    <3> QED BY <3>1, ElementOfSeq
  <2> QED BY <1>1, <2>1, <2>2 DEF PageTypeOK, PageInv, PageTyped, Flags
<1>2. PageInv /\ Flags => PageTypeOK
  BY <1>1
<1>3. PageSpec => []Flags
  BY InitFlags, NextFlags, PTL DEF PageSpec
<1> QED BY <1>2, <1>3, PageInvariance, PTL

=============================================================================
