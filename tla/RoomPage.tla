------------------------------ MODULE RoomPage ------------------------------
(***************************************************************************)
(* One player's page over the table of PokerTable: what the page shows is  *)
(* the last room_update it received, what it sends is what its buttons     *)
(* offered for that update, and both travel over one socket.io connection  *)
(* that may drop.                                                          *)
(*                                                                         *)
(*   "web"    apps/web/app/room/[id]/page.tsx                              *)
(*   "phone"  apps/web/app/room-mobile/[id]/page.tsx                       *)
(*   "app"    apps/mobile/app/room/[id].tsx                                *)
(*                                                                         *)
(* The other players and the timers are those of PokerTable; here each     *)
(* handler also owes the room a broadcast, sent after its awaits.  A click *)
(* carries no number of the turn it was made for: the model keeps that as  *)
(* history, the server never sees it.                                      *)
(***************************************************************************)
EXTENDS PokerTable, Sequences

CONSTANTS
  Me,         \* the player whose page it is
  Client,     \* the kinds of page he may have
  RaiseInput, \* amounts he may set for a raise
  MaxOwed,    \* bound: broadcasts the room's handlers still owe
  MaxMissed,  \* bound: changes of the table an open page misses while it is cut off
  MaxClicks   \* bound: messages on their way to the server

ASSUME PageAssumption ==
  /\ Me \in Player
  /\ Client \subseteq {"web", "phone", "app"} /\ Client # {}
  /\ RaiseInput \subseteq Nat \ {0}
  /\ MaxOwed \in Nat \ {0}  /\ MaxMissed \in Nat \ {0} /\ MaxClicks \in Nat \ {0}

VARIABLES
  client,   \* which page it is
  page,     \* "open", "leaving" (the confirmed leave is under way) or "closed"
  link,     \* "up" or "down": the socket's connection
  joined,   \* the server has put the socket into the room
  shown,    \* the state of the page: the last update, or Loading
  raise,    \* raiseAmount; 0 is "not set"
  chosen,   \* foldWinChoiceMade
  auto,     \* the phone's automatic action is armed
  clicks,   \* events on their way to the server, or buffered while the link is down
  owed,     \* broadcasts that a handler has still to send
  silent,   \* history: the table has changed with no broadcast since
  missed    \* counts towards MaxMissed

pageVars == <<client, page, link, joined, shown, raise, chosen, auto, clicks, owed, silent, missed>>
allVars  == <<vars, pageVars>>

----------------------------------------------------------------------------
(* What the page knows of the table *)

InTurn(t) == t.stage \in ActionStage /\ TurnOf(t, Me)

\* Mutant: the player's own bet is not deducted.
GrossOwes(t, i) == t.currentBet

Owes(t, i) == IF t.currentBet > t.bet[i] THEN t.currentBet - t.bet[i] ELSE 0

\* The part of getMaskedView(Me) the page's buttons depend on. turn is "live"
\* when the update shows Me in turn; once that turn has ended it is "over".
View(t) ==
  LET i == SeatOf(t, Me)
      mine == InTurn(t)
  IN  [stage    |-> IF t.stage \in ActionStage THEN "BETTING" ELSE t.stage,
       turn     |-> IF mine THEN "live" ELSE "none",
       bet      |-> IF mine THEN t.bet[i] ELSE 0,
       owe      |-> IF mine THEN Owes(t, i) ELSE 0,
       raiseTo  |-> IF mine THEN t.currentBet + BigBlind ELSE 0,
       straddle |-> mine /\ t.stage = "PREFLOP" /\ ~t.straddled,
       ready    |-> t.stage = "WAITING" /\ HasPlayer(t, Me) /\ t.ready[i],
       result   |-> t.stage = "SETTLEMENT" /\ t.result # NoResult,
       choice   |-> t.stage = "SETTLEMENT" /\ t.isFoldWin /\ t.result[Me] > 0]

Loading ==
  [stage |-> "LOADING", turn |-> "none", bet |-> 0, owe |-> 0, raiseTo |-> 0,
   straddle |-> FALSE, ready |-> FALSE, result |-> FALSE, choice |-> FALSE]

ViewShape ==
  [stage : {"LOADING", "WAITING", "BETTING", "SETTLEMENT"}, turn : {"none", "live", "over"},
   bet : Nat, owe : Nat, raiseTo : Nat, straddle : BOOLEAN,
   ready : BOOLEAN, result : BOOLEAN, choice : BOOLEAN]

TurnClick == {"fold", "check", "call", "raise", "straddle", "sit-out", "all-in"}
Click     == TurnClick \cup {"join", "ready", "show", "leave"}

ClickShape ==
  [kind : Click, amount : Nat, price : Int, turn : {"none", "live", "over"}]

\* Mutant: the buttons compare the bets the wrong way round.
CheckWhenBehindOffered(v) ==
  IF v.turn = "none" THEN {}
  ELSE {"fold", "raise", IF v.owe = 0 THEN "call" ELSE "check"}

\* The buttons enabled for the update v, on every page.
Offered(v) ==
  IF v.turn = "none" THEN {}
  ELSE {"fold", "raise", IF v.owe = 0 THEN "check" ELSE "call"}

\* The buttons only some of the pages have.
OwnOffered(v) ==
  CASE client = "web" ->
         (IF v.turn = "none" THEN {}
          ELSE {"sit-out"} \cup {k \in {"straddle"} : v.straddle})
         \cup {k \in {"show"} : v.choice /\ ~chosen}
         \cup {k \in {"ready"} : v.stage = "WAITING"}
    [] client = "phone" -> {k \in {"ready"} : v.stage = "WAITING"}
    [] client = "app" ->
         {k \in {"all-in"} : v.turn # "none"}
         \cup {k \in {"ready"} : v.stage = "WAITING" /\ ~v.ready}

\* timeoutActionLabel of the web page: what it counts down to.
TimeoutAction(v) == IF v.owe = 0 THEN "autoCheck" ELSE "autoFold"

\* raiseAmount || minRaiseTo; the app has no input and sends its minimum.
RaiseAmount(v) == IF raise = 0 THEN v.raiseTo ELSE raise

\* The chips the button's caption stands for.
Price(k, v) ==
  CASE k = "call"     -> v.owe
    [] k = "raise"    -> RaiseAmount(v) - v.bet
    [] k = "straddle" -> 2 * BigBlind - v.bet
    [] OTHER          -> 0

ClickOn(k, v) ==
  [kind |-> k, amount |-> IF k = "raise" THEN RaiseAmount(v) ELSE 0,
   price |-> Price(k, v), turn |-> v.turn]

Plain(k) == [kind |-> k, amount |-> 0, price |-> 0, turn |-> "none"]

----------------------------------------------------------------------------
(* History: the turn an update, or a click, belongs to has ended *)

Over(x) == IF x.turn = "live" THEN [x EXCEPT !.turn = "over"] ELSE x
AllOver(s) == [k \in DOMAIN s |-> Over(s[k])]

CutOff == page = "open" /\ ~joined /\ shown # Loading

\* A change of the table, which a page that is cut off misses.
Changing ==
  /\ CutOff => missed < MaxMissed
  /\ missed' = IF CutOff THEN missed + 1 ELSE 0

\* The page's state and the queues q (clicks) after a step of the
\* table that does, or does not, end the turn of Me.
Passing(ended, q) ==
  /\ Changing
  /\ shown'  = IF ended THEN Over(shown) ELSE shown
  /\ clicks' = IF ended THEN AllOver(q) ELSE q

\* A turn also ends when the street or the hand does, whoever ended it.
TakenAway == InTurn(table) /\ ~(InTurn(table') /\ table'.stage = table.stage)

----------------------------------------------------------------------------
(* The server *)

\* The page is gone, its state with it.
Unmounted ==
  shown' = Loading /\ raise' = 0 /\ chosen' = FALSE /\ auto' = FALSE

OneMoreOwed == owed < MaxOwed /\ owed' = owed + 1

PageInit ==
  /\ Init
  /\ client \in Client
  /\ page = "open" /\ link = "down" /\ joined = FALSE
  /\ shown = Loading /\ raise = 0 /\ chosen = FALSE /\ auto = FALSE
  /\ owed = 0 /\ silent = FALSE /\ missed = 0
  /\ clicks = IF client = "app" THEN <<Plain("join")>> ELSE <<>>

\* broadcastTableState: the view is made when it is sent, after the awaits of
\* the handler, for the sockets that are in the room then; the page shows it
\* (room_update: setTable, and the effects that depend on the table). That an
\* update travels for a while is not told apart from a player who is slow to
\* look at it.
Broadcast ==
  LET v == View(table)
  IN  /\ owed > 0
      /\ owed' = owed - 1
      /\ silent' = FALSE
      /\ IF page = "open" /\ joined
         THEN /\ shown' = v
              /\ chosen' = (chosen /\ ~(/\ client = "web" /\ v.result
                                        /\ shown.stage \notin {"SETTLEMENT", "LOADING"}))
              /\ auto' = (client = "phone" /\ v.turn # "none")
         ELSE UNCHANGED <<shown, chosen, auto>>
      /\ UNCHANGED <<vars, client, page, link, joined, raise, clicks, missed>>

Quietly == UNCHANGED <<client, page, link, joined, raise, chosen, auto>>

\* A handler for another player, or a timer, with its broadcast.
Announced ==
  /\ OneMoreOwed
  /\ \/ \E q \in Player \ {Me} :
          JoinRoom(q) \/ LeaveRoom(q) \/ PlayerReady(q) \/ ShowCards(q) \/ PlayerActs(q)
     \/ ReadyCountdownExpires
     \/ SettlementExpires
  /\ Passing(TakenAway, clicks)
  /\ Quietly /\ UNCHANGED silent

\* Mutant: the room is not told of a timeout.
SilentTurnTimesOut ==
  /\ ActionTimeout
  /\ Passing(InTurn(table), clicks)
  /\ Quietly /\ UNCHANGED <<silent, owed>>

\* finalizeActionTimeout
TurnTimesOut ==
  /\ OneMoreOwed
  /\ ActionTimeout
  /\ Passing(InTurn(table), clicks)
  /\ Quietly /\ UNCHANGED silent

\* POST /tables/me/leave-room by another player: leaveCurrentRoom alone.
LeaveUnannounced(q) ==
  /\ LeaveRoom(q)
  /\ Passing(TakenAway, clicks)
  /\ silent' = TRUE
  /\ Quietly /\ UNCHANGED owed

\* The grace period of handleDisconnect.
GraceEnds ==
  /\ link = "down"
  /\ OneMoreOwed
  /\ LeaveRoom(Me)
  /\ Passing(InTurn(table), clicks)
  /\ Quietly /\ UNCHANGED silent

\* What processAction and the room handlers ask before they act on an event.
Accepts(t, c) ==
  CASE c.kind = "fold"     -> TurnOf(t, Me)
    [] c.kind = "check"    -> TurnOf(t, Me) /\ CanCheck(t)
    [] c.kind = "call"     -> TurnOf(t, Me) /\ CanCall(t)
    [] c.kind = "raise"    -> TurnOf(t, Me) /\ CanRaise(t, c.amount)
    [] c.kind = "straddle" -> TurnOf(t, Me) /\ CanStraddle(t)
    [] c.kind = "sit-out"  -> TurnOf(t, Me) /\ t.stage \in ActionStage
    [] c.kind = "all-in"   -> FALSE    \* the switch knows 'allin'
    [] c.kind = "show"     -> t.stage = "SETTLEMENT" /\ t.isFoldWin /\ t.result[Me] > 0
    [] c.kind = "ready"    -> t.stage = "WAITING" /\ HasPlayer(t, Me)
                              /\ t.stack[SeatOf(t, Me)] > 0
    [] c.kind = "leave"    -> HasPlayer(t, Me)
    [] c.kind = "join"     -> ~HasPlayer(t, Me) /\ wallet[Me] >= MinBuyIn
                              /\ Seat # Occupied(t)

Carry(c) ==
  CASE c.kind = "fold"     -> PlayerFold(Me)
    [] c.kind = "check"    -> PlayerCheck(Me)
    [] c.kind = "call"     -> PlayerCall(Me)
    [] c.kind = "raise"    -> MayBet(Me) /\ Play(Raise(table, c.amount))
    [] c.kind = "straddle" -> PlayerStraddle(Me)
    [] c.kind = "sit-out"  -> PlayerSitOut(Me)
    [] c.kind = "show"     -> ShowCards(Me)
    [] c.kind = "ready"    -> PlayerReady(Me)
    [] c.kind = "join"     -> JoinRoom(Me)

\* An event of this page is handled: carried out and answered with a broadcast.
Deliver ==
  LET c == Head(clicks)
  IN  /\ link = "up" /\ clicks # <<>> /\ c.kind # "leave"
      /\ OneMoreOwed
      /\ Accepts(table, c)
      /\ Carry(c)
      /\ Passing(TakenAway \/ (c.kind \in TurnClick /\ InTurn(table)), Tail(clicks))
      /\ joined' = (joined \/ c.kind = "join")
      /\ UNCHANGED <<client, page, link, raise, chosen, auto, silent>>

\* handleLeaveRoom and left_room, on which the web page disconnects and goes.
DeliverLeave ==
  /\ link = "up" /\ clicks # <<>> /\ Head(clicks).kind = "leave"
  /\ OneMoreOwed
  /\ HasPlayer(table, Me)
  /\ LeaveRoom(Me)
  /\ joined' = FALSE
  /\ IF page = "leaving"
     THEN page' = "closed" /\ link' = "down" /\ clicks' = <<>>
          /\ UNCHANGED <<shown, raise, chosen, auto, missed>>
     ELSE Passing(TRUE, Tail(clicks)) /\ UNCHANGED <<page, link, raise, chosen, auto>>
  /\ UNCHANGED <<client, silent>>

\* ... or refused without a word, except that join_room of a seated player puts
\* his socket back into the room.
Refuse ==
  LET c == Head(clicks)
      back == c.kind = "join" /\ HasPlayer(table, Me)
  IN  /\ link = "up" /\ clicks # <<>>
      /\ ~Accepts(table, c)
      /\ clicks' = Tail(clicks)
      /\ joined' = (joined \/ back)
      /\ owed' = IF back THEN Least(owed + 1, MaxOwed) ELSE owed
      /\ UNCHANGED <<vars, client, page, link, shown, raise, chosen, auto, silent, missed>>

----------------------------------------------------------------------------
(* The page *)

Send(c) == Len(clicks) < MaxClicks /\ clicks' = Append(clicks, c)

\* handleAction, handleReady, handleShowCards: the event is emitted, or buffered
\* by socket.io while the link is down; the buttons do not wait for an answer.
ClickButton(k) ==
  /\ page = "open"
  /\ k \in Offered(shown) \cup OwnOffered(shown)
  /\ Send(ClickOn(k, shown))
  /\ chosen' = (chosen \/ k = "show")
  /\ UNCHANGED <<vars, client, page, link, joined, shown, raise, auto, owed, silent, missed>>

\* handleMuckCards
Muck ==
  /\ page = "open" /\ client = "web" /\ shown.choice /\ ~chosen
  /\ chosen' = TRUE
  /\ UNCHANGED <<vars, client, page, link, joined, shown, raise, auto, clicks, owed, silent, missed>>

\* The raise input, or the phone's slider and step buttons, with which less than the
\* minimum can be set as well. Nothing resets it.
SetRaise(amount) ==
  /\ page = "open" /\ shown.turn # "none" /\ amount # raise
  /\ client # "app"
  /\ raise' = amount
  /\ UNCHANGED <<vars, client, page, link, joined, shown, chosen, auto, clicks, owed, silent, missed>>

\* doAutoAction: when the deadline of the update passes on the phone's own clock.
AutoAct ==
  /\ page = "open" /\ auto
  /\ Send(ClickOn(IF shown.owe = 0 THEN "check" ELSE "fold", shown))
  /\ auto' = FALSE
  /\ UNCHANGED <<vars, client, page, link, joined, shown, raise, chosen, owed, silent, missed>>

----------------------------------------------------------------------------
(* The connection, opening and leaving the page *)

\* The buffered events go first, then 'connect' makes the two web pages join.
Connect ==
  /\ page # "closed" /\ link = "down"
  /\ link' = "up"
  /\ clicks' = IF client = "app" THEN clicks ELSE Append(clicks, Plain("join"))
  /\ UNCHANGED <<vars, client, page, joined, shown, raise, chosen, auto, owed, silent, missed>>

\* What is on its way in either direction is lost.
Drop ==
  /\ link = "up"
  /\ link' = "down" /\ joined' = FALSE /\ clicks' = <<>>
  /\ UNCHANGED <<vars, client, page, shown, raise, chosen, auto, owed, silent, missed>>

\* handleConfirmLeave of the web page, up to the answer. The page has nothing
\* more to offer from here on: what it shows is dropped now, not at the end.
ConfirmLeave ==
  /\ page = "open" /\ client = "web"
  /\ Send(Plain("leave"))
  /\ page' = "leaving"
  /\ Unmounted
  /\ UNCHANGED <<vars, client, link, joined, owed, silent, missed>>

\* No left_room within 1200 ms: POST /tables/me/leave-room, then the page goes, even if
\* the request has failed.
LeaveByPost ==
  /\ page = "leaving"
  /\ \/ HasPlayer(table, Me) /\ LeaveRoom(Me) /\ silent' = TRUE
     \/ UNCHANGED <<vars, silent>>
  /\ page' = "closed" /\ link' = "down" /\ joined' = FALSE
  /\ clicks' = <<>>
  /\ UNCHANGED <<client, shown, raise, chosen, auto, owed, missed>>

\* Back: the phone's page only drops its socket, the app emits leave_room.
GoBack ==
  /\ page = "open" /\ client # "web"
  /\ page' = "closed" /\ Unmounted
  /\ IF client = "phone"
     THEN link' = "down" /\ joined' = FALSE /\ clicks' = <<>>
     ELSE Send(Plain("leave")) /\ UNCHANGED <<link, joined>>
  /\ UNCHANGED <<vars, client, owed, silent, missed>>

\* A new page: its state is fresh, the app's socket is the one it had.
Open ==
  /\ page = "closed"
  /\ page' = "open"
  /\ IF client = "app" THEN Send(Plain("join")) ELSE UNCHANGED clicks
  /\ UNCHANGED <<vars, client, link, joined, shown, raise, chosen, auto, owed, silent, missed>>

PageNext ==
  \/ Broadcast \/ Announced \/ TurnTimesOut \/ GraceEnds \/ Deliver \/ DeliverLeave \/ Refuse
  \/ \E q \in Player \ {Me} : LeaveUnannounced(q)
  \/ Muck \/ AutoAct \/ Connect \/ Drop
  \/ ConfirmLeave \/ LeaveByPost \/ GoBack \/ Open
  \/ \E k \in Click : ClickButton(k)
  \/ \E amount \in RaiseInput : SetRaise(amount)

PageSpec == PageInit /\ [][PageNext]_allVars

----------------------------------------------------------------------------
(* What should be true of it *)

PageTypeOK ==
  /\ TypeOK
  /\ client \in Client /\ page \in {"open", "leaving", "closed"} /\ link \in {"up", "down"}
  /\ shown \in ViewShape /\ raise \in Nat /\ owed \in 0 .. MaxOwed /\ missed \in 0 .. MaxMissed
  /\ \A k \in DOMAIN clicks : clicks[k] \in ClickShape
  /\ {joined, chosen, auto, silent} \subseteq BOOLEAN

\* The page has nothing to wait for: it is in the room, no broadcast is due and no
\* join of its own is under way.  (The app's socket may be in the room before its new
\* page is: the leave of the last one is still on its way.)
Caught ==
  /\ page = "open" /\ joined /\ owed = 0
  /\ \A k \in DOMAIN clicks : clicks[k].kind # "join"

\* A page that is in its room and waits for no broadcast shows the table as it
\* is, whatever joined, left, timed out or was lost before; the one exception is
\* another player's POST leave-room, which the gateway does not announce.
PageCurrent == Caught /\ ~silent => shown = View(table)

\* The exception to what the page announces: the turn of a player who is all-in never
\* times out (getTimeoutAction is null, see HandEnds), although autoCheck or autoFold is
\* counted down for him too; one who is sitting out is folded, whatever is announced.
AnnouncedInVain == table.status[table.active] # "ACTIVE"

\* When the page shows its player in turn, what its buttons offer is what the
\* server will take: the check exactly when the table lets him check, the call
\* unless he has no chips left to call with, the fold always. Pressing no button in
\* time does what the page announces, unless it is announced in vain.
OfferTaken ==
  Caught /\ ~silent /\ shown.turn = "live" =>
    /\ \A k \in Offered(shown) \ {"raise"} :
         Accepts(table, ClickOn(k, shown)) \/ table.stack[table.active] = 0
    /\ CanCheck(table) <=> "check" \in Offered(shown)
    /\ \/ AnnouncedInVain
       \/ /\ TimeoutDue
          /\ \A rank \in Deals :
               TimedOut(rank) =
                 Finish(IF TimeoutAction(shown) = "autoCheck" THEN Check(table) ELSE Fold(table), rank)

\* A click that is carried out while the turn it was made in lasts moves the
\* chips its button named, or all the player has: nothing that others do in the
\* meantime changes the price. (A click that comes late, from an earlier turn,
\* is carried out in the next one at whatever that costs.)
ClickCostsItsPrice ==
  [][LET c == Head(clicks)
         i == SeatOf(table, Me)
     IN  Len(clicks') < Len(clicks) /\ c.kind \in TurnClick /\ c.turn = "live" /\ Deliver =>
           table'.totalBet[i] - table.totalBet[i] = Least(c.price, table.stack[i])]_allVars
=============================================================================
