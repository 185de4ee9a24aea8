# A verification project for the Texas hold'em server

The repository is an online poker platform: a NestJS server
(`src/apps/backend`), web, phone and admin clients (`apps/web`, `apps/admin`,
`apps/mobile`), a shared package, and a local chain with a test token. The server
holds everything that has to be right: the chips on the tables, the chips in the
wallets, and the money that comes from the chain and goes to it. This directory
holds TLA+ models of it and of the clients it talks to, TLC configurations, and
TLAPS proofs.

Paths below are relative to `src/apps/backend/src/` unless they start with
`apps/` or `packages/`.

## The system

| Part | State | Operations | Talks to |
|---|---|---|---|
| Table engine, `table-engine/table.ts` | seats (stack, bet, totalBet, status, cards), pot, currentBet, stage, turn, dealer, straddle, last result, deadlines | sit down, leave, ready, start a hand, `processAction` (fold, check, call, raise, allin, straddle, sit-out), streets, showdown, reset | called by the gateway and the table manager; synchronous |
| Hand evaluator, `table-engine/hand-evaluator.ts` | none | best five of seven, winners | called by the showdown |
| Room flow, `websocket/app.gateway.ts` | per room: action, settlement and ready timer, a promise chain (the room lock); per user: the disconnect grace timer | a handler per socket event and per timer, recovery after a restart | everything |
| Table manager, `table-engine/table-manager.service.ts` | tables in memory, snapshots in Redis and SQLite | recover, persist, settle balances, leave and dissolve | table, wallet, rooms |
| Wallet, `wallet/wallet.service.ts` | balance, chips, frozen chips, User.coinBalance | set, freeze, unfreeze, exchange | table manager, withdraw, deposit, admin |
| Withdrawals, `withdraw/withdraw.service.ts` | requests and their transaction hashes | create, approve, reject, execute, refund, cron | wallet, chain |
| Deposits, `deposit/deposit.service.ts` | addresses, deposits seen, block cursor | create an address, faucet, poll | wallet, chain |
| Sessions, `auth/`, `websocket/` and `packages/shared/src/socket.ts` | the token of each browser, the session in Redis, the connections, the grace timer | log in, log out, connect, lose and close connections | Redis, seats |
| Matchmaking, `matchmaking/matchmaking.service.ts` | which player it has sent where (in memory) | find or create a room, record joins and leaves | rooms, lobby page |
| Room pages, `apps/web`, `apps/mobile` | the last `room_update`, the clicks under way | show, click, leave, reconnect | gateway |
| Sign-up, profile, rooms, admin lists, e-mail, bots | database rows | create, read, update, delete | - |

What is hard in it: client messages arrive at any time and `processAction` asks
only whose turn it is; timers race the players and take no lock, nor does
`join_room`; nearly every handler awaits the database half-way; a restart recovers
a table from one of two snapshots and the wallets from a third place; players
leave and seats are taken in mid-hand; withdrawals and deposits straddle a
database and a chain with no transaction over both; pages act on what they last
received. `PROJECT.json` lists each hazard at its line and the properties that
would catch it going wrong.

## What is modelled

Where handlers run from await to await, a call is a *job*: `at` says what it
waits for, its other fields what it has read. An action is one awaited operation
and the code up to the next await. Operators whose comment starts with "Mutant"
are plausible bugs beside the operator they alter. Variables called *history* do
not exist in the code: they remember what a property has to except.

| Module | Code | How |
|---|---|---|
| `TableEngine`, `ChipCount` | `table.ts` | a table is a record of functions of the seat; every method is an operator from table to table |
| `SidePots`, `Showdown`, `HandEvaluator` | `performShowdown`, `buildPots`, `hand-evaluator.ts` | the loops, an iteration at a time, after hands ranked from cards |
| `PokerTable` | gateway handlers on one table | one action per handler, timer or client action |
| `RoomFlow` | the same handlers, from await to await | the lock, the three countdowns, their timers in and out of the maps, restarts |
| `SeatLedger` | join, leave, recovery, dissolution | the tables in memory, two snapshots, wallets, from await to await |
| `Bank` | deposits, exchanges, adjustments | polls, checks per address, wallet calls, blocks |
| `Withdraw` | withdrawals | calls, cron, chain, crashes |
| `Session` | login to logout | tabs, browsers, connections, Redis, grace timer, seat |
| `Matchmaking` | quick match | lobby pages, calls, records, rooms |
| `RoomPage` (extends `PokerTable`) | three room pages | view, buttons, clicks, connection, broadcasts owed |
| `SeatPromise`, `BankPromise`, `WithdrawPromise` | - | what the seats, the wallet and the withdrawals promise |
| `MC*`, `*Claims` | - | symmetry and bounds for TLC; what documents claim |
| `*Proofs` | - | the theorems |

**TableEngine.** The branches of `processAction` are pairs: `CanRaise` is what lets
the branch return true, `Raise` what it assigns; `Finish` is the tail every branch
runs (fold win, closing the round, the auto-fold of a player who sits out). The
two auto-folds and three copies of the fold win in the code are one operator each,
as they differ only in what they log. The second `case 'straddle'`
(table.ts:887-922) is unreachable and left out. Cards are abstracted to the rank
of the best hand, 0 for a newcomer who was dealt none and plays the board. Sums of
chips are cardinalities of sets of chips (`ChipCount`) and pots are sets, so
there is no recursion. `SidePots` shows that the code's loops compute `Payout`, the
expression used here, and `Showdown` puts the evaluator in front of them.

**PokerTable.** `table` and `wallet` (the available chips of each player). Client
actions have no guard on the stage, because the code has none: bets after the
settlement are part of it.

**RoomFlow.** The table is its stage, whether its turn has a timeout action, and
its three deadlines. Timers exist whether or not they are still in their map: one
that is overwritten by a second call is lost, and fires. Time is in ticks. There are two
ways to leave, which share `LeaveCurrentRoom`: by the socket (or the grace timer), under
the lock, after which the gateway schedules what comes next; and by POST
`/tables/me/leave-room`, without the lock, after which nobody does. `posted` remembers
that the stage or the turn came about that way.

**SeatLedger.** `chips`, `frozen`, `tables`, `redis`, `sqlite`, `open`, `lock`; a hand is
one chip that changes hands (`Play`). It refines `SeatPromise` (one seat at most,
chips belong to who carries or plays with them, only players of the table win
them) until one of four mishaps: calls of one user that overlap, a deposit to
somebody who is seated, a write Redis has missed, a crash in the middle of a call.
After it the mapping is `void` and nothing more is promised: what is shown is that
the list is complete.

**Bank.** One chip stands for the amount of a transfer. A transaction may make several
transfers (`Mine`), to the same user or to different ones; a deposit is recorded by its
transaction (`Recorded`), so that only one of them ever is. A behaviour is followed up to
the first crossing of two writers of a wallet, or until a deposit has been credited and
not recorded (`broken`). It refines `BankPromise`: a
deposit counts once, and apart from deposits only the administrator changes what a
user owns in chips, USDT and requested withdrawals.

**Withdraw** refines `WithdrawPromise` (deducted, then paid once or refunded once)
until one of four mishaps: a wallet written from a stale read; two calls acting on a
request; a chain or database call that throws after the transfer was sent; a crash
or failing call between sending and saving the hash, or between a refund and its
status.

**Session** has one user; `sock[s].at` is what `handleConnection` awaits. `lost` and
`told` remember the exceptions that `SeatWatched` and `LoginKept` name. A page "aside" is
the home page or the settings: it has no connection, but its requests may fail, and
then the token goes.

**Matchmaking** keeps the service's records apart from who sits where, as the code
does. Ratings stay as they are; `updateElo` is not modelled. The lobby says that it is
searching before it looks for its token, so a search may send nothing (`SearchInVain`), or
be sent over a socket that has just replaced the lobby's and has none of its handlers
(`SearchDeaf`).

**RoomPage.** `owed` counts the broadcasts handlers still have to send. An update in
flight is not told apart from a player slow to look, so `Broadcast` emits and shows.
`MaxMissed` bounds how often the table changes while the page is cut off. A page
whose leaving is confirmed shows nothing more. `TimeoutAction` is what the page counts
down to, and `OfferTaken` compares it with what the server's timer does.

## Runs

| Run | Checks | Bounds | States |
|---|---|---|---|
| `table_three_seats` | `TypeOK`, `NoChipsCreated`, `SettlementLoss`, `ChipsConservedInHand`, `PotCoversBets`, `AllInMeansNoChips`, `StreetsSettled`, `OnlyActorPays`, `TimeoutsProgress` | 3 players and seats, 2 chips each, blinds 1, raises to 2, rake 50% up to 1, sitting down in WAITING and RIVER, 1 late bet | 640 thousand |
| `side_pots` | `HandsAreBest`, `PotsHoldLevels`, `PaysPayout`, `BestHandIsPaid`, `NobodyWinsUnmatched` | 3 seats, contributions 0, 1, 2, 3, 5, any folds | 78 thousand |
| `withdraw_calls` | `TypeOK`, `ConfirmedIsPaid`, `FailedIsRefunded`, `PromiseKept`, `ProcessingEnds` | 1 request, 2 calls at once, 1 crash or failing database call | 986 thousand |
| `room_timers` | `FlowAlive`, `SettledOnce`, `LateTimeouts` | 2 calls at once, 3 timers, countdowns of 2 and 3 ticks, 2 moves a hand | 3.6 million |
| `room_restarts` | `SettlementEnds` | 1 call, 2 timers, 2 restarts | 64 thousand |
| `seats` | `TypeOK`, `NothingStranded`, `SeatedMeansFrozen`, `PromiseKept` | 2 users, 2 calls at once, 2 rooms, or 1 with a trade or with faults | 927 thousand |
| `bank` | `PromiseKept`, `NothingSkipped`, `CoinShowsChips` | 2 users, one with an address, 2 transfers, 2 polls, 1 call, 2 blocks, 1 fault | 884 thousand |
| `sessions` | `TypeOK`, `OneDevice`, `SeatWatched`, `BackInTime`, `LoginKept` | 2 tabs in 1 or 2 browsers, 2 connections at once, 2 logins | 1.8 million |
| `matchmaking` | `SearchAnswered`, `MatchFits` | 3 users, 2 calls at once, 2 rooms of 2, 3 moves | 2.2 million |
| `room_page` | `PageCurrent`, `OfferTaken`, `ClickCostsItsPrice` | 2 players of 3 chips, 3 kinds of page, 1 broadcast owed, 1 change missed, 1 click under way | 2.3 million |
| `claim_hand_ends` | `HandEnds`, refuted | 2 players | until refuted |
| `claim_restart_resumes` | `RestartResumesSettlement`, refuted | as `room_restarts` | until refuted |

Why the bounds are enough. At the table, stacks of two big blinds make the blinds
and one raise leave players all-in at different levels, later hands are played
with stacks of 0 to 6, and a newcomer at the river sits among dealt players; the
rake percentage is large so that small pots are raked, and its cap is reached;
`MaxLateBet` is needed because nothing in the code ends betting after a
settlement. Wherever calls overlap, two at once give every pair of calls in every
order, and the third party is a timer, a poll, the chain or a crash. One fault
falls between any two steps. A user sits at a second table, a second device logs
in, a second room is found: with two of each. `SeatLedger` takes the second room, the
trade and the faults in turn, because together they are too many states; each
alone meets every step. In `Session` an outage of Redis begins and ends before the
last login, and tokens do not expire. `Matchmaking` was also simulated with 4
users, 3 calls and rooms of 3. In `RoomPage` a stack of 3 over a big blind of 2
makes capped bets; the amount 4 is more than a player has. What is proved below
holds for all values of the bounds.

All runs say `CHECK_DEADLOCK FALSE`: the bounds stop the system, and a table with
fewer than two players who can pay really stops.

### Fairness

Two runs check liveness, and `claim_hand_ends` and `claim_restart_resumes` refute it.

- `Withdraw.FairSpec`: a job's next step is weakly fair (Node runs it), so is the
  chain; the cron is strongly fair: it ticks every five minutes, but in the model it
  needs a free place in `Job` that other calls may take. Administrators, users and
  failures are not fair.
- `RoomFlow.FairSpec`: calls go on (weakly); time passes and a timer that is due
  fires (strongly, since other steps disable them in between). Nothing is assumed of the
  clients: a socket gives up after ten attempts (packages/shared/src/socket.ts:79), so
  after a restart somebody may come back or nobody. `SettlementEnds` speaks of what
  happens until the restart and again once somebody has come back (`restarted`).
- `PokerTable.FairSpec`: the three timers fire. Players are not assumed to do anything.

### What the refuted claims show

- `HandEnds` (table.ts:433): two players all-in before the river. `advanceStreet`
  deals one street per action; the turn stays with an all-in player, for whom
  `getTimeoutAction` answers null, and nothing deals the rest of the board.
- `RestartResumesSettlement` (app.gateway.ts:496): a restart between the write of the
  stage SETTLEMENT and that of its deadline leaves a settlement nothing ends.

## Proofs

All theorems are about the specifications TLC runs, for every value of their
constants, from the assumptions the modules name: blinds and buy-in positive, the
rake between 0 and 100 percent, model values that are none of the things they stand
beside, a turn longer than one tick (`TurnAssumption`: 20 s against the few database
writes of a call), and, where something is counted, finitely many seats, sockets,
users, calls.

| Module | Theorems |
|---|---|
| `PokerTableProofs` | `TypeCorrect`, `PotAlwaysCovers`, `AllInAlwaysBroke`, `StreetsAlwaysSettled` (from `Invariance`), `ChipsNeverCreated`, `HandsConserveChips`, `SettlementCost` (from `ChipInvariance`), `OnlyActorEverPays`, `TimeoutsAlwaysProgress`; of `RoomPage`: `PageTypeCorrect`, `PagesAlwaysCurrent`, `OffersAlwaysTaken`, `ClicksCostTheirPrice` (from `PageInvariance`) |
| `TableEngineProofs` | `PotsAlwaysHoldLevels`, `LoopsPayPayout`, `BestHandAlwaysPaid`, `UnmatchedNeverWon` (from `LoopsInvariant`), `HandsAlwaysBest`, after the lemmas about the engine that `PokerTableProofs` rests on |
| `RoomFlowProofs` | `TypeCorrect`, `FlowStaysAlive`, `SettlesOnce`, `TimeoutsInTime` (from `Invariance`) |
| `WithdrawProofs` | `TypeCorrect`, `ConfirmedOnlyIfPaid`, `FailedMeansRefunded`, `WithdrawalsKeepPromise` |
| `BankProofs` | `TypeCorrect`, `NothingIsSkipped`, `CoinsShowChips`, `BankKeepsPromise` |
| `SeatLedgerProofs` | `TypeCorrect`, `SeatedMeansAlwaysFrozen`, `NothingEverStranded`, `SeatsKeepPromise` |
| `SessionProofs` | `TypeCorrect`, `SingleDevice`, `SeatsWatched`, `ReturnBeatsTimer`, `LoginsKept` |
| `MatchmakingProofs` | `SearchesAnswered`, `MatchesFit` |

**The table.** `TypeOK` is not inductive: a straddle moves `2 * BigBlind - bet` chips,
which is negative over a bigger bet, so the pot stays a natural number only because
it covers the player's contribution. `IInv` says that the table is `Sound`
(`TableEngineProofs`): typed; bets at most the contributions; empty seats dealt
nothing; during a hand the pot covers the contributions, stacks match statuses, and
closed streets are even among dealt players still betting. There is one lemma per
operator (`CallSound`, `FinishSound`, ...) and one per action. For the chips,
`ChipInv` adds that empty seats hold nothing, that a player sits once and has
brought his whole wallet, that no pot and no turn is open between hands and no
result during one; `Carried` and `Moved` say what a move does to the
sum and compose with the tail of `processAction`. That a showdown pays at most the
pots is a double count of the contributions, seat by seat and level by level
(type of a sum, splitting it at an owner, exchanging two sums). For
`TimeoutsProgress`, what a timeout changes is followed through `processAction`: if nobody less is waited for, the
turn goes clockwise to somebody still betting, and the next who owes an action lies
beyond him (`CloserAhead`).

**Showdown.** The loops of `buildPots` and of the payout are checked against the
definitions by levels (`PotOf`, `Payout`) that the table uses, and `PaysPayout` says what
these mean: an even share of each pot for its winners and the odd chips for one of them
(`PotShareSplit`). The invariant
pairs the pots built so far, in order, with the levels passed that a player still in
has reached: each pot holds the chips that `PotOf` puts in the pot of its level, up to
the level the loop is at. A step opens a pot, adds to the last one or has nothing to
add to (`OpenPot`, `FillPot`, `SkipPot`). At the end every chip of an open level is in its
pot (`BuiltTotal`), and after k pots everybody has won his shares of the first k
levels (`PaidOut`). Assumed: somebody has a contribution, and there are players enough
to fill the seats.

**Hands.** `HandsAlwaysBest` is about all cards; TLC deals some. `Direct`, the reference,
never looks at five cards, so the two are brought to a common form: the score of
`Evaluate5`, and that of `Direct`, is one of nine readings, which say of which ranks the
cards are, how many of each, and in which order they break ties (`EvaluateReads`,
`DirectForm`). The first rests on counting: the ranks sorted by the size of their groups fall in
size, and the sizes add up to five (`SortedAll`, `FiveGroups`). Then, reading by
reading, no five of the seven beat the reference (`NoneBetter`), and the five cards it
has in mind are among them (`DirectMade`). Of two different scores one beats
the other (`OneBeats`), so `BestHandFrom` has no choice but the reference (`BestHandIs`). Assumed:
nobody's cards are on the board (`CardAssumption`).

**Room flow.** None of the three properties is inductive: they speak of the moments when
no call is in progress, of one step, or of one timer, and calls in progress decide
them. `IInv` follows who carries the flow. `Flowing`: until a restart, a stage that needs a
timer has a live one or a call that has yet to set it (`Carries`), whatever order the calls
come in, unless it came about by a POST departure. `Expected`: a timer that has been cleared and is still in its map is about to be
replaced by a call at its write. `Recording`: a hand that goes on after it was
recorded has a call at the record, and until two are, that call is the only one and
the table waits for it. `OnTime`: once the call that moved the turn has gone
on, an action timer of an earlier turn is about to be replaced before it is due, or
another timer has got loose; here the age of a call counts, and with it
`TurnAssumption`. Every action is a call that goes from one place to the next while
table and timers change in one of a few ways (`Goes`, with one lemma per way: setting,
clearing, firing, emptying the map), so each conjunct is proved once per way and
the actions only say which way is theirs. TLC has two calls and three timers; the
theorems have any number.

**Withdrawals.** `IInv` says per request: what each job has read stays true for as long
as it will act on it (`JobSound`), each status has its cause (`RequestSound`), and, as long as
the request is not void, at most one call acts on it and what it relies on holds, or
it rests. The refinement has one lemma per kind of step of the promise (`Opens`,
`Pays`, `Refunds`, `Changes`, `Voids`, `Stutters`).

**Bank.** `Typed` adds to the types what each check, poll and call is about. `Scanned` adds to
`NothingSkipped` what each poll knows: its range ends before the latest block (or a
reset has made everything missed), what precedes the range is dealt with, and what is
in it is dealt with or expected by the check of its address. `Accounts` holds until
two writers cross: a check or a call that is not stale knows the current chips, its
deposit is not credited yet, an exchange finds the chip it deducts (so that
`setBalance`'s floor at zero never bites), and `coinBalance` plus the exchanges that are
about to write it is the chips. TLC runs one wallet call; the theorems have any
number of calls and polls.

**Seats.** `SeatedMeansFrozen` and the refinement need to know what a call may still
write. Until a mishap, `Sound` says of each call that what it has read is still so
unless it is marked stale (`CallRight`), of each wallet that chips are frozen for a
seat, or for who has just left one (`WalletRight`), of each table in memory that its
snapshots equal it unless a write was lost or a call is about to write them
(`InStep`), and of each table that is only on disk that its two snapshots agree and seat
nobody whom another seats (`OnDisk`): that is what lets a restart bring everybody back to
one table. What a step leaves of the other calls is said once (`Moves`, `Frame`), what it
does to the tables once per kind of step (`Quiet`, `Changes`, `Writes`, `Dissolves`,
`Deletes`), and each kind maps to a move of the promise or to nothing (`SitsDown`,
`StandsUp`, `Wins`, `Spends`, `Keeps`). After a mishap only `Typed` is left. TLC has two
users, two rooms and two calls; the theorems have any number.

**Sessions.** `IInv` has which connections a page may be attached to, that two
connections of the user are never both past `KickOthers` without one knowing of the
other (`Rivals`), what a comparison with Redis has seen (`Compared`), that no login is
newer than the last one issued, and that a page's connection carries the token of
its browser or a force_logout is excused (`OwnToken`).

**Matchmaking.** Who is recorded in a room that is not odd fits it; for that, what a
check has looked at (`Checked`) and where a checked room comes from (`Comes`) is kept
until the record is written, and `InLobby` says that only pages in the lobby search.

**Pages.** `PageCurrent` speaks of the moments when no broadcast is owed, and rests on
how each step ends such a moment: a change of the table owes a broadcast
(`StillToTell`), is the one that is not announced, or takes the page out of the room
(`NotCaught`); a refused join of a seated player owes one as well. `PageInv` has what that needs: a
socket in the room is connected and its player seated, a closed web page has no
connection (`Attached`), nobody sits twice (`SitsOnce`). For prices it says that what the
page shows of its player's turn (`Figures`) and the price of every click made in it
(`AllCosted`) are so while the turn lasts: what others do in that time, which is to
sit down or leave, changes neither his bet nor the current one (`MineStays`), and every
move of his own ends the turn. `PlayerPays` says what each move takes. `OfferTaken`
needs no more than `Figures`: it is true even of a page that waits for an update.
TLC has one click under way; the theorems have any number, any raises and players.

Flaws came to light because a proof failed. A CASE with several true
arms is any one of them in TLA+, while TLC takes the first: such arms were made
disjoint in `Withdraw.OutcomeOf`, `SeatLedger.Recovered` and `RoomFlow`. Constants that
stand for "nothing" had to be told apart from the records they share a set with.
`SeatLedger.Play` did not mark the calls about to write an older snapshot of its room as
stale, so that such a write could bring old stacks back without a mishap on record: TLC
shows it with three users at one table, one more than the run has. And `FlowAlive`
and `LateTimeouts` were true of the two calls of their run but are not of four at once
with a settlement no longer than a call: `finalizeActionTimeout` and `leaveCurrentRoom`
choose what follows by the stage before their writes, so a call that saw one hand end,
overtaken by others that settle it and deal the next, begins a settlement countdown
in the middle of the new hand and clears its action timer. Both properties now name
that (`Crossed`), and say which loose timers they mean. `PageCurrent` was true of one
click under way and is not of two: the app keeps one socket, so a page that is opened
while the leave of the last one travels is in the room without having been sent
anything. `Caught` now asks that no join of its own is under way (TLC agrees with two
clicks, for each kind of page).

Only model-checked, being out of the prover's reach: liveness under fairness (`ProcessingEnds`, `SettlementEnds`).

## Where the code does not do what one might expect

Seen while modelling. Those that a property could express are the exceptions that
property names.

- *Table.* A raise cut short by the stack lowers `currentBet` (table.ts:842-849; against
  TEXAS_HOLDEM_RULES.md:44), after which an earlier bet is never matched. Showdowns
  are not raked (table.ts:1052, against the comment at 1048; `UnrakedShowdown` in
  `SettlementLoss` names it). What a player who has
  left had put in is in no pot and is lost (table.ts:1121). The odd chip goes to the
  lowest seat (against TEXAS_HOLDEM_RULES.md:116; `OddChips` in `PaysPayout` names it). A newcomer without cards plays the
  board. When the player in turn leaves, the turn can go to one who has already acted.
  Heads-up the button does not post the small blind.
- *Room flow.* `finalizeActionTimeout` takes no lock: timers that are late, or lost from
  their map, time the next player out. Overlapping settlements are recorded twice, and
  `resetToWaiting` can hit a new hand. A call that saw the last
  hand end and is overtaken for as long as its settlement lasts begins a settlement in
  the middle of the next, whose action timer it clears; with three calls at once a
  ready countdown can be begun there. Every departure restarts the 20 seconds, every
  late action the 5. Leaving by POST (table-engine.controller.ts:36-47) takes no lock and
  schedules nothing: a hand that ends that way is settled by nobody, until a late action
  or another departure, and a turn passed that way keeps the timer of the last one, which
  times the next player out. 产品文档.md:266 says Redis lock; it is a promise chain in memory,
  which joins and timers do not take.
- *Seats.* A snapshot written after a dissolution brings a ghost seat back; a join on a
  Table that has left the map strands frozen chips; two overlapping joins seat a user
  at two tables, although wallet.service.ts:124-126 says that frozen chips prevent it;
  a deposit to somebody seated is overwritten by the next settlement; `deleteRoom`
  (admin.service.ts:207) does not look at who is seated.
- *Bank.* A failed query of one address while another succeeds passes over its deposits
  (against schema.prisma:179). Of two transfers of one transaction the second is never
  credited (deposit.service.ts:246), or, if two polls or two addresses are at it at once,
  credited and refused by the unique index, which fails its query. A crash, or a failing
  database call, between the credit and the record, or two polls at
  once, credits twice. Two exchanges at once clamp at zero, or make `Wallet.balance`
  negative. `adjustBalance` never changes chips. Two users can be given the same
  derivation index: the second call fails. `completeWithdrawRequest` and
  `rejectWithdrawRequest` are called by nobody.
- *Withdrawals.* The cron pays again a request whose hash is not saved yet
  (withdraw.service.ts:486-490); requests whose hash was saved before a restart are
  confirmed by nobody; the cron looks at the ten oldest only.
- *Sessions.* Two tabs of a browser log each other out. An old page whose
  `handleConnection` ends late closes the user's own new connection. Redis failing
  in the comparison rejects a valid session. A connection that counted as "another one"
  and is then rejected leaves a seat nobody frees; so does a restart, which loses the
  grace timers. A failed request of the lobby, of the home page or of the settings removes
  a token that is valid. The app joins only when
  its page opens (against 产品文档.md:246); the grace period is 15 s (产品文档.md:244: 30 s).
- *Matchmaking.* A player who cancels or is refused stays on record for ever; leaving by
  POST or by the grace timer is not recorded; quick matches at once overfill the count
  or create a room each; a question lost with its connection leaves the page searching, and so does one that was
  not sent for want of a token (rooms/page.tsx:832-836) or went out over a new socket
  (packages/shared/src/socket.ts:70-86).
  `updateElo` counts a returned bet as a win. Nobody writes `HandAction` rows, so
  `checkCollusion` refuses nobody.
- *Pages.* A click carries no turn, so one that is late or buffered acts in the next
  turn. The phone's own timeout usually comes after the server's. The app's
  all-in button sends 'all-in', which the server does not know. A raise below the
  server's minimum is offered and refused silently. To an all-in player in turn the web
  page announces a timeout that never comes (room/[id]/page.tsx:893, table.ts:433;
  `AnnouncedInVain`). Leaving by POST is not announced. An app page reopened before the leave of the last
  one arrived is put out of the room by it and joins again.

## Not modelled, and the plan

Not modelled: sign-up and e-mail codes, rate limits, profiles, room and admin lists
(single rows, or keys with an expiry); `updateElo`; fractional amounts, which the
phone's buttons can send; the contents of masked views beyond what the buttons use;
hand history, pot odds (used by nobody), bots (every call that would seat one is
disabled), health, e-mail, rendering; the test token. The cron's limit of ten is
listed as a hazard without a property. `TimeoutsProgress` says nothing while a bet is above
the current one (`Overbet`), which is a hazard of its own. A database that fails while a
handler of the gateway saves the table, before it broadcasts (app.gateway.ts:823-831), is
not among the failures of `RoomFlow` and `RoomPage`; nor is `leaveCurrentRoom` by POST
a call of its own in `SeatLedger`, where what it can cross is the mishap of overlapping
calls. Tokens do not expire in `Session`, and the browsers there are used by one user.

Next: the rating updates of `updateElo`, and the cron's limit of ten, which needs more
requests than one.
