-------------------------------- MODULE Bank --------------------------------
(***************************************************************************)
(* The money of a user who is at no table: the deposits found on the chain *)
(* (apps/backend/src/deposit/deposit.service.ts), the exchanges between    *)
(* chips and USDT (wallet/wallet.service.ts) and the adjustments of the    *)
(* administrator (admin/admin.service.ts).  One chip stands for the amount *)
(* of a transfer, and for its value in USDT.  A transaction of the chain   *)
(* holds one transfer or several.                                          *)
(*                                                                         *)
(* Polls and calls run from one await to the next; an action is what one   *)
(* awaited operation does, and the code up to the next await.              *)
(***************************************************************************)
EXTENDS Integers, FiniteSets, FiniteSetsExt

CONSTANTS
  User, Transfer,
  Known,        \* the user who has an address at first, if any
  Poll,         \* bound: the polls that overlap.  A poll starts every 30 s
  Call,         \* bound: the wallet calls in progress at once
  Bankroll,     \* the chips and the USDT of each user at first
  Nothing,      \* not in any of these sets
  Window,       \* blocks scanned without a cursor (1000)
  ResetWindow,  \* blocks scanned after a reset of the node (100)
  MaxHeight,    \* bound: blocks
  MaxFaults,    \* bound: failures of the node or the database, restarts of either
  MaxCalls      \* bound: wallet calls

ASSUME UserAssumption == IsFiniteSet(User) /\ IsFiniteSet(Call)
\* Where a transfer is: its transaction is known by one of its transfers.
Places == [to : User, block : Nat, tx : Transfer]

ASSUME NothingAssumption == Nothing \notin User \cup Transfer \cup Nat \cup Places
ASSUME KnownAssumption  == Known \subseteq User /\ Cardinality(Known) <= 1
ASSUME WindowAssumption  == Window \in Nat /\ ResetWindow \in Nat
ASSUME BoundAssumption   ==
  {Bankroll, MaxHeight, MaxFaults, MaxCalls} \subseteq Nat

VARIABLES
  height,     \* the latest block
  mined,      \* where each transfer is, if it is mined: whose address, block, transaction
  index,      \* the derivation index of each user's address
  cursor,     \* ScanCursor
  records,    \* the transfers with a DepositRecord
  chips, coin, usdt,  \* Wallet.chips, User.coinBalance, Wallet.balance
  requested,  \* the chips in withdraw requests
  cooling,    \* faucetCooldowns: who has to wait
  poll,       \* the polls
  check,      \* checkAddressDeposits of each poll, for each address
  call,       \* the wallet calls
  missed,     \* history: the transfers a failed query or a reset has passed over
  adjusted,   \* history: what the administrator has given to each user
  broken,     \* history: two writers or a restart have crossed, or a deposit is not recorded
  faults, calls

chain  == <<height, mined>>
wallet == <<chips, coin, usdt, requested>>
jobs   == <<poll, check, call>>
counts == <<faults, calls>>
vars   == <<chain, index, cursor, records, wallet, cooling, jobs, missed, adjusted, broken, counts>>

NoPoll  == [at |-> "idle", from |-> 0, to |-> 0]
NoCheck == [at |-> "none", left |-> {}, tx |-> Nothing, balance |-> 0, stale |-> FALSE]
NoCall  == [at |-> "idle", user |-> Nothing, n |-> 0, balance |-> 0, stale |-> FALSE]

Polls  == [at : {"idle", "reset", "find", "settle"}, from : Nat, to : Nat]
Checks == [at : {"none", "query", "check", "read", "write", "record", "done", "failed"},
           left : SUBSET Transfer, tx : Transfer \cup {Nothing}, balance : Nat,
           stale : BOOLEAN]
Calls  == [at : {"idle", "request", "balance", "deduct", "convert", "coin", "create", "mint", "cool"},
           user : User \cup {Nothing}, n : Nat, balance : Nat, stale : BOOLEAN]

TypeOK ==
  /\ height \in 0..MaxHeight
  /\ mined \in [Transfer -> Places \cup {Nothing}]
  /\ index \in [User -> Nat]
  /\ cursor \in Nat \cup {Nothing}
  /\ records \subseteq Transfer /\ missed \subseteq Transfer
  /\ chips \in [User -> Nat] /\ coin \in [User -> Nat]
  /\ usdt \in [User -> Int] /\ requested \in [User -> Nat]
  /\ cooling \subseteq User /\ adjusted \in [User -> Nat]
  /\ poll \in [Poll -> Polls] /\ check \in [Poll -> [User -> Checks]]
  /\ call \in [Call -> Calls]
  /\ broken \in BOOLEAN
  /\ faults \in 0..MaxFaults /\ calls \in 0..MaxCalls

Init ==
  /\ height = 0
  /\ mined = [t \in Transfer |-> Nothing]
  /\ index = [u \in User |-> IF u \in Known THEN 1 ELSE 0]
  /\ cursor = Nothing
  /\ records = {} /\ missed = {}
  /\ chips = [u \in User |-> Bankroll] /\ coin = chips /\ usdt = chips
  /\ requested = [u \in User |-> 0]
  /\ cooling = {} /\ adjusted = [u \in User |-> 0]
  /\ poll = [p \in Poll |-> NoPoll]
  /\ check = [p \in Poll |-> [u \in User |-> NoCheck]]
  /\ call = [c \in Call |-> NoCall]
  /\ broken = FALSE
  /\ faults = 0 /\ calls = 0

Fault == faults < MaxFaults /\ faults' = faults + 1

AtLeastZero(n) == IF n > 0 THEN n ELSE 0

----------------------------------------------------------------------------
(* History: who goes on with what he read of u's wallet when another one   *)
(* writes it                                                               *)

\* t: the deposit that is written, or Nothing
StaleChecks(u, t) ==
  [p \in Poll |-> [check[p] EXCEPT ![u].stale =
     @ \/ check[p][u].at = "write" \/ (check[p][u].at = "read" /\ check[p][u].tx = t)]]

StaleCalls(u, at) ==
  [c \in Call |-> [call[c] EXCEPT !.stale = @ \/ (call[c].user = u /\ call[c].at \in at)]]

\* Mutant: User.coinBalance is forgotten.
SetChips(u, n) ==
  /\ chips' = [chips EXCEPT ![u] = AtLeastZero(n)]
  /\ UNCHANGED coin

\* The chips of u become n, and so does User.coinBalance.
SetBalance(u, n) ==
  /\ chips' = [chips EXCEPT ![u] = AtLeastZero(n)]
  /\ coin' = [coin EXCEPT ![u] = AtLeastZero(n)]

----------------------------------------------------------------------------
(* The chain (external): blocks are mined, and the node of a development   *)
(* chain may start again.                                                  *)

HasAddress(u) == index[u] # 0

Gone == MaxHeight + 1   \* the block of a transfer that the node has forgotten

Unmined == {t \in Transfer : mined[t] = Nothing}

\* (One transfer is like another: the first that is not mined yet, if any)
First == IF Unmined = {} THEN {} ELSE {CHOOSE t \in Unmined : TRUE}

\* A transaction makes the transfers of batch, t among them, each to the address of a user.
\* A block below the cursor is one that the node mines again.
Mine(t, batch, to) ==
  /\ t \in First /\ t \in batch /\ batch \subseteq Unmined
  /\ height < MaxHeight
  /\ \A o \in batch : HasAddress(to[o])
  /\ height' = height + 1
  /\ mined' = [o \in Transfer |->
       IF o \in batch THEN [to |-> to[o], block |-> height', tx |-> t] ELSE mined[o]]
  /\ missed' = IF cursor # Nothing /\ height' <= cursor THEN missed \cup batch ELSE missed

Arrive(t, batch, to) ==
  /\ Mine(t, batch, to)
  /\ UNCHANGED <<index, cursor, records, wallet, cooling, jobs, adjusted, broken, counts>>

Active(p) == poll[p] # NoPoll

NodeRestarts ==
  /\ Fault
  /\ height' = 0
  /\ mined' = [t \in Transfer |-> IF mined[t] = Nothing THEN Nothing ELSE [mined[t] EXCEPT !.block = Gone]]
  /\ missed' = IF \E p \in Poll : Active(p) THEN Transfer
               ELSE missed \cup {t \in Transfer : mined[t] # Nothing}
  /\ UNCHANGED <<index, cursor, records, wallet, cooling, jobs, adjusted, broken, calls>>

----------------------------------------------------------------------------
(* pollDeposits *)

\* Mutant: the first block after the cursor is left out.
FromNext == IF cursor = Nothing THEN AtLeastZero(height - Window) ELSE cursor + 2

From == IF cursor = Nothing THEN AtLeastZero(height - Window) ELSE cursor + 1

\* (One poll is like another.)
Free == LET S == {p \in Poll : ~Active(p)} IN IF S = {} THEN {} ELSE {CHOOSE p \in S : TRUE}

\* The cursor and the latest block
PollDeposits(p) ==
  /\ p \in Free
  /\ poll' = [poll EXCEPT ![p] =
       IF From > height
       THEN [at |-> "reset", from |-> AtLeastZero(height - ResetWindow), to |-> height]
       ELSE [at |-> "find", from |-> From, to |-> height]]
  /\ missed' = IF cursor = Nothing
               THEN missed \cup {t \in Transfer \ records : mined[t] # Nothing /\ mined[t].block < From}
               ELSE missed
  /\ UNCHANGED <<chain, index, cursor, records, wallet, cooling, check, call, adjusted, broken, counts>>

ResetCursor(p) ==
  /\ poll[p].at = "reset"
  /\ cursor' = poll[p].to
  /\ poll' = [poll EXCEPT ![p].at = "find"]
  /\ UNCHANGED <<chain, index, records, wallet, cooling, check, call, missed, adjusted, broken, counts>>

\* depositAddress.findMany
FindAddresses(p) ==
  /\ poll[p].at = "find"
  /\ poll' = [poll EXCEPT ![p].at = "settle"]
  /\ check' = [check EXCEPT ![p] =
       [u \in User |-> [NoCheck EXCEPT !.at = IF HasAddress(u) THEN "query" ELSE "none"]]]
  /\ UNCHANGED <<chain, index, cursor, records, wallet, cooling, call, missed, adjusted, broken, counts>>

Succeeded(p, u) == check[p][u].at = "done"
AnySucceeded(p) == \E u \in User : Succeeded(p, u)

\* Promise.allSettled, and the cursor if any query has succeeded
Settle(p) ==
  /\ poll[p].at = "settle"
  /\ \A u \in User : check[p][u].at \in {"none", "done", "failed"}
  /\ poll' = [poll EXCEPT ![p] = NoPoll]
  /\ check' = [check EXCEPT ![p] = [u \in User |-> NoCheck]]
  /\ IF AnySucceeded(p)
     THEN /\ cursor' = poll[p].to
          /\ missed' = missed \cup {t \in Transfer \ records :
                 /\ mined[t] # Nothing /\ check[p][mined[t].to].at = "failed"
                 /\ mined[t].block \in poll[p].from..poll[p].to}
     ELSE UNCHANGED <<cursor, missed>>
  /\ UNCHANGED <<chain, index, records, wallet, cooling, call, adjusted, broken, counts>>

----------------------------------------------------------------------------
(* checkAddressDeposits *)

Goes(p, u, c) == check' = [check EXCEPT ![p][u] = c]

\* The events of a list are looked at in the order of their blocks.
NextEvent(left) ==
  IF left = {} THEN [NoCheck EXCEPT !.at = "done"]
  ELSE LET t == CHOOSE t \in left : \A o \in left : mined[t].block <= mined[o].block
       IN  [NoCheck EXCEPT !.at = "check", !.tx = t, !.left = left \ {t}]

Query(p, u) ==
  LET c == check[p][u]
      events == {t \in Transfer : /\ mined[t] # Nothing /\ mined[t].to = u
                                  /\ mined[t].block \in poll[p].from..poll[p].to}
  IN  /\ c.at = "query"
      /\ \/ Goes(p, u, NextEvent(events)) /\ UNCHANGED faults
         \/ /\ Fault
            /\ Goes(p, u, [NoCheck EXCEPT !.at = "failed"])
      /\ UNCHANGED <<chain, index, cursor, records, wallet, cooling, poll, call, missed, adjusted,
                     broken, calls>>

\* The transaction of t has a record: txHash is all that a record is looked up by.
SameTx(t, o) == mined[t] # Nothing /\ mined[o] # Nothing /\ mined[t].tx = mined[o].tx
Recorded(t)  == \E o \in records : SameTx(o, t)

\* History: the balance has t, the records do not.
Crediting(t) == \E p \in Poll, u \in User : check[p][u].at = "record" /\ check[p][u].tx = t

\* Mutant: nobody asks whether the deposit is recorded.
Unchecked(p, u) ==
  LET c == check[p][u]
  IN  /\ c.at = "check"
      /\ Goes(p, u, [c EXCEPT !.at = "read", !.stale = Crediting(c.tx)])
      /\ UNCHANGED <<chain, index, cursor, records, wallet, cooling, poll, call, missed, adjusted,
                     broken, counts>>

Check(p, u) ==
  LET c == check[p][u]
  IN  /\ c.at = "check"
      /\ Goes(p, u, IF Recorded(c.tx) THEN NextEvent(c.left)
                    ELSE [c EXCEPT !.at = "read", !.stale = Crediting(c.tx)])
      /\ UNCHANGED <<chain, index, cursor, records, wallet, cooling, poll, call, missed, adjusted,
                     broken, counts>>

Read(p, u) ==
  LET c == check[p][u]
  IN  /\ c.at = "read"
      /\ Goes(p, u, [c EXCEPT !.at = "write", !.balance = chips[u]])
      /\ UNCHANGED <<chain, index, cursor, records, wallet, cooling, poll, call, missed, adjusted,
                     broken, counts>>

Write(p, u) ==
  LET c == check[p][u]
  IN  /\ c.at = "write"
      /\ SetBalance(u, c.balance + 1)
      /\ check' = [StaleChecks(u, c.tx) EXCEPT ![p][u] = [c EXCEPT !.at = "record"]]
      /\ call' = StaleCalls(u, {"deduct", "coin"})
      /\ broken' = (broken \/ c.stale)
      /\ UNCHANGED <<chain, index, cursor, records, usdt, requested, cooling, poll, missed, adjusted,
                     counts>>

\* txHash is unique: a second record throws, and leaves its deposit without one.
Record(p, u) ==
  LET c == check[p][u]
  IN  /\ c.at = "record"
      /\ \/ /\ ~Recorded(c.tx)
            /\ records' = records \cup {c.tx}
            /\ Goes(p, u, NextEvent(c.left))
            /\ UNCHANGED broken
         \/ /\ Recorded(c.tx)
            /\ Goes(p, u, [NoCheck EXCEPT !.at = "failed"])
            /\ broken' = TRUE
            /\ UNCHANGED records
      /\ UNCHANGED <<chain, index, cursor, wallet, cooling, poll, call, missed, adjusted, counts>>

\* The database refuses a query of the check, which throws.
DatabaseFails(p, u) ==
  /\ Fault
  /\ check[p][u].at \in {"check", "read", "write", "record"}
  /\ Goes(p, u, [NoCheck EXCEPT !.at = "failed"])
  /\ broken' = (broken \/ check[p][u].at = "record")
  /\ UNCHANGED <<chain, index, cursor, records, wallet, cooling, poll, call, missed, adjusted, calls>>

----------------------------------------------------------------------------
(* The calls: addresses and the faucet *)

Starts(c, at, u, n) ==
  /\ call[c] = NoCall /\ calls < MaxCalls /\ calls' = calls + 1
  /\ call' = [call EXCEPT ![c] = [NoCall EXCEPT !.at = at, !.user = u, !.n = n]]
  /\ UNCHANGED faults

To(c, at) == call' = [call EXCEPT ![c].at = at]
Ends(c)   == call' = [call EXCEPT ![c] = NoCall]

GetOrCreateDepositAddress(c, u) ==
  /\ ~HasAddress(u)
  /\ Starts(c, "create", u, 1 + Max({index[v] : v \in User}))
  /\ UNCHANGED <<chain, index, cursor, records, wallet, cooling, poll, check, missed, adjusted, broken>>

\* Two users may have been given the same index: the second call fails.
CreateDepositAddress(c) ==
  LET u == call[c].user
  IN  /\ call[c].at = "create"
      /\ index' = IF HasAddress(u) \/ \E v \in User : index[v] = call[c].n THEN index
                  ELSE [index EXCEPT ![u] = call[c].n]
      /\ Ends(c)
      /\ UNCHANGED <<chain, cursor, records, wallet, cooling, poll, check, missed, adjusted, broken, counts>>

Faucet(c, u) ==
  /\ u \notin cooling /\ HasAddress(u)
  /\ Starts(c, "mint", u, 0)
  /\ UNCHANGED <<chain, index, cursor, records, wallet, cooling, poll, check, missed, adjusted, broken>>

Mint(c) ==
  /\ call[c].at = "mint"
  /\ \E t \in Transfer : Mine(t, {t}, [o \in Transfer |-> call[c].user])
  /\ To(c, "cool")
  /\ UNCHANGED <<index, cursor, records, wallet, cooling, poll, check, adjusted, broken, counts>>

\* tx.wait(1) has returned.
CoolDown(c) ==
  /\ call[c].at = "cool"
  /\ cooling' = cooling \cup {call[c].user}
  /\ Ends(c)
  /\ UNCHANGED <<chain, index, cursor, records, wallet, poll, check, missed, adjusted, broken, counts>>

\* FAUCET_COOLDOWN_MS later
CooledDown(u) ==
  /\ u \in cooling /\ cooling' = cooling \ {u}
  /\ UNCHANGED <<chain, index, cursor, records, wallet, jobs, missed, adjusted, broken, counts>>

----------------------------------------------------------------------------
(* The calls: exchanges *)

\* exchangeChipsToBalance: the available chips, the request, the balance, the new balance
ExchangeChipsToBalance(c, u, n) ==
  /\ n <= chips[u]
  /\ Starts(c, "request", u, n)
  /\ UNCHANGED <<chain, index, cursor, records, wallet, cooling, poll, check, missed, adjusted, broken>>

CreateRequest(c) ==
  /\ call[c].at = "request"
  /\ requested' = [requested EXCEPT ![call[c].user] = @ + call[c].n]
  /\ To(c, "balance")
  /\ UNCHANGED <<chain, index, cursor, records, chips, coin, usdt, cooling, poll, check, missed, adjusted,
                 broken, counts>>

ReadBalance(c) ==
  /\ call[c].at = "balance"
  /\ call' = [call EXCEPT ![c].at = "deduct", ![c].balance = chips[call[c].user]]
  /\ UNCHANGED <<chain, index, cursor, records, wallet, cooling, poll, check, missed, adjusted, broken, counts>>

Deduct(c) ==
  LET u == call[c].user
  IN  /\ call[c].at = "deduct"
      /\ SetBalance(u, call[c].balance - call[c].n)
      /\ call' = [StaleCalls(u, {"request", "balance", "deduct", "coin"}) EXCEPT ![c] = NoCall]
      /\ check' = StaleChecks(u, Nothing)
      /\ broken' = (broken \/ call[c].stale)
      /\ UNCHANGED <<chain, index, cursor, records, usdt, requested, cooling, poll, missed, adjusted, counts>>

\* exchangeBalanceToChips: Wallet.balance, the increments, User.coinBalance
ExchangeBalanceToChips(c, u, n) ==
  /\ n <= usdt[u]
  /\ Starts(c, "convert", u, n)
  /\ UNCHANGED <<chain, index, cursor, records, wallet, cooling, poll, check, missed, adjusted, broken>>

Convert(c) ==
  LET u == call[c].user
      n == call[c].n
  IN  /\ call[c].at = "convert"
      /\ usdt' = [usdt EXCEPT ![u] = @ - n]
      /\ chips' = [chips EXCEPT ![u] = @ + n]
      /\ call' = [StaleCalls(u, {"convert", "deduct"}) EXCEPT ![c] = [call[c] EXCEPT !.at = "coin", !.stale = FALSE]]
      /\ check' = StaleChecks(u, Nothing)
      /\ broken' = (broken \/ call[c].stale)
      /\ UNCHANGED <<chain, index, cursor, records, coin, requested, cooling, poll, missed, adjusted, counts>>

IncrementCoinBalance(c) ==
  /\ call[c].at = "coin"
  /\ coin' = [coin EXCEPT ![call[c].user] = @ + call[c].n]
  /\ broken' = (broken \/ call[c].stale)
  /\ Ends(c)
  /\ UNCHANGED <<chain, index, cursor, records, chips, usdt, requested, cooling, poll, check, missed,
                 adjusted, counts>>

\* admin adjustBalance, one transaction
AdjustBalance(u) ==
  /\ calls < MaxCalls /\ calls' = calls + 1
  /\ coin' = [coin EXCEPT ![u] = @ + 1]
  /\ usdt' = [usdt EXCEPT ![u] = @ + 1]
  /\ adjusted' = [adjusted EXCEPT ![u] = @ + 1]
  /\ UNCHANGED <<chain, index, cursor, records, chips, requested, cooling, jobs, missed, broken,
                 faults>>

----------------------------------------------------------------------------

Crash ==
  /\ Fault
  /\ poll' = [p \in Poll |-> NoPoll]
  /\ check' = [p \in Poll |-> [u \in User |-> NoCheck]]
  /\ call' = [c \in Call |-> NoCall]
  /\ cooling' = {}
  /\ broken' = \/ broken
               \/ \E t \in Transfer : Crediting(t)
               \/ \E c \in Call : call[c].at \in {"balance", "deduct", "coin"}
  /\ UNCHANGED <<chain, index, cursor, records, wallet, missed, adjusted, calls>>

PollStep(p) ==
  \/ ResetCursor(p) \/ FindAddresses(p) \/ Settle(p)
  \/ \E u \in User :
       Query(p, u) \/ Check(p, u) \/ Read(p, u) \/ Write(p, u) \/ Record(p, u) \/ DatabaseFails(p, u)

CallStep(c) ==
  \/ CreateDepositAddress(c) \/ Mint(c) \/ CoolDown(c)
  \/ CreateRequest(c) \/ ReadBalance(c) \/ Deduct(c)
  \/ Convert(c) \/ IncrementCoinBalance(c)

\* Bound: a behaviour is followed up to the first crossing.
Next ==
  /\ ~broken
  /\ \/ \E t \in Transfer, batch \in SUBSET Transfer, to \in [Transfer -> User] : Arrive(t, batch, to)
     \/ \E u \in User :
          \/ CooledDown(u) \/ AdjustBalance(u)
          \/ \E c \in Call :
               \/ GetOrCreateDepositAddress(c, u) \/ Faucet(c, u)
               \/ ExchangeChipsToBalance(c, u, 1) \/ ExchangeBalanceToChips(c, u, 1)
     \/ \E p \in Poll : PollDeposits(p) \/ PollStep(p)
     \/ \E c \in Call : CallStep(c)
     \/ NodeRestarts \/ Crash

Spec == Init /\ [][Next]_vars

----------------------------------------------------------------------------
(* Properties *)

\* The calls that have requested a chip of u and not deducted it yet
Owed(u) == {c \in Call : call[c].user = u /\ call[c].at \in {"balance", "deduct"}}

Assets(u) == chips[u] + usdt[u] + requested[u] - Cardinality(Owed(u))

\* What has come in
Credited == records \cup {t \in Transfer : Crediting(t)}

Promise == INSTANCE BankPromise WITH
  void     <- broken,
  assets   <- [u \in User |-> IF broken THEN 0 ELSE Assets(u)],
  given    <- IF broken THEN [u \in User |-> 0] ELSE adjusted,
  credited <- IF broken THEN {} ELSE Credited

\* Unless two writers or a restart have crossed, or a deposit was left without a record
\* (the database failed, or another event of its transaction was recorded meanwhile), a
\* deposit counts once, and what a user owns changes only by deposits and by the
\* administrator.
PromiseKept == Promise!Spec

\* The cursor passes over no deposit, but for those that a failed check or a reset of
\* the node has made it miss, and for the further events of a transaction that has a
\* record of one.
NothingSkipped ==
  cursor # Nothing =>
    \A t \in Transfer : mined[t] # Nothing /\ mined[t].block <= cursor =>
      t \in records \cup missed \/ Recorded(t)

\* User.coinBalance, which the clients and the administrator are shown, is the chips
\* of a user whom the administrator has not adjusted.
CoinShowsChips ==
  ~broken => \A u \in User :
    adjusted[u] = 0 /\ coin[u] # chips[u] => \E c \in Call : call[c].user = u /\ call[c].at = "coin"
=============================================================================
