------------------------------ MODULE Withdraw ------------------------------
(***************************************************************************)
(* Withdrawals (apps/backend/src/withdraw/withdraw.service.ts): a user     *)
(* asks for chips to be paid out as tokens, an administrator approves or   *)
(* rejects, the server transfers on the chain or refunds.                  *)
(*                                                                         *)
(* Every call of the service is a job that runs from one await to the      *)
(* next; Job is a pool of them, so any number of calls up to its size are  *)
(* in progress at once.  What a job has read is kept in its record.  A     *)
(* crash ends all jobs, a failing database call the job that makes it;     *)
(* what they wrote to the database, and sent to the chain, stays.          *)
(*                                                                         *)
(* Tables, deposits and exchanges write the wallet as well                 *)
(* (WalletChanges).  Frozen chips are left out: the user is at no table    *)
(* when he asks, and all his chips are available.                          *)
(***************************************************************************)
EXTENDS Naturals, Sequences, FiniteSets

CONSTANTS
  User, Request,
  Owner,       \* the user who makes each request
  NoRequest,
  Amount,      \* amounts asked for, none below MIN_WITHDRAW_CHIPS
  Bankroll,    \* chips a user may have for other reasons than refunds
  Job,         \* bound: the calls that can be in progress at once
  MaxCrashes,  \* bound: crashes and failing database calls
  Unknown      \* see WithdrawPromise

ASSUME RequestAssumption == Owner \in [Request -> User] /\ NoRequest \notin Request
ASSUME AmountAssumption  == Amount \subseteq Nat \ {0} /\ Bankroll \subseteq Nat
ASSUME CrashAssumption   == MaxCrashes \in Nat
ASSUME UnknownAssumption == Unknown \notin Nat

Status == {"NONE", "PENDING", "PROCESSING", "CONFIRMED", "FAILED"}

NoHash == 0

\* Where a job stands: the next database or chain call it makes.
At == {"idle", "check", "deduct", "cool", "approve", "log", "load", "transfer", "save",
       "wait", "confirm", "fail", "markFailed", "credit", "repay", "markRejected"}

VARIABLES
  chips,    \* Wallet.chips
  cooling,  \* users whose cooldown runs (in memory)
  request,  \* the rows of withdrawRequest: status, amountChips, txHash
  job,      \* what the calls in progress are at and have read
  chain,    \* the transfers sent for each request; a hash is an index of them
  refunds,  \* history: how often each request has been refunded
  void,     \* history: the requests with which something has gone wrong
  owed,     \* history: the requests a crash has left without their refund
  crashes   \* how often the server has crashed, or lost a job

vars == <<chips, cooling, request, job, chain, refunds, void, owed, crashes>>

Transfers == {"sent", "mined", "reverted"}

\* reject: the refund is a rejection's, and the status is written after it.
Jobs == [at : At, req : Request \cup {NoRequest}, chips : Nat, hash : Nat,
         reject : BOOLEAN]

Idle == [at |-> "idle", req |-> NoRequest, chips |-> 0, hash |-> NoHash,
         reject |-> FALSE]

TypeOK ==
  /\ chips \in [User -> Nat]
  /\ cooling \subseteq User
  /\ request \in [Request -> [status : Status, amount : Nat, hash : Nat]]
  /\ job \in [Job -> Jobs]
  /\ chain \in [Request -> Seq(Transfers)]
  /\ refunds \in [Request -> Nat]
  /\ void \subseteq Request /\ owed \subseteq Request
  /\ crashes \in 0 .. MaxCrashes

Init ==
  /\ chips \in [User -> Bankroll]
  /\ cooling = {}
  /\ request = [r \in Request |-> [status |-> "NONE", amount |-> 0, hash |-> NoHash]]
  /\ job = [j \in Job |-> Idle]
  /\ chain = [r \in Request |-> <<>>]
  /\ refunds = [r \in Request |-> 0]
  /\ void = {} /\ owed = {}
  /\ crashes = 0

On(r) == {j \in Job : job[j].req = r}

Goto(j, at) == job' = [job EXCEPT ![j].at = at]
End(j)      == job' = [job EXCEPT ![j] = Idle]

----------------------------------------------------------------------------
(* What makes a request void:                                               *)
(*   - the wallet is no longer what the call read: it deducts less than is  *)
(*     asked for (Deduct), or overwrites another call's change (Repay);     *)
(*   - two calls act on the request, each having found it in the status it  *)
(*     needs (Commit);                                                      *)
(*   - a chain call throws although its transfer is on its way (Throw);     *)
(*   - a crash, or a failing database call, makes the server forget that a *)
(*     transfer was sent or a refund made (Lose).                           *)

\* Request r becomes void if p holds.
VoidIf(p, r) == void' = IF p THEN void \cup {r} ELSE void

\* The steps at which a job relies on the status it has read.
Committed == {"approve", "transfer", "save", "wait", "confirm", "markFailed",
              "credit", "repay", "markRejected"}

\* j goes on to a step that relies on the status it has just read.
Commit(j, r) ==
  VoidIf(\E k \in On(r) \ {j} : job[k].at \in Committed, r)

----------------------------------------------------------------------------
(* createWithdraw *)

CreateWithdraw(j, r, amount) ==
  /\ job[j] = Idle
  /\ request[r].status = "NONE" /\ On(r) = {}
  /\ Owner[r] \notin cooling
  /\ job' = [job EXCEPT ![j] = [Idle EXCEPT !.at = "check", !.req = r, !.chips = amount]]
  /\ UNCHANGED <<chips, cooling, request, chain, refunds, void, owed, crashes>>

CheckAvailable(j) ==
  /\ job[j].at = "check"
  /\ IF chips[Owner[job[j].req]] >= job[j].chips THEN Goto(j, "deduct") ELSE End(j)
  /\ UNCHANGED <<chips, cooling, request, chain, refunds, void, owed, crashes>>

\* Mutant: the new balance is not floored at zero.
UnflooredDeduct(j) ==
  LET r == job[j].req
      u == Owner[r]
      a == job[j].chips
  IN  /\ job[j].at = "deduct"
      /\ chips' = [chips EXCEPT ![u] = @ - a]
      /\ request' = [request EXCEPT ![r].status = "PENDING", ![r].amount = a]
      /\ VoidIf(a > chips[u], r)
      /\ Goto(j, "cool")
      /\ UNCHANGED <<cooling, chain, refunds, owed, crashes>>

\* The transaction: it reads the wallet again, but only to subtract.
Deduct(j) ==
  LET r == job[j].req
      u == Owner[r]
      a == job[j].chips
  IN  /\ job[j].at = "deduct"
      /\ chips' = [chips EXCEPT ![u] = IF a > @ THEN 0 ELSE @ - a]
      /\ request' = [request EXCEPT ![r].status = "PENDING", ![r].amount = a]
      /\ VoidIf(a > chips[u], r)
      /\ Goto(j, "cool")
      /\ UNCHANGED <<cooling, chain, refunds, owed, crashes>>

SetCooldown(j) ==
  /\ job[j].at = "cool"
  /\ cooling' = cooling \cup {Owner[job[j].req]}
  /\ End(j)
  /\ UNCHANGED <<chips, request, chain, refunds, void, owed, crashes>>

CooldownEnds(u) ==
  /\ u \in cooling
  /\ cooling' = cooling \ {u}
  /\ UNCHANGED <<chips, request, job, chain, refunds, void, owed, crashes>>

----------------------------------------------------------------------------
(* processWithdraw *)

\* Mutant: any request that was not paid can be processed.
ProcessUnpaid(j, r, reject) ==
  /\ job[j] = Idle
  /\ request[r].status \in {"PENDING", "FAILED"}
  /\ job' = [job EXCEPT ![j] = [Idle EXCEPT
       !.at = IF reject THEN "credit" ELSE "approve", !.req = r, !.reject = reject]]
  /\ Commit(j, r)
  /\ UNCHANGED <<chips, cooling, request, chain, refunds, owed, crashes>>

\* A request that is not PENDING is refused.
ProcessWithdraw(j, r, reject) ==
  /\ job[j] = Idle
  /\ request[r].status = "PENDING"
  /\ job' = [job EXCEPT ![j] = [Idle EXCEPT
       !.at = IF reject THEN "credit" ELSE "approve", !.req = r, !.reject = reject]]
  /\ Commit(j, r)
  /\ UNCHANGED <<chips, cooling, request, chain, refunds, owed, crashes>>

Approve(j) ==
  /\ job[j].at = "approve"
  /\ request' = [request EXCEPT ![job[j].req].status = "PROCESSING"]
  /\ Goto(j, "log")
  /\ UNCHANGED <<chips, cooling, chain, refunds, void, owed, crashes>>

\* The entry in adminLog; the execution starts after it.
LogApproval(j) ==
  /\ job[j].at = "log"
  /\ Goto(j, "load")
  /\ UNCHANGED <<chips, cooling, request, chain, refunds, void, owed, crashes>>

MarkRejected(j) ==
  /\ job[j].at = "markRejected"
  /\ request' = [request EXCEPT ![job[j].req].status = "FAILED"]
  /\ End(j)
  /\ UNCHANGED <<chips, cooling, chain, refunds, void, owed, crashes>>

----------------------------------------------------------------------------
(* refundChips *)

ReadBalance(j) ==
  /\ job[j].at = "credit"
  /\ job' = [job EXCEPT ![j].at = "repay", ![j].chips = chips[Owner[job[j].req]]]
  /\ UNCHANGED <<chips, cooling, request, chain, refunds, void, owed, crashes>>

Repay(j) ==
  LET r == job[j].req
      u == Owner[r]
  IN  /\ job[j].at = "repay"
      /\ chips' = [chips EXCEPT ![u] = job[j].chips + request[r].amount]
      /\ VoidIf(job[j].chips # chips[u], r)
      /\ refunds' = [refunds EXCEPT ![r] = @ + 1]
      /\ IF job[j].reject THEN Goto(j, "markRejected") ELSE End(j)
      /\ UNCHANGED <<cooling, request, chain, owed, crashes>>

----------------------------------------------------------------------------
(* executeChainWithdraw; a throw is caught by handleWithdrawFailure *)

Load(j) ==
  LET r == job[j].req
  IN  /\ job[j].at = "load"
      /\ IF request[r].status = "PROCESSING"
         THEN Goto(j, "transfer") /\ Commit(j, r)
         ELSE Goto(j, "fail") /\ UNCHANGED void
      /\ UNCHANGED <<chips, cooling, request, chain, refunds, owed, crashes>>

Transfer(j) ==
  LET r == job[j].req
  IN  /\ job[j].at = "transfer"
      /\ chain' = [chain EXCEPT ![r] = Append(@, "sent")]
      /\ job' = [job EXCEPT ![j].at = "save", ![j].hash = Len(chain[r]) + 1]
      /\ UNCHANGED <<chips, cooling, request, refunds, void, owed, crashes>>

SaveHash(j) ==
  /\ job[j].at = "save"
  /\ request' = [request EXCEPT ![job[j].req].hash = job[j].hash]
  /\ Goto(j, "wait")
  /\ UNCHANGED <<chips, cooling, chain, refunds, void, owed, crashes>>

\* The transfer j has sent.
Own(j) == chain[job[j].req][job[j].hash]

\* Mutant: a transfer that reverted is taken for done.
WaitForBlock(j) ==
  /\ job[j].at = "wait"
  /\ Own(j) # "sent"
  /\ Goto(j, "confirm")
  /\ UNCHANGED <<chips, cooling, request, chain, refunds, void, owed, crashes>>

\* tx.wait(1) returns when the transfer is in a block, and throws if it reverted.
Wait(j) ==
  /\ job[j].at = "wait"
  /\ \/ Own(j) = "mined" /\ Goto(j, "confirm")
     \/ Own(j) = "reverted" /\ Goto(j, "fail")
  /\ UNCHANGED <<chips, cooling, request, chain, refunds, void, owed, crashes>>

Confirm(j) ==
  /\ job[j].at = "confirm"
  /\ request' = [request EXCEPT ![job[j].req].status = "CONFIRMED"]
  /\ End(j)
  /\ UNCHANGED <<chips, cooling, chain, refunds, void, owed, crashes>>

\* The node or the database may fail any of these calls, also after the transfer
\* has been sent.
Throw(j) ==
  LET sent == job[j].hash # NoHash /\ Own(j) # "reverted"
  IN  /\ job[j].at \in {"load", "transfer", "save", "wait", "confirm"}
      /\ Goto(j, "fail")
      /\ VoidIf(sent, job[j].req)
      /\ UNCHANGED <<chips, cooling, request, chain, refunds, owed, crashes>>

----------------------------------------------------------------------------
(* handleWithdrawFailure *)

Fail(j) ==
  LET r == job[j].req
  IN  /\ job[j].at = "fail"
      /\ IF request[r].status \in {"CONFIRMED", "FAILED"}
         THEN End(j) /\ UNCHANGED void
         ELSE Goto(j, "markFailed") /\ Commit(j, r)
      /\ UNCHANGED <<chips, cooling, request, chain, refunds, owed, crashes>>

\* Mutant: a failure is recorded, but not refunded.
MarkFailedOnly(j) ==
  /\ job[j].at = "markFailed"
  /\ request' = [request EXCEPT ![job[j].req].status = "FAILED"]
  /\ End(j)
  /\ UNCHANGED <<chips, cooling, chain, refunds, void, owed, crashes>>

MarkFailed(j) ==
  /\ job[j].at = "markFailed"
  /\ request' = [request EXCEPT ![job[j].req].status = "FAILED"]
  /\ Goto(j, "credit")
  /\ UNCHANGED <<chips, cooling, chain, refunds, void, owed, crashes>>

----------------------------------------------------------------------------
(* checkStaleProcessing, the chain, and crashes *)

\* Mutant: the cron looks for the wrong status.
PendingStale == {r \in Request : request[r].status = "PENDING" /\ request[r].hash = NoHash}

Stale == {r \in Request : request[r].status = "PROCESSING" /\ request[r].hash = NoHash}

\* One new execution for each stale request. (The ten requests a tick looks at
\* are more than the model has.)
CheckStaleProcessing ==
  LET free == {j \in Job : job[j] = Idle}
  IN  /\ Stale # {}
      /\ \E f \in [Stale -> free] :
           /\ \A r, s \in Stale : r # s => f[r] # f[s]
           /\ job' = [j \in Job |->
                IF \E r \in Stale : f[r] = j
                THEN [Idle EXCEPT !.at = "load", !.req = CHOOSE r \in Stale : f[r] = j]
                ELSE job[j]]
      /\ UNCHANGED <<chips, cooling, request, chain, refunds, void, owed, crashes>>

Mine(r, k, state) ==
  /\ chain[r][k] = "sent"
  /\ chain' = [chain EXCEPT ![r][k] = state]
  /\ UNCHANGED <<chips, cooling, request, job, refunds, void, owed, crashes>>

\* The jobs J end where they stand.
Lose(J) ==
  LET RequestsOf(K) == {job[j].req : j \in K}
  IN  /\ crashes < MaxCrashes
      /\ crashes' = crashes + 1
      /\ void' = void \cup RequestsOf({j \in J : job[j].at \in {"save", "markRejected"}})
      /\ owed' = owed \cup
                   RequestsOf({j \in J : job[j].at \in {"credit", "repay"} /\ ~job[j].reject})
      /\ job' = [j \in Job |-> IF j \in J THEN Idle ELSE job[j]]
      /\ UNCHANGED <<chips, request, chain, refunds>>

\* All jobs end, and the cooldowns are forgotten.
Crash ==
  /\ Lose(Job)
  /\ cooling' = {}

\* A database call fails outside executeChainWithdraw: nothing catches it but the
\* HTTP layer.
DatabaseFails(j) ==
  /\ job[j].at \in {"check", "deduct", "approve", "log", "credit", "repay",
                    "markRejected", "fail", "markFailed"}
  /\ Lose({j})
  /\ UNCHANGED cooling

\* Another service writes the wallet. (Bound: while a call is between reading the
\* wallet and writing it, which is when it matters.)
WalletChanges(u) ==
  /\ \E j \in Job : job[j].at \in {"deduct", "repay"} /\ Owner[job[j].req] = u
  /\ \E n \in Bankroll : chips' = [chips EXCEPT ![u] = n]
  /\ UNCHANGED <<cooling, request, job, chain, refunds, void, owed, crashes>>

----------------------------------------------------------------------------

Calls ==
  \E j \in Job, r \in Request :
    \/ \E amount \in Amount : CreateWithdraw(j, r, amount)
    \/ \E reject \in BOOLEAN : ProcessWithdraw(j, r, reject)

Step(j) ==
  \/ CheckAvailable(j) \/ Deduct(j) \/ SetCooldown(j)
  \/ Approve(j) \/ LogApproval(j) \/ MarkRejected(j) \/ ReadBalance(j) \/ Repay(j)
  \/ Load(j) \/ Transfer(j) \/ SaveHash(j) \/ Wait(j) \/ Confirm(j)
  \/ Fail(j) \/ MarkFailed(j)

Chain ==
  \E r \in Request : \E k \in 1 .. Len(chain[r]) :
    Mine(r, k, "mined") \/ Mine(r, k, "reverted")

Next ==
  \/ Calls
  \/ \E j \in Job : Step(j) \/ Throw(j) \/ DatabaseFails(j)
  \/ \E u \in User : CooldownEnds(u) \/ WalletChanges(u)
  \/ CheckStaleProcessing
  \/ Chain
  \/ Crash

Spec == Init /\ [][Next]_vars

\* Node runs every job on, the chain mines or reverts what was sent, and the cron
\* ticks: strongly fair, because new calls can take the last place in Job, which
\* only the model has.
FairSpec ==
  /\ Spec
  /\ \A j \in Job : WF_vars(Step(j))
  /\ WF_vars(Chain)
  /\ SF_vars(CheckStaleProcessing)

----------------------------------------------------------------------------
(* What should be true of it *)

Paid(r)   == Cardinality({k \in 1 .. Len(chain[r]) : chain[r][k] = "mined"})

\* The mapping to the promise: void from the first mishap on, and an outcome the
\* promise does not have if a request is paid or refunded twice, or both.
OutcomeOf(r) ==
  IF r \in void THEN "void"
  ELSE IF request[r].status = "NONE" THEN "none"
  ELSE CASE Paid(r) = 0 /\ refunds[r] = 0 -> "open"
         [] Paid(r) = 1 /\ refunds[r] = 0 -> "paid"
         [] Paid(r) = 0 /\ refunds[r] = 1 -> "refunded"
         [] OTHER                         -> "broken"

AmountOf(r) == IF r \in void THEN 0 ELSE request[r].amount

AccountOf(u) == IF \E r \in void : Owner[r] = u THEN Unknown ELSE chips[u]

Promise == INSTANCE WithdrawPromise WITH
  outcome <- [r \in Request |-> OutcomeOf(r)],
  amount  <- [r \in Request |-> AmountOf(r)],
  account <- [u \in User |-> AccountOf(u)]

\* Every withdrawal is deducted, then paid once or refunded once, with any number
\* of calls in progress, crashes and failing chain calls, unless one of four
\* mishaps happens to it: a wallet written from a stale read, two calls acting on
\* it at once, a chain call that throws after sending, a crash or a failing
\* database call that forgets what was sent or refunded.
PromiseKept == Promise!Spec

\* A request that is CONFIRMED has been paid, whatever else happened to it.
ConfirmedIsPaid ==
  \A r \in Request : request[r].status = "CONFIRMED" => Paid(r) > 0

\* A request that has FAILED, and that nobody works on, has been refunded, unless
\* a crash or a failing database call came between the two.
FailedIsRefunded ==
  \A r \in Request :
    request[r].status = "FAILED" /\ On(r) = {} /\ r \notin owed
      => refunds[r] > 0

\* The cron brings every approved request to an end, through crashes, except one
\* whose hash was saved by a call that then ended in one.
ProcessingEnds ==
  \A r \in Request :
    request[r].status = "PROCESSING" ~>
      \/ request[r].status \in {"CONFIRMED", "FAILED"}
      \/ request[r].hash # NoHash /\ On(r) = {}
=============================================================================
