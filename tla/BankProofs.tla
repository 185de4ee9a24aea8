------------------------------ MODULE BankProofs ------------------------------
(***************************************************************************)
(* The safety of Bank for any number of users, transfers, polls, calls and *)
(* blocks: its types, what the cursor passes over, what User.coinBalance   *)
(* shows, and that it implements BankPromise.                              *)
(***************************************************************************)
EXTENDS Bank, FiniteSetTheorems, WellFoundedInduction, TLAPS

----------------------------------------------------------------------------
(* Numbers                                                                 *)

LEMMA MinIn ==
  ASSUME NEW S, S \subseteq Nat, S # {}
  PROVE  \E x \in S : \A y \in S : x <= y
<1> DEFINE less == OpToRel(<, Nat)
<1>1. IsWellFoundedOn(less, Nat)
  BY NatLessThanWellFounded
<1>2. \A x, y \in Nat : x < y => <<x, y>> \in less
  BY DEF OpToRel
<1> HIDE DEF less
<1>3. PICK x \in S : \A y \in S : ~ (<<y, x>> \in less)
  BY <1>1, WFMin
<1>4. \A y \in S : x <= y
  <2> SUFFICES ASSUME NEW y \in S, ~(x <= y) PROVE FALSE
    OBVIOUS
  <2>1. x \in Nat /\ y \in Nat /\ y < x
    OBVIOUS
  <2> QED BY <1>2, <1>3, <2>1
<1> QED BY <1>4

\* A finite set of numbers has a greatest one: else take a set without, no subset of
\* which is without.
LEMMA MaxIn ==
  ASSUME NEW S, S \subseteq Nat, IsFiniteSet(S), S # {}
  PROVE  Max(S) \in Nat
<1> DEFINE Bounded(T) == \E x \in T : \A y \in T : x >= y
           Bad == {T \in FiniteSubsetsOf(S) : T # {} /\ ~Bounded(T)}
           less == StrictSubsetOrdering(S)
<1>1. IsWellFoundedOn(less, FiniteSubsetsOf(S))
  BY FS_StrictSubsetOrderingWellFounded
<1>2. ASSUME Bad # {} PROVE FALSE
  <2>1. PICK T \in Bad : \A U \in Bad : ~ (<<U, T>> \in less)
    <3>1. Bad \subseteq FiniteSubsetsOf(S)
      OBVIOUS
    <3> HIDE DEF Bad, less
    <3> QED BY <1>1, <1>2, <3>1, WFMin
  <2>2. T \subseteq S /\ IsFiniteSet(T) /\ T # {} /\ ~Bounded(T)
    BY DEF FiniteSubsetsOf
  <2>3. PICK x \in T : TRUE
    BY <2>2
  <2> DEFINE U == T \ {x}
  <2>4. U \subseteq S /\ IsFiniteSet(U) /\ U \subseteq T /\ U # T
    BY <2>2, <2>3, FS_RemoveElement
  <2>5. U \in FiniteSubsetsOf(S)
    BY <2>4 DEF FiniteSubsetsOf
  <2>6. <<U, T>> \in less
    BY <2>2, <2>4 DEF StrictSubsetOrdering
  <2>7. U = {} \/ Bounded(U)
    BY <2>1, <2>5, <2>6
  <2>8. x \in Nat
    BY <2>2
  <2>9. CASE U = {}
    BY <2>2, <2>3, <2>8, <2>9
  <2>10. CASE Bounded(U)
    <3>1. PICK m \in U : \A y \in U : m >= y
      BY <2>10
    <3>2. m \in Nat /\ m \in T /\ \A y \in T : y \in Nat /\ (y = x \/ m >= y)
      BY <2>2, <3>1
    <3>3. \A y \in T : (IF x >= m THEN x ELSE m) >= y
      BY <2>8, <3>2
    <3> QED BY <2>2, <2>3, <3>2, <3>3
  <2> QED BY <2>7, <2>9, <2>10
<1>3. S \in FiniteSubsetsOf(S)
  BY DEF FiniteSubsetsOf
<1>4. Bounded(S)
  BY <1>2, <1>3
<1>5. Max(S) \in S
  BY <1>4 DEF Max
<1> QED BY <1>5

LEMMA NextIndex ==
  ASSUME index \in [User -> Nat], User # {}
  PROVE  1 + Max({index[v] : v \in User}) \in Nat
<1> DEFINE S == {index[v] : v \in User}
<1>1. S \subseteq Nat /\ S # {}
  OBVIOUS
<1>2. index \in Surjection(User, S)
  BY DEF Surjection
<1>3. IsFiniteSet(S)
  BY <1>2, UserAssumption, FS_Surjection
<1>4. Max(S) \in Nat
  <2> HIDE DEF S
  <2> QED BY <1>1, <1>3, MaxIn
<1> QED BY <1>4

LEMMA LeastZero == \A n \in Int : AtLeastZero(n) \in Nat /\ (n >= 0 => AtLeastZero(n) = n)
BY DEF AtLeastZero

LEMMA NothingFacts ==
  /\ Nothing \notin User /\ Nothing \notin Transfer /\ Nothing \notin Nat
  /\ \A m \in Places : m # Nothing
BY NothingAssumption

----------------------------------------------------------------------------
(* Rows *)

LEMMA EmptyRows ==
  /\ NoPoll \in Polls /\ NoPoll.at = "idle"
  /\ NoCheck \in Checks /\ NoCheck.at = "none" /\ NoCheck.left = {} /\ NoCheck.tx = Nothing
  /\ ~NoCheck.stale
  /\ NoCall \in Calls /\ NoCall.at = "idle" /\ ~NoCall.stale
BY DEF NoPoll, Polls, NoCheck, Checks, NoCall, Calls

\* What becomes of a check, or of a call, when another one writes the wallet.
Staled(x, y, stale) ==
  /\ y \in Checks /\ y.at = x.at /\ y.left = x.left /\ y.tx = x.tx /\ y.balance = x.balance
  /\ y.stale = (x.stale \/ stale)

\* The check of v in poll p knows what a write of u's wallet, for t, makes stale.
Crossed(p, v, u, t) ==
  v = u /\ (check[p][v].at = "write" \/ (check[p][v].at = "read" /\ check[p][v].tx = t))

LEMMA StaleChecksEffect ==
  ASSUME TypeOK, NEW u, NEW t
  PROVE  /\ StaleChecks(u, t) \in [Poll -> [User -> Checks]]
         /\ \A p \in Poll : \A v \in User :
              Staled(check[p][v], StaleChecks(u, t)[p][v], Crossed(p, v, u, t))
<1> DEFINE S == StaleChecks(u, t)
           Hit(p, v) == Crossed(p, v, u, t)
<1>1. S = [p \in Poll |-> S[p]]
  BY DEF StaleChecks
<1>2. ASSUME NEW p \in Poll
      PROVE  /\ S[p] \in [User -> Checks]
             /\ \A v \in User : Staled(check[p][v], S[p][v], Hit(p, v))
  <2>1. PICK f \in [User -> Checks] : f = check[p]
    BY DEF TypeOK
  <2>2. S[p] = [f EXCEPT ![u].stale = @ \/ f[u].at = "write" \/ (f[u].at = "read" /\ f[u].tx = t)]
    BY <2>1 DEF StaleChecks
  <2>3. S[p] = [v \in User |-> S[p][v]]
    BY <2>2
  <2>4. ASSUME NEW v \in User PROVE Staled(f[v], S[p][v], Hit(p, v))
    <3>1. PICK x \in Checks : x = f[v]
      OBVIOUS
    <3>2. CASE v = u
      <4>1. PICK h \in BOOLEAN : h = (x.at = "write" \/ (x.at = "read" /\ x.tx = t))
        OBVIOUS
      <4>2. S[p][v] = [x EXCEPT !.stale = x.stale \/ h]
        BY <2>2, <3>1, <3>2, <4>1
      <4>3. S[p][v] = [at |-> x.at, left |-> x.left, tx |-> x.tx, balance |-> x.balance,
                       stale |-> x.stale \/ h]
        BY <4>2 DEF Checks
      <4>4. Hit(p, v) = h
        BY <2>1, <3>1, <3>2, <4>1 DEF Crossed
      <4> HIDE DEF Hit, S
      <4>5. S[p][v] \in Checks
        BY <4>3 DEF Checks
      <4>6. PICK y : y = S[p][v]
        OBVIOUS
      <4>7. /\ y.at = x.at /\ y.left = x.left /\ y.tx = x.tx /\ y.balance = x.balance
            /\ y.stale = (x.stale \/ h)
        BY <4>3, <4>6
      <4> QED BY <3>1, <4>4, <4>5, <4>6, <4>7 DEF Staled
    <3>3. CASE v # u
      <4>1. S[p][v] = x /\ ~Hit(p, v) /\ x.stale \in BOOLEAN
        BY <2>2, <3>1, <3>3 DEF Checks, Crossed
      <4> HIDE DEF Hit, S
      <4> QED BY <3>1, <4>1 DEF Staled
    <3> QED BY <3>2, <3>3
  <2>5. \A v \in User : S[p][v] \in Checks
    BY <2>4 DEF Staled
  <2> HIDE DEF S, Hit
  <2> QED BY <2>1, <2>3, <2>4, <2>5
<1> HIDE DEF S
<1>3. S \in [Poll -> [User -> Checks]]
  BY <1>1, <1>2
<1> QED BY <1>2, <1>3 DEF S

StaledCall(x, y, stale) ==
  /\ y \in Calls /\ y.at = x.at /\ y.user = x.user /\ y.n = x.n /\ y.balance = x.balance
  /\ y.stale = (x.stale \/ stale)

LEMMA StaleCallsEffect ==
  ASSUME TypeOK, NEW u, NEW at
  PROVE  /\ StaleCalls(u, at) \in [Call -> Calls]
         /\ \A c \in Call :
              StaledCall(call[c], StaleCalls(u, at)[c], call[c].user = u /\ call[c].at \in at)
<1> DEFINE S == StaleCalls(u, at)
<1>1. S = [c \in Call |-> S[c]]
  BY DEF StaleCalls
<1>2. ASSUME NEW c \in Call
      PROVE  StaledCall(call[c], S[c], call[c].user = u /\ call[c].at \in at)
  <2>1. PICK x \in Calls : x = call[c]
    BY DEF TypeOK
  <2>2. PICK h \in BOOLEAN : h = (x.user = u /\ x.at \in at)
    OBVIOUS
  <2>3. S[c] = [x EXCEPT !.stale = x.stale \/ h]
    BY <2>1, <2>2 DEF StaleCalls
  <2>4. S[c] = [at |-> x.at, user |-> x.user, n |-> x.n, balance |-> x.balance, stale |-> x.stale \/ h]
    BY <2>3 DEF Calls
  <2> HIDE DEF S
  <2>5. S[c] \in Calls
    BY <2>4 DEF Calls
  <2>6. PICK y : y = S[c]
    OBVIOUS
  <2>7. y.at = x.at /\ y.user = x.user /\ y.n = x.n /\ y.balance = x.balance /\ y.stale = (x.stale \/ h)
    BY <2>4, <2>6
  <2> QED BY <2>1, <2>2, <2>5, <2>6, <2>7 DEF StaledCall
<1>3. \A c \in Call : S[c] \in Calls
  BY <1>2 DEF StaledCall
<1> HIDE DEF S
<1>4. S \in [Call -> Calls]
  BY <1>1, <1>3
<1> QED BY <1>2, <1>4 DEF S

\* The check of u in poll p goes on as x.
CheckGoes(p, u, x) ==
  /\ check' \in [Poll -> [User -> Checks]]
  /\ check'[p][u] = x
  /\ \A q \in Poll : \A v \in User : (q # p \/ v # u) => check'[q][v] = check[q][v]

LEMMA GoesEffect ==
  ASSUME TypeOK, NEW p \in Poll, NEW u \in User, NEW x \in Checks, Goes(p, u, x)
  PROVE  CheckGoes(p, u, x)
<1>1. check \in [Poll -> [User -> Checks]]
  BY DEF TypeOK
<1>2. check' = [check EXCEPT ![p][u] = x]
  BY DEF Goes
<1>3. check' = [check EXCEPT ![p] = [check[p] EXCEPT ![u] = x]]
  BY <1>2
<1>4. PICK f \in [User -> Checks] : f = [check[p] EXCEPT ![u] = x]
  BY <1>1
<1>5. f[u] = x /\ \A v \in User : v # u => f[v] = check[p][v]
  BY <1>1, <1>4
<1>6. check' = [check EXCEPT ![p] = f]
  BY <1>3, <1>4
<1>7. check' \in [Poll -> [User -> Checks]]
  BY <1>1, <1>6
<1>8. check'[p] = f /\ \A q \in Poll : q # p => check'[q] = check[q]
  BY <1>1, <1>6
<1> QED BY <1>5, <1>7, <1>8 DEF CheckGoes

\* The call c goes on as x.
CallGoes(c, x) ==
  /\ call' \in [Call -> Calls]
  /\ call'[c] = x
  /\ \A d \in Call \ {c} : call'[d] = call[d]

LEMMA CallEffect ==
  ASSUME TypeOK, NEW c \in Call, NEW x \in Calls, call' = [call EXCEPT ![c] = x]
  PROVE  CallGoes(c, x)
BY DEF TypeOK, CallGoes

\* The wallet of u is set: others' are left alone.
Sets(u, n) ==
  /\ chips' \in [User -> Nat] /\ coin' \in [User -> Nat]
  /\ chips'[u] = AtLeastZero(n) /\ coin'[u] = AtLeastZero(n)
  /\ \A v \in User \ {u} : chips'[v] = chips[v] /\ coin'[v] = coin[v]

LEMMA SetsEffect ==
  ASSUME TypeOK, NEW u \in User, NEW n \in Int, SetBalance(u, n)
  PROVE  Sets(u, n)
<1>1. PICK k \in Nat : k = AtLeastZero(n)
  BY LeastZero
<1> QED BY <1>1 DEF SetBalance, Sets, TypeOK

----------------------------------------------------------------------------
(* Types, and what each row is about                                       *)

Addressed(t) == mined[t] # Nothing => HasAddress(mined[t].to)

Chain ==
  /\ height \in 0..MaxHeight
  /\ mined \in [Transfer -> Places \cup {Nothing}]
  /\ index \in [User -> Nat]
  /\ cursor \in Nat \cup {Nothing}
  /\ records \subseteq Transfer /\ missed \subseteq Transfer
  /\ faults \in 0..MaxFaults
  /\ \A t \in Transfer : Addressed(t)

Money ==
  /\ chips \in [User -> Nat] /\ coin \in [User -> Nat]
  /\ usdt \in [User -> Int] /\ requested \in [User -> Nat]
  /\ cooling \subseteq User /\ adjusted \in [User -> Nat]
  /\ broken \in BOOLEAN

\* The transfer t is one of u.
SentTo(t, u) == t \in Transfer /\ mined[t] # Nothing /\ mined[t].to = u

Looking == {"check", "read", "write", "record"}

CheckRow(x, u) ==
  /\ x.at \notin Looking => x.tx = Nothing /\ x.left = {}
  /\ x.at \in Looking => SentTo(x.tx, u)
  /\ \A t \in x.left : SentTo(t, u)

Scans ==
  /\ poll \in [Poll -> Polls] /\ check \in [Poll -> [User -> Checks]]
  /\ \A p \in Poll : \A u \in User :
       /\ CheckRow(check[p][u], u)
       /\ poll[p].at # "settle" => check[p][u] = NoCheck

Exchanging == {"request", "balance", "deduct", "convert", "coin"}

CallRow(x) ==
  /\ x \in Calls
  /\ x.at # "idle" => x.user \in User
  /\ x.at \in Exchanging => x.n = 1

CallsInOrder ==
  /\ call \in [Call -> Calls]
  /\ calls \in 0..MaxCalls
  /\ \A c \in Call : CallRow(call[c])

Typed == Chain /\ Money /\ Scans /\ CallsInOrder

LEMMA TypedOK == Typed => TypeOK
BY DEF Typed, Chain, Money, Scans, CallsInOrder, TypeOK

LEMMA InitTyped == Init => Typed
<1> SUFFICES ASSUME Init PROVE Typed
  OBVIOUS
<1>1. Chain
  BY BoundAssumption DEF Init, Chain, Addressed
<1>2. Money
  <2>1. Bankroll \in Nat
    BY BoundAssumption
  <2>2. PICK f \in [User -> Nat] : f = [u \in User |-> Bankroll]
    BY <2>1
  <2>3. chips = f /\ coin = f /\ usdt = f
    BY <2>2 DEF Init
  <2>4. f \in [User -> Int]
    OBVIOUS
  <2> QED BY <2>3, <2>4 DEF Init, Money
<1>3. Scans
  BY EmptyRows DEF Init, Scans, CheckRow, Looking
<1>4. CallsInOrder
  BY EmptyRows, BoundAssumption DEF Init, CallsInOrder, CallRow, Exchanging
<1> QED BY <1>1, <1>2, <1>3, <1>4 DEF Typed

\* What stays as it is.
LEMMA ChainStays ==
  Chain /\ UNCHANGED <<height, mined, index, cursor, records, missed, faults>> => Chain'
BY DEF Chain, Addressed, HasAddress

LEMMA MoneyStays ==
  Money /\ UNCHANGED <<chips, coin, usdt, requested, cooling, adjusted, broken>> => Money'
BY DEF Money

LEMMA ScansStay == Scans /\ UNCHANGED <<mined, poll, check>> => Scans'
BY DEF Scans, CheckRow, SentTo

LEMMA CallsStay == CallsInOrder /\ UNCHANGED <<call, calls>> => CallsInOrder'
BY DEF CallsInOrder

----------------------------------------------------------------------------
(* The chain                                                               *)

LEMMA MineChain ==
  ASSUME Typed, NEW t \in Transfer, NEW batch, NEW to \in [Transfer -> User], Mine(t, batch, to)
  PROVE  /\ batch \subseteq Transfer /\ t \in batch
         /\ \A o \in batch : /\ mined[o] = Nothing /\ mined'[o] # Nothing
                             /\ mined'[o].to = to[o] /\ mined'[o].block = height + 1
                             /\ HasAddress(to[o])
         /\ mined' \in [Transfer -> Places \cup {Nothing}]
         /\ \A o \in Transfer \ batch : mined'[o] = mined[o]
         /\ height' = height + 1 /\ height' \in 0..MaxHeight
         /\ missed' \subseteq Transfer /\ missed \subseteq missed'
         /\ cursor \in Nat /\ height' <= cursor => batch \subseteq missed'
<1>1. batch \subseteq Transfer /\ t \in batch /\ \A o \in batch : mined[o] = Nothing /\ HasAddress(to[o])
  BY DEF Mine, Unmined
<1>2. height + 1 \in 0..MaxHeight /\ height + 1 \in Nat
  BY BoundAssumption DEF Mine, Typed, Chain
<1>3. PICK h \in Nat : h = height + 1
  BY <1>2
<1>4. height' = h /\ mined' = [o \in Transfer |->
        IF o \in batch THEN [to |-> to[o], block |-> h, tx |-> t] ELSE mined[o]]
  BY <1>3 DEF Mine
<1>5. missed' = IF cursor # Nothing /\ height' <= cursor THEN missed \cup batch ELSE missed
  BY DEF Mine
<1>6. mined \in [Transfer -> Places \cup {Nothing}] /\ missed \subseteq Transfer
  BY DEF Typed, Chain
<1>7. ASSUME NEW o \in batch
      PROVE  /\ mined'[o] \in Places /\ mined'[o].to = to[o] /\ mined'[o].block = h
  <2>1. PICK m : m = [to |-> to[o], block |-> h, tx |-> t]
    OBVIOUS
  <2>2. mined'[o] = m
    BY <1>1, <1>4, <2>1
  <2>3. to[o] \in User
    BY <1>1
  <2> QED BY <2>1, <2>2, <2>3 DEF Places
<1>8. \A o \in Transfer \ batch : mined'[o] = mined[o]
  BY <1>4
<1>9. mined' \in [Transfer -> Places \cup {Nothing}]
  <2>1. \A o \in Transfer : mined'[o] \in Places \cup {Nothing}
    BY <1>6, <1>7, <1>8
  <2>2. mined' = [o \in Transfer |-> mined'[o]]
    BY <1>4
  <2> QED BY <2>1, <2>2
<1>10. \A o \in batch : mined'[o] # Nothing
  BY <1>7, NothingFacts DEF Places
<1>11. missed' \subseteq Transfer /\ missed \subseteq missed'
  BY <1>1, <1>5, <1>6
<1>12. cursor \in Nat /\ height' <= cursor => batch \subseteq missed'
  BY <1>5, NothingFacts
<1> QED BY <1>1, <1>2, <1>3, <1>4, <1>7, <1>8, <1>9, <1>10, <1>11, <1>12

LEMMA SentStays ==
  ASSUME Typed, NEW t \in Transfer, NEW batch, NEW to \in [Transfer -> User], Mine(t, batch, to),
         NEW o, NEW v, SentTo(o, v)
  PROVE  SentTo(o, v)'
<1>1. o \in Transfer \ batch
  BY MineChain DEF SentTo
<1> QED BY <1>1, MineChain DEF SentTo

LEMMA MineTyped ==
  ASSUME Typed, NEW t \in Transfer, NEW batch, NEW to \in [Transfer -> User], Mine(t, batch, to),
         UNCHANGED <<index, cursor, records, faults, poll, check>>
  PROVE  Chain' /\ Scans'
<1>1. Chain'
  <2>1. ASSUME NEW o \in Transfer PROVE Addressed(o)'
    <3>1. CASE o \in batch
      BY <3>1, MineChain DEF Addressed, HasAddress
    <3>2. CASE o \notin batch
      BY <3>2, MineChain DEF Typed, Chain, Addressed, HasAddress
    <3> QED BY <3>1, <3>2
  <2> QED BY <2>1, MineChain DEF Typed, Chain
<1>2. \A p \in Poll, v \in User : CheckRow(check[p][v], v)'
  BY SentStays DEF Typed, Scans, CheckRow, Looking
<1> QED BY <1>1, <1>2 DEF Typed, Scans

LEMMA NodeRestartsChain ==
  ASSUME Typed, NodeRestarts
  PROVE  /\ mined' \in [Transfer -> Places \cup {Nothing}]
         /\ \A t \in Transfer :
              /\ mined[t] = Nothing => mined'[t] = Nothing
              /\ mined[t] # Nothing => /\ mined'[t] # Nothing /\ mined'[t].to = mined[t].to
                                       /\ mined'[t].tx = mined[t].tx
                                       /\ t \in missed'
         /\ missed \subseteq missed' /\ missed' \subseteq Transfer
         /\ (\E p \in Poll : poll[p] # NoPoll) => missed' = Transfer
<1>1. MaxHeight + 1 \in Nat
  BY BoundAssumption
<1>2. mined \in [Transfer -> Places \cup {Nothing}] /\ missed \subseteq Transfer
  BY DEF Typed, Chain
<1>3. /\ mined' = [t \in Transfer |-> IF mined[t] = Nothing THEN Nothing ELSE [mined[t] EXCEPT !.block = Gone]]
      /\ missed' = IF \E p \in Poll : Active(p) THEN Transfer
                   ELSE missed \cup {t \in Transfer : mined[t] # Nothing}
  BY DEF NodeRestarts
<1>4. ASSUME NEW t \in Transfer, mined[t] # Nothing
      PROVE  mined'[t] \in Places /\ mined'[t].to = mined[t].to /\ mined'[t].tx = mined[t].tx
  <2>1. PICK m \in Places : m = mined[t]
    BY <1>2, <1>4
  <2>2. mined'[t] = [m EXCEPT !.block = MaxHeight + 1]
    BY <1>3, <1>4, <2>1 DEF Gone
  <2>3. PICK n \in Nat : n = MaxHeight + 1
    BY <1>1
  <2>4. mined'[t] = [m EXCEPT !.block = n]
    BY <2>2, <2>3
  <2> QED BY <2>1, <2>4 DEF Places
<1>5. \A t \in Transfer : mined[t] = Nothing => mined'[t] = Nothing
  BY <1>3
<1>6. mined' = [t \in Transfer |-> mined'[t]]
  BY <1>3
<1>7. mined' \in [Transfer -> Places \cup {Nothing}]
  BY <1>4, <1>5, <1>6
<1>8. (\E p \in Poll : poll[p] # NoPoll) => missed' = Transfer
  BY <1>3 DEF Active
<1>9. missed \subseteq missed' /\ missed' \subseteq Transfer /\ \A t \in Transfer : mined[t] # Nothing => t \in missed'
  BY <1>2, <1>3
<1> QED BY <1>4, <1>5, <1>7, <1>8, <1>9, NothingFacts

LEMMA NodeRestartsTyped ==
  ASSUME Typed, NodeRestarts
  PROVE  Typed'
<1>1. Chain'
  <2>1. \A t \in Transfer : Addressed(t)'
    BY NodeRestartsChain, NothingFacts DEF NodeRestarts, Typed, Chain, Addressed, HasAddress
  <2>2. faults' \in 0..MaxFaults
    BY BoundAssumption DEF NodeRestarts, Fault, Typed, Chain
  <2>3. height' = 0 /\ 0 \in 0..MaxHeight
    BY BoundAssumption DEF NodeRestarts
  <2> QED BY <2>1, <2>2, <2>3, NodeRestartsChain DEF NodeRestarts, Typed, Chain
<1>2. Money' /\ CallsInOrder'
  BY MoneyStays, CallsStay DEF NodeRestarts, Typed, wallet, jobs
<1>3. \A t, u : SentTo(t, u) => SentTo(t, u)'
  BY NodeRestartsChain DEF SentTo
<1>4. Scans'
  BY <1>3 DEF NodeRestarts, Typed, Scans, CheckRow, jobs
<1> QED BY <1>1, <1>2, <1>4 DEF Typed

LEMMA ArriveTyped ==
  ASSUME Typed, NEW t \in Transfer, NEW batch, NEW to \in [Transfer -> User], Arrive(t, batch, to)
  PROVE  Typed'
<1>1. Chain' /\ Scans'
  BY MineTyped DEF Arrive, jobs, counts
<1>2. Money' /\ CallsInOrder'
  BY MoneyStays, CallsStay DEF Arrive, Typed, wallet, jobs, counts
<1> QED BY <1>1, <1>2 DEF Typed

----------------------------------------------------------------------------
(* The polls                                                               *)

LEMMA FreePoll ==
  ASSUME NEW p \in Free
  PROVE  p \in Poll /\ poll[p] = NoPoll
<1>1. p \in {q \in Poll : ~Active(q)}
  BY DEF Free
<1> QED BY <1>1 DEF Active

LEMMA FromFacts ==
  ASSUME Typed
  PROVE  From \in Nat /\ height \in Nat /\ AtLeastZero(height - ResetWindow) \in Nat
<1>1. height \in Nat /\ cursor \in Nat \cup {Nothing}
  BY BoundAssumption DEF Typed, Chain
<1>2. AtLeastZero(height - Window) \in Nat /\ AtLeastZero(height - ResetWindow) \in Nat
  BY <1>1, LeastZero, WindowAssumption
<1>3. cursor # Nothing => cursor + 1 \in Nat
  BY <1>1
<1> QED BY <1>1, <1>2, <1>3 DEF From

\* The poll p goes on as x, and its checks are none.
PollGoes(p, x) ==
  /\ poll' \in [Poll -> Polls]
  /\ poll'[p] = x
  /\ \A q \in Poll \ {p} : poll'[q] = poll[q]

LEMMA PollEffect ==
  ASSUME Typed, NEW p \in Poll, NEW x \in Polls, poll' = [poll EXCEPT ![p] = x]
  PROVE  PollGoes(p, x)
BY DEF Typed, Scans, PollGoes

LEMMA PollMoves ==
  ASSUME NEW w \in Polls, NEW a \in {"find", "settle"}
  PROVE  \E x \in Polls : /\ x = [w EXCEPT !.at = a] /\ x.at = a
                          /\ x.from = w.from /\ x.to = w.to /\ w.to \in Nat
<1>1. PICK x : x = [w EXCEPT !.at = a]
  OBVIOUS
<1>2. x \in Polls /\ x.at = a /\ x.from = w.from /\ x.to = w.to /\ w.to \in Nat
  BY <1>1 DEF Polls
<1> QED BY <1>1, <1>2

LEMMA PollDepositsEffect ==
  ASSUME Typed, NEW p \in Poll, PollDeposits(p)
  PROVE  /\ poll[p] = NoPoll
         /\ \E x \in Polls :
              /\ PollGoes(p, x) /\ x.to = height /\ x.from <= x.to
              /\ \/ x.at = "reset" /\ From > height
                 \/ x.at = "find" /\ x.from = From /\ From <= height
         /\ missed \subseteq missed' /\ missed' \subseteq Transfer
<1>1. poll[p] = NoPoll
  BY FreePoll DEF PollDeposits
<1>2. missed \subseteq missed' /\ missed' \subseteq Transfer
  BY DEF PollDeposits, Typed, Chain
<1>3. PICK f \in Nat, h \in Nat, r \in Nat : f = From /\ h = height /\ r = AtLeastZero(height - ResetWindow)
  BY FromFacts
<1>4. CASE From > height
  <2>1. PICK x \in Polls : x = [at |-> "reset", from |-> r, to |-> h]
    BY DEF Polls
  <2>2. poll' = [poll EXCEPT ![p] = x]
    BY <1>3, <1>4, <2>1 DEF PollDeposits
  <2>3. r <= h
    BY <1>3, WindowAssumption DEF AtLeastZero
  <2> QED BY <1>1, <1>2, <1>3, <1>4, <2>1, <2>2, <2>3, PollEffect
<1>5. CASE ~(From > height)
  <2>1. PICK x \in Polls : x = [at |-> "find", from |-> f, to |-> h]
    BY DEF Polls
  <2>2. poll' = [poll EXCEPT ![p] = x]
    BY <1>3, <1>5, <2>1 DEF PollDeposits
  <2>3. From <= height
    BY <1>3, <1>5
  <2> QED BY <1>1, <1>2, <1>3, <2>1, <2>2, <2>3, PollEffect
<1> QED BY <1>4, <1>5

LEMMA PollDepositsTyped ==
  ASSUME Typed, NEW p \in Poll, PollDeposits(p)
  PROVE  Typed'
<1>1. Chain'
  <2>1. missed' \subseteq Transfer
    BY PollDepositsEffect
  <2> QED BY <2>1 DEF PollDeposits, Typed, Chain, Addressed, HasAddress, chain, counts
<1>2. Money' /\ CallsInOrder'
  BY MoneyStays, CallsStay DEF PollDeposits, Typed, wallet, counts
<1>3. Scans'
  <2>1. poll[p].at # "settle" /\ \E x : PollGoes(p, x) /\ x.at # "settle"
    BY PollDepositsEffect, EmptyRows
  <2>2. check' = check /\ mined' = mined
    BY DEF PollDeposits, chain
  <2> QED BY <2>1, <2>2 DEF PollGoes, Typed, Scans, CheckRow, SentTo
<1> QED BY <1>1, <1>2, <1>3 DEF Typed

LEMMA ResetEffect ==
  ASSUME Typed, NEW p \in Poll, ResetCursor(p)
  PROVE  \E x \in Polls :
           /\ PollGoes(p, x) /\ x.at = "find" /\ x.from = poll[p].from /\ x.to = poll[p].to
           /\ cursor' = poll[p].to /\ poll[p].to \in Nat /\ poll[p] # NoPoll
<1>1. PICK w \in Polls : w = poll[p]
  BY DEF Typed, Scans
<1>2. PICK x \in Polls : /\ x = [w EXCEPT !.at = "find"] /\ x.at = "find"
                         /\ x.from = w.from /\ x.to = w.to /\ w.to \in Nat
  BY PollMoves
<1>3. poll' = [poll EXCEPT ![p] = x]
  BY <1>1, <1>2 DEF ResetCursor
<1>4. poll[p] # NoPoll /\ cursor' = w.to
  BY <1>1, EmptyRows DEF ResetCursor
<1> QED BY <1>1, <1>2, <1>3, <1>4, PollEffect

LEMMA ResetTyped ==
  ASSUME Typed, NEW p \in Poll, ResetCursor(p)
  PROVE  Typed'
<1>1. Chain'
  <2>1. cursor' \in Nat
    BY ResetEffect
  <2> QED BY <2>1 DEF ResetCursor, Typed, Chain, Addressed, HasAddress, chain, counts
<1>2. Money' /\ CallsInOrder'
  BY MoneyStays, CallsStay DEF ResetCursor, Typed, wallet, counts
<1>3. Scans'
  <2>1. poll[p].at # "settle" /\ \E x : PollGoes(p, x) /\ x.at # "settle"
    BY ResetEffect DEF ResetCursor
  <2>2. check' = check /\ mined' = mined
    BY DEF ResetCursor, chain
  <2> QED BY <2>1, <2>2 DEF PollGoes, Typed, Scans, CheckRow, SentTo
<1> QED BY <1>1, <1>2, <1>3 DEF Typed

LEMMA FindEffect ==
  ASSUME Typed, NEW p \in Poll, FindAddresses(p)
  PROVE  /\ \E x \in Polls :
              /\ PollGoes(p, x) /\ x.at = "settle" /\ x.from = poll[p].from /\ x.to = poll[p].to
         /\ poll[p] # NoPoll
         /\ check' \in [Poll -> [User -> Checks]]
         /\ \A u \in User : /\ check[p][u] = NoCheck
                            /\ check'[p][u].tx = Nothing /\ check'[p][u].left = {} /\ ~check'[p][u].stale
                            /\ check'[p][u].at = IF HasAddress(u) THEN "query" ELSE "none"
         /\ \A q \in Poll \ {p} : check'[q] = check[q]
<1>1. PICK w \in Polls : w = poll[p]
  BY DEF Typed, Scans
<1>2. PICK x \in Polls : /\ x = [w EXCEPT !.at = "settle"] /\ x.at = "settle"
                         /\ x.from = w.from /\ x.to = w.to
  BY PollMoves
<1>3. poll' = [poll EXCEPT ![p] = x]
  BY <1>1, <1>2 DEF FindAddresses
<1>4. \A u \in User : check[p][u] = NoCheck
  BY DEF FindAddresses, Typed, Scans
<1>5. PICK a \in [User -> {"query", "none"}] : a = [u \in User |-> IF HasAddress(u) THEN "query" ELSE "none"]
  OBVIOUS
<1>6. \A b \in {"query", "none"} :
        LET n == [NoCheck EXCEPT !.at = b]
        IN  n \in Checks /\ n.at = b /\ n.tx = Nothing /\ n.left = {} /\ ~n.stale
  <2> TAKE b \in {"query", "none"}
  <2>1. PICK n : n = [NoCheck EXCEPT !.at = b]
    OBVIOUS
  <2>2. n = [at |-> b, left |-> {}, tx |-> Nothing, balance |-> 0, stale |-> FALSE]
    BY <2>1 DEF NoCheck
  <2>3. n \in Checks
    BY <2>2 DEF Checks
  <2> QED BY <2>1, <2>2, <2>3
<1>7. PICK f : f = [u \in User |-> [NoCheck EXCEPT !.at = a[u]]]
  OBVIOUS
<1>8. \A u \in User : /\ f[u] \in Checks /\ f[u].at = a[u] /\ f[u].tx = Nothing
                      /\ f[u].left = {} /\ ~f[u].stale
  <2> TAKE u \in User
  <2>1. f[u] = [NoCheck EXCEPT !.at = a[u]] /\ a[u] \in {"query", "none"}
    BY <1>7
  <2> QED BY <1>6, <2>1
<1>9. f \in [User -> Checks]
  BY <1>7, <1>8
<1>10. check' = [check EXCEPT ![p] = f]
  BY <1>5, <1>7 DEF FindAddresses
<1>11. check' \in [Poll -> [User -> Checks]] /\ check'[p] = f /\ \A q \in Poll \ {p} : check'[q] = check[q]
  BY <1>9, <1>10 DEF Typed, Scans
<1>12. poll[p] # NoPoll
  BY EmptyRows DEF FindAddresses
<1> QED BY <1>1, <1>2, <1>3, <1>4, <1>5, <1>8, <1>11, <1>12, PollEffect

LEMMA FindTyped ==
  ASSUME Typed, NEW p \in Poll, FindAddresses(p)
  PROVE  Typed'
<1>1. Chain'
  BY ChainStays DEF FindAddresses, Typed, chain, counts
<1>2. Money' /\ CallsInOrder'
  BY MoneyStays, CallsStay DEF FindAddresses, Typed, wallet, counts
<1>3. Scans'
  <2>1. poll' \in [Poll -> Polls] /\ poll'[p].at = "settle" /\ \A q \in Poll \ {p} : poll'[q] = poll[q]
    BY FindEffect DEF PollGoes
  <2>2. \A u \in User : check'[p][u].tx = Nothing /\ check'[p][u].left = {} /\ check'[p][u].at \notin Looking
    BY FindEffect DEF Looking
  <2>3. mined' = mined
    BY DEF FindAddresses, chain
  <2>4. check' \in [Poll -> [User -> Checks]] /\ \A q \in Poll \ {p} : check'[q] = check[q]
    BY FindEffect
  <2>5. ASSUME NEW q \in Poll, NEW u \in User
        PROVE  CheckRow(check[q][u], u)' /\ (poll'[q].at # "settle" => check'[q][u] = NoCheck)
    <3>1. CASE q = p
      BY <2>1, <2>2, <3>1 DEF CheckRow
    <3>2. CASE q # p
      BY <2>1, <2>3, <2>4, <3>2 DEF Typed, Scans, CheckRow, SentTo
    <3> QED BY <3>1, <3>2
  <2> QED BY <2>1, <2>4, <2>5 DEF Scans
<1> QED BY <1>1, <1>2, <1>3 DEF Typed

LEMMA SettleEffect ==
  ASSUME Typed, NEW p \in Poll, Settle(p)
  PROVE  /\ PollGoes(p, NoPoll)
         /\ check' \in [Poll -> [User -> Checks]]
         /\ \A u \in User : check'[p][u] = NoCheck
         /\ \A q \in Poll \ {p} : check'[q] = check[q]
         /\ poll[p].to \in Nat /\ cursor' \in {cursor, poll[p].to}
         /\ missed \subseteq missed' /\ missed' \subseteq Transfer
<1>1. PollGoes(p, NoPoll)
  BY PollEffect, EmptyRows DEF Settle
<1>2. PICK f : f = [u \in User |-> NoCheck]
  OBVIOUS
<1>7. f \in [User -> Checks] /\ \A u \in User : f[u] = NoCheck
  BY <1>2, EmptyRows
<1>3. check' = [check EXCEPT ![p] = f]
  BY <1>2 DEF Settle
<1>4. check' \in [Poll -> [User -> Checks]] /\ check'[p] = f /\ \A q \in Poll \ {p} : check'[q] = check[q]
  BY <1>3, <1>7 DEF Typed, Scans
<1>5. poll[p].to \in Nat
  BY DEF Typed, Scans, Polls
<1>6. cursor' \in {cursor, poll[p].to} /\ missed \subseteq missed' /\ missed' \subseteq Transfer
  BY DEF Settle, Typed, Chain
<1> QED BY <1>1, <1>4, <1>5, <1>6, <1>7

LEMMA SettleTyped ==
  ASSUME Typed, NEW p \in Poll, Settle(p)
  PROVE  Typed'
<1>1. Chain'
  BY SettleEffect DEF Settle, Typed, Chain, Addressed, HasAddress, chain, counts
<1>2. Money' /\ CallsInOrder'
  BY MoneyStays, CallsStay DEF Settle, Typed, wallet, counts
<1>3. Scans'
  <2>1. mined' = mined
    BY DEF Settle, chain
  <2>2. \A u \in User : CheckRow(NoCheck, u)
    BY EmptyRows DEF CheckRow, Looking
  <2>3. \A u \in User : CheckRow(NoCheck, u)'
    BY <2>1, <2>2 DEF CheckRow, SentTo
  <2>4. /\ poll' \in [Poll -> Polls] /\ \A q \in Poll \ {p} : poll'[q] = poll[q]
        /\ check' \in [Poll -> [User -> Checks]] /\ \A q \in Poll \ {p} : check'[q] = check[q]
        /\ \A u \in User : check'[p][u] = NoCheck
    BY SettleEffect DEF PollGoes
  <2>5. ASSUME NEW q \in Poll, NEW u \in User
        PROVE  CheckRow(check[q][u], u)' /\ (poll'[q].at # "settle" => check'[q][u] = NoCheck)
    <3>1. CASE q = p
      BY <2>3, <2>4, <3>1 DEF CheckRow, SentTo
    <3>2. CASE q # p
      BY <2>1, <2>4, <3>2 DEF Typed, Scans, CheckRow, SentTo
    <3> QED BY <3>1, <3>2
  <2> QED BY <2>4, <2>5 DEF Scans
<1> QED BY <1>1, <1>2, <1>3 DEF Typed

----------------------------------------------------------------------------
(* The checks of the addresses                                             *)

\* A check goes on with the events of left.
Continues(left, x) ==
  /\ x \in Checks /\ ~x.stale /\ x.at \in {"done", "check"}
  /\ x.at = "done" => x.tx = Nothing /\ x.left = {} /\ left = {}
  /\ x.at = "check" => x.tx \in left /\ x.left = left \ {x.tx}

LEMMA NextEventEffect ==
  ASSUME Typed, NEW left \in SUBSET Transfer, NEW u, \A t \in left : SentTo(t, u)
  PROVE  Continues(left, NextEvent(left))
<1>1. CASE left = {}
  <2>1. PICK x : x = [NoCheck EXCEPT !.at = "done"]
    OBVIOUS
  <2>2. x = [at |-> "done", left |-> {}, tx |-> Nothing, balance |-> 0, stale |-> FALSE]
    BY <2>1 DEF NoCheck
  <2>3. x \in Checks
    BY <2>2 DEF Checks
  <2>4. NextEvent(left) = x
    BY <1>1, <2>1 DEF NextEvent
  <2>5. x.at = "done" /\ ~x.stale /\ x.tx = Nothing /\ x.left = {}
    BY <2>2
  <2>6. Continues(left, x)
    BY <1>1, <2>3, <2>5 DEF Continues
  <2> QED BY <2>4, <2>6
<1>2. CASE left # {}
  <2> DEFINE Least(t) == \A o \in left : mined[t].block <= mined[o].block
  <2>1. \A t \in left : mined[t].block \in Nat
    BY DEF Typed, Chain, SentTo, Places
  <2>2. \E t \in left : Least(t)
    <3> DEFINE S == {mined[t].block : t \in left}
    <3>1. S \subseteq Nat /\ S # {}
      BY <1>2, <2>1
    <3>2. PICK n \in S : \A m \in S : n <= m
      <4> HIDE DEF S
      <4> QED BY <3>1, MinIn
    <3>3. PICK t \in left : mined[t].block = n
      BY <3>2
    <3>4. \A o \in left : mined[o].block \in S
      OBVIOUS
    <3> QED BY <3>2, <3>3, <3>4
  <2>3. PICK t \in left : t = CHOOSE o \in left : Least(o)
    <3> HIDE DEF Least
    <3> QED BY <2>2
  <2>4. PICK T \in SUBSET Transfer : T = left \ {t}
    OBVIOUS
  <2>5. NextEvent(left) = [NoCheck EXCEPT !.at = "check", !.tx = t, !.left = T]
    BY <1>2, <2>3, <2>4 DEF NextEvent
  <2>6. PICK x : x = [NoCheck EXCEPT !.at = "check", !.tx = t, !.left = T]
    OBVIOUS
  <2>7. x = [at |-> "check", left |-> T, tx |-> t, balance |-> 0, stale |-> FALSE]
    BY <2>6 DEF NoCheck
  <2>8. x \in Checks
    BY <2>7 DEF Checks
  <2>9. x.at = "check" /\ ~x.stale /\ x.tx = t /\ x.left = left \ {t}
    BY <2>4, <2>7
  <2>10. Continues(left, x)
    BY <2>8, <2>9 DEF Continues
  <2> QED BY <2>5, <2>6, <2>10
<1> QED BY <1>1, <1>2

\* A check fails.
Fails(x) == x \in Checks /\ ~x.stale /\ x.at = "failed" /\ x.tx = Nothing /\ x.left = {}

LEMMA FailedEffect == Fails([NoCheck EXCEPT !.at = "failed"])
<1>1. PICK x : x = [NoCheck EXCEPT !.at = "failed"]
  OBVIOUS
<1>2. x = [at |-> "failed", left |-> {}, tx |-> Nothing, balance |-> 0, stale |-> FALSE]
  BY <1>1 DEF NoCheck
<1>3. x \in Checks
  BY <1>2 DEF Checks
<1> QED BY <1>1, <1>2, <1>3 DEF Fails

\* The check of u in poll p goes on as x, and nothing else of the scan changes.
LEMMA CheckGoesTyped ==
  ASSUME Typed, NEW p \in Poll, NEW u \in User, NEW x, CheckGoes(p, u, x),
         CheckRow(x, u), check[p][u].at # "none", mined' = mined, poll' = poll
  PROVE  Scans' /\ poll[p].at = "settle"
<1>1. poll[p].at = "settle"
  BY EmptyRows DEF Typed, Scans
<1>2. ASSUME NEW q \in Poll, NEW v \in User
      PROVE  CheckRow(check[q][v], v)' /\ (poll'[q].at # "settle" => check'[q][v] = NoCheck)
  <2>1. CASE q = p /\ v = u
    BY <1>1, <2>1 DEF CheckGoes, CheckRow, SentTo
  <2>2. CASE ~(q = p /\ v = u)
    BY <2>2 DEF CheckGoes, Typed, Scans, CheckRow, SentTo
  <2> QED BY <2>1, <2>2
<1> QED BY <1>1, <1>2 DEF CheckGoes, Typed, Scans

LEMMA RowsKnown ==
  ASSUME Typed, NEW p \in Poll, NEW u \in User
  PROVE  check[p][u] \in Checks /\ CheckRow(check[p][u], u)
BY DEF Typed, Scans

LEMMA ContinuesRow ==
  ASSUME NEW left, NEW x, NEW u, Continues(left, x), \A t \in left : SentTo(t, u)
  PROVE  CheckRow(x, u)
BY DEF Continues, CheckRow, Looking

\* The transfers of u that poll p looks for
Events(p, u) == {t \in Transfer : /\ mined[t] # Nothing /\ mined[t].to = u
                                  /\ mined[t].block \in poll[p].from..poll[p].to}

LEMMA QueryEffect ==
  ASSUME Typed, NEW p \in Poll, NEW u \in User, Query(p, u)
  PROVE  /\ check[p][u].at = "query"
         /\ \E x : CheckGoes(p, u, x) /\ (Continues(Events(p, u), x) \/ Fails(x))
         /\ faults' \in 0..MaxFaults
<1>1. Events(p, u) \in SUBSET Transfer /\ \A t \in Events(p, u) : SentTo(t, u)
  BY DEF Events, SentTo
<1>2. Continues(Events(p, u), NextEvent(Events(p, u)))
  BY <1>1, NextEventEffect
<1>3. CASE Goes(p, u, NextEvent(Events(p, u))) /\ UNCHANGED faults
  <2>1. PICK x : x = NextEvent(Events(p, u))
    OBVIOUS
  <2>2. x \in Checks
    BY <1>2, <2>1 DEF Continues
  <2>3. CheckGoes(p, u, x)
    BY <1>3, <2>1, <2>2, GoesEffect, TypedOK
  <2> QED BY <1>2, <1>3, <2>1, <2>3 DEF Query, Typed, Chain
<1>4. CASE Fault /\ Goes(p, u, [NoCheck EXCEPT !.at = "failed"])
  <2>1. PICK x : x = [NoCheck EXCEPT !.at = "failed"]
    OBVIOUS
  <2>2. Fails(x) /\ x \in Checks
    BY <2>1, FailedEffect DEF Fails
  <2>3. CheckGoes(p, u, x)
    BY <1>4, <2>1, <2>2, GoesEffect, TypedOK
  <2>4. faults' \in 0..MaxFaults
    BY <1>4, BoundAssumption DEF Fault, Typed, Chain
  <2> QED BY <2>2, <2>3, <2>4 DEF Query
<1> QED BY <1>3, <1>4 DEF Query, Events

LEMMA QueryTyped ==
  ASSUME Typed, NEW p \in Poll, NEW u \in User, Query(p, u)
  PROVE  Typed'
<1>1. PICK x : CheckGoes(p, u, x) /\ (Continues(Events(p, u), x) \/ Fails(x))
  BY QueryEffect
<1>2. CheckRow(x, u)
  <2>1. \A t \in Events(p, u) : SentTo(t, u)
    BY DEF Events, SentTo
  <2>2. CASE Continues(Events(p, u), x)
    BY <2>1, <2>2, ContinuesRow
  <2>3. CASE Fails(x)
    BY <2>3 DEF Fails, CheckRow, Looking
  <2> QED BY <1>1, <2>2, <2>3
<1>3. Scans'
  BY <1>1, <1>2, CheckGoesTyped DEF Query, chain
<1>4. Chain'
  BY QueryEffect DEF Query, Typed, Chain, Addressed, HasAddress, chain
<1>5. Money' /\ CallsInOrder'
  BY MoneyStays, CallsStay DEF Query, Typed, wallet
<1> QED BY <1>3, <1>4, <1>5 DEF Typed

\* A check reads the wallet next.
Reads(c, x, stale) ==
  /\ x \in Checks /\ x.at = "read" /\ x.left = c.left /\ x.tx = c.tx /\ x.stale = stale

LEMMA CheckEffect ==
  ASSUME Typed, NEW p \in Poll, NEW u \in User, Check(p, u)
  PROVE  /\ check[p][u].at = "check" /\ SentTo(check[p][u].tx, u)
         /\ \A t \in check[p][u].left : SentTo(t, u)
         /\ \E x :
              /\ CheckGoes(p, u, x)
              /\ Recorded(check[p][u].tx) => Continues(check[p][u].left, x)
              /\ ~Recorded(check[p][u].tx) => Reads(check[p][u], x, Crediting(check[p][u].tx))
<1>1. PICK c \in Checks : c = check[p][u] /\ CheckRow(c, u) /\ c.at = "check"
  BY RowsKnown DEF Check
<1>2. SentTo(c.tx, u) /\ \A t \in c.left : SentTo(t, u)
  BY <1>1 DEF CheckRow, Looking
<1>3. PICK h \in BOOLEAN : h = Crediting(c.tx)
  BY DEF Crediting
<1>4. CASE Recorded(c.tx)
  <2>1. PICK x : x = NextEvent(c.left)
    OBVIOUS
  <2>2. Continues(c.left, x)
    <3>1. c.left \in SUBSET Transfer
      BY DEF Checks
    <3> QED BY <1>2, <2>1, <3>1, NextEventEffect
  <2>3. CheckGoes(p, u, x)
    <3>1. Goes(p, u, x)
      BY <1>1, <1>4, <2>1 DEF Check
    <3>2. x \in Checks
      BY <2>2 DEF Continues
    <3> QED BY <3>1, <3>2, GoesEffect, TypedOK
  <2> QED BY <1>1, <1>2, <1>4, <2>2, <2>3
<1>5. CASE ~Recorded(c.tx)
  <2>1. PICK x : x = [c EXCEPT !.at = "read", !.stale = h]
    OBVIOUS
  <2>2. x \in Checks /\ x.at = "read" /\ x.left = c.left /\ x.tx = c.tx /\ x.stale = h
    BY <2>1 DEF Checks
  <2>3. Goes(p, u, x)
    BY <1>1, <1>3, <1>5, <2>1 DEF Check
  <2>4. CheckGoes(p, u, x)
    BY <2>2, <2>3, GoesEffect, TypedOK
  <2> QED BY <1>1, <1>2, <1>3, <1>5, <2>2, <2>4 DEF Reads
<1> QED BY <1>4, <1>5

LEMMA CheckTyped ==
  ASSUME Typed, NEW p \in Poll, NEW u \in User, Check(p, u)
  PROVE  Typed'
<1>1. PICK x : /\ CheckGoes(p, u, x)
               /\ Recorded(check[p][u].tx) => Continues(check[p][u].left, x)
               /\ ~Recorded(check[p][u].tx) => Reads(check[p][u], x, Crediting(check[p][u].tx))
  BY CheckEffect
<1>2. CheckRow(x, u)
  <2>1. SentTo(check[p][u].tx, u) /\ \A t \in check[p][u].left : SentTo(t, u)
    BY CheckEffect
  <2>2. CASE Recorded(check[p][u].tx)
    BY <1>1, <2>1, <2>2, ContinuesRow
  <2>3. CASE ~Recorded(check[p][u].tx)
    BY <1>1, <2>1, <2>3 DEF Reads, CheckRow, Looking
  <2> QED BY <2>2, <2>3
<1>3. Scans'
  BY <1>1, <1>2, CheckEffect, CheckGoesTyped DEF Check, chain
<1>4. Chain'
  BY ChainStays DEF Check, Typed, chain, counts
<1>5. Money' /\ CallsInOrder'
  BY MoneyStays, CallsStay DEF Check, Typed, wallet, counts
<1> QED BY <1>3, <1>4, <1>5 DEF Typed

LEMMA ReadEffect ==
  ASSUME Typed, NEW p \in Poll, NEW u \in User, Read(p, u)
  PROVE  /\ check[p][u].at = "read"
         /\ \E x : /\ CheckGoes(p, u, x) /\ CheckRow(x, u)
                   /\ x.at = "write" /\ x.left = check[p][u].left /\ x.tx = check[p][u].tx
                   /\ x.balance = chips[u] /\ x.stale = check[p][u].stale
<1>1. PICK c \in Checks : c = check[p][u] /\ CheckRow(c, u) /\ c.at = "read"
  BY RowsKnown DEF Read
<1>2. PICK n \in Nat : n = chips[u]
  BY DEF Typed, Money
<1>3. PICK x : x = [c EXCEPT !.at = "write", !.balance = n]
  OBVIOUS
<1>4. x \in Checks /\ x.at = "write" /\ x.left = c.left /\ x.tx = c.tx /\ x.balance = n /\ x.stale = c.stale
  BY <1>3 DEF Checks
<1>5. Goes(p, u, x)
  BY <1>1, <1>2, <1>3 DEF Read
<1>6. CheckGoes(p, u, x)
  BY <1>4, <1>5, GoesEffect, TypedOK
<1>7. CheckRow(x, u)
  BY <1>1, <1>4 DEF CheckRow, Looking
<1> QED BY <1>1, <1>2, <1>4, <1>6, <1>7

LEMMA ReadTyped ==
  ASSUME Typed, NEW p \in Poll, NEW u \in User, Read(p, u)
  PROVE  Typed'
<1>1. Scans'
  BY ReadEffect, CheckGoesTyped DEF Read, chain
<1>2. Chain'
  BY ChainStays DEF Read, Typed, chain, counts
<1>3. Money' /\ CallsInOrder'
  BY MoneyStays, CallsStay DEF Read, Typed, wallet, counts
<1> QED BY <1>1, <1>2, <1>3 DEF Typed

\* A record is written, or the hash has one and the write throws.
LEMMA RecordEffect ==
  ASSUME Typed, NEW p \in Poll, NEW u \in User, Record(p, u)
  PROVE  /\ check[p][u].at = "record" /\ SentTo(check[p][u].tx, u)
         /\ \A t \in check[p][u].left : SentTo(t, u)
         /\ \E x :
              /\ CheckGoes(p, u, x) /\ CheckRow(x, u)
              /\ \/ /\ Continues(check[p][u].left, x)
                    /\ records' = records \cup {check[p][u].tx} /\ broken' = broken
                 \/ /\ Fails(x)
                    /\ Recorded(check[p][u].tx) /\ records' = records /\ broken' = TRUE
<1>1. PICK c \in Checks : c = check[p][u] /\ CheckRow(c, u) /\ c.at = "record"
  BY RowsKnown DEF Record
<1>2. SentTo(c.tx, u) /\ \A t \in c.left : SentTo(t, u)
  BY <1>1 DEF CheckRow, Looking
<1>3. CASE Goes(p, u, NextEvent(c.left)) /\ records' = records \cup {c.tx} /\ broken' = broken
  <2>1. PICK x : x = NextEvent(c.left)
    OBVIOUS
  <2>2. Continues(c.left, x)
    <3>1. c.left \in SUBSET Transfer
      BY DEF Checks
    <3> QED BY <1>2, <2>1, <3>1, NextEventEffect
  <2>3. CheckGoes(p, u, x)
    <3>1. Goes(p, u, x)
      BY <1>3, <2>1
    <3>2. x \in Checks
      BY <2>2 DEF Continues
    <3> QED BY <3>1, <3>2, GoesEffect, TypedOK
  <2> QED BY <1>1, <1>2, <1>3, <2>2, <2>3, ContinuesRow
<1>4. CASE /\ Goes(p, u, [NoCheck EXCEPT !.at = "failed"])
           /\ Recorded(c.tx) /\ records' = records /\ broken' = TRUE
  <2>1. PICK x : x = [NoCheck EXCEPT !.at = "failed"]
    OBVIOUS
  <2>2. Fails(x) /\ x \in Checks
    BY <2>1, FailedEffect DEF Fails
  <2>3. Goes(p, u, x)
    BY <1>4, <2>1
  <2>4. CheckGoes(p, u, x)
    BY <2>2, <2>3, GoesEffect, TypedOK
  <2> QED BY <1>1, <1>2, <1>4, <2>2, <2>4 DEF Fails, CheckRow, Looking
<1>5. \/ Goes(p, u, NextEvent(c.left)) /\ records' = records \cup {c.tx} /\ broken' = broken
      \/ /\ Goes(p, u, [NoCheck EXCEPT !.at = "failed"])
         /\ Recorded(c.tx) /\ records' = records /\ broken' = TRUE
  BY <1>1 DEF Record
<1> QED BY <1>3, <1>4, <1>5

LEMMA RecordTyped ==
  ASSUME Typed, NEW p \in Poll, NEW u \in User, Record(p, u)
  PROVE  Typed'
<1>1. Scans'
  BY RecordEffect, CheckGoesTyped DEF Record, chain
<1>2. Chain'
  <2>1. records' \subseteq Transfer
    <3>1. check[p][u].tx \in Transfer
      BY RecordEffect DEF SentTo
    <3>2. records' = records \/ records' = records \cup {check[p][u].tx}
      BY RecordEffect
    <3> QED BY <3>1, <3>2 DEF Typed, Chain
  <2> QED BY <2>1 DEF Record, Typed, Chain, Addressed, HasAddress, chain, counts
<1>3. broken' \in BOOLEAN
  BY RecordEffect DEF Typed, Money
<1>4. Money' /\ CallsInOrder'
  BY <1>3, CallsStay DEF Record, Typed, Money, wallet, counts
<1> QED BY <1>1, <1>2, <1>4 DEF Typed

LEMMA DatabaseFailsEffect ==
  ASSUME Typed, NEW p \in Poll, NEW u \in User, DatabaseFails(p, u)
  PROVE  /\ check[p][u].at \in Looking
         /\ \E x : CheckGoes(p, u, x) /\ Fails(x)
         /\ faults' \in 0..MaxFaults /\ broken' \in BOOLEAN
         /\ check[p][u].at = "record" => broken'
         /\ check[p][u].at # "record" => broken' = broken
<1>1. PICK x : x = [NoCheck EXCEPT !.at = "failed"]
  OBVIOUS
<1>2. Fails(x) /\ x \in Checks
  BY <1>1, FailedEffect DEF Fails
<1>3. CheckGoes(p, u, x)
  BY <1>1, <1>2, GoesEffect, TypedOK DEF DatabaseFails
<1>4. faults' \in 0..MaxFaults
  BY BoundAssumption DEF DatabaseFails, Fault, Typed, Chain
<1>5. broken \in BOOLEAN /\ broken' = (broken \/ check[p][u].at = "record")
  BY DEF DatabaseFails, Typed, Money
<1> QED BY <1>2, <1>3, <1>4, <1>5 DEF DatabaseFails, Looking

LEMMA DatabaseFailsTyped ==
  ASSUME Typed, NEW p \in Poll, NEW u \in User, DatabaseFails(p, u)
  PROVE  Typed'
<1>1. PICK x : CheckGoes(p, u, x) /\ Fails(x)
  BY DatabaseFailsEffect
<1>2. CheckRow(x, u) /\ check[p][u].at # "none"
  BY <1>1, DatabaseFailsEffect DEF Fails, CheckRow, Looking
<1>3. Scans'
  BY <1>1, <1>2, CheckGoesTyped DEF DatabaseFails, chain
<1>4. Chain'
  BY DatabaseFailsEffect DEF DatabaseFails, Typed, Chain, Addressed, HasAddress, chain
<1>5. Money' /\ CallsInOrder'
  BY DatabaseFailsEffect, CallsStay DEF DatabaseFails, Typed, Money, wallet
<1> QED BY <1>3, <1>4, <1>5 DEF Typed

\* What the checks, but for own, and the calls, but for own, know of u's wallet is stale.
ChecksStaled(u, t, own) ==
  /\ check' \in [Poll -> [User -> Checks]]
  /\ \A q \in Poll : \A v \in User : <<q, v>> \notin own =>
       Staled(check[q][v], check'[q][v], Crossed(q, v, u, t))

CallsStaled(u, at, own) ==
  /\ call' \in [Call -> Calls]
  /\ \A d \in Call \ own : StaledCall(call[d], call'[d], call[d].user = u /\ call[d].at \in at)

LEMMA StaledRow ==
  ASSUME NEW x, NEW y, NEW w, NEW u, Staled(x, y, w), CheckRow(x, u)
  PROVE  CheckRow(y, u)
BY DEF Staled, CheckRow

LEMMA StaledCallRow ==
  ASSUME NEW x, NEW y, NEW w, StaledCall(x, y, w), CallRow(x)
  PROVE  CallRow(y)
BY DEF StaledCall, CallRow

\* A check that is not in progress is not made stale.
LEMMA StaledScan ==
  ASSUME Typed, NEW u, NEW t, NEW own, ChecksStaled(u, t, own), UNCHANGED <<mined, poll>>,
         NEW q \in Poll, NEW v \in User, <<q, v>> \notin own
  PROVE  CheckRow(check[q][v], v)' /\ (poll'[q].at # "settle" => check'[q][v] = NoCheck)
<1>1. Staled(check[q][v], check'[q][v], Crossed(q, v, u, t))
  BY DEF ChecksStaled
<1>2. CheckRow(check'[q][v], v)
  BY <1>1, RowsKnown, StaledRow
<1>3. ASSUME poll[q].at # "settle" PROVE check'[q][v] = NoCheck
  <2>1. check[q][v] = NoCheck
    BY <1>3 DEF Typed, Scans
  <2>2. ~Crossed(q, v, u, t)
    BY <2>1, EmptyRows DEF Crossed
  <2>3. PICK y \in Checks : y = check'[q][v]
    BY <1>1 DEF Staled
  <2>4. y.at = "none" /\ y.left = {} /\ y.tx = Nothing /\ y.balance = 0
    BY <1>1, <2>1, <2>3 DEF Staled, NoCheck
  <2>5. y.stale = FALSE
    BY <1>1, <2>1, <2>2, <2>3, EmptyRows DEF Staled, Checks
  <2> QED BY <2>3, <2>4, <2>5 DEF NoCheck, Checks
<1> QED BY <1>2, <1>3 DEF CheckRow, SentTo

LEMMA WriteEffect ==
  ASSUME Typed, NEW p \in Poll, NEW u \in User, Write(p, u)
  PROVE  /\ check[p][u].at = "write" /\ CheckRow(check[p][u], u) /\ check[p][u].balance \in Nat
         /\ Sets(u, check[p][u].balance + 1) /\ chips'[u] = check[p][u].balance + 1
         /\ ChecksStaled(u, check[p][u].tx, {<<p, u>>})
         /\ LET x == check'[p][u]
            IN  /\ x \in Checks /\ CheckRow(x, u)
                /\ x.at = "record" /\ x.left = check[p][u].left /\ x.tx = check[p][u].tx
         /\ CallsStaled(u, {"deduct", "coin"}, {})
         /\ broken' = (broken \/ check[p][u].stale) /\ check[p][u].stale \in BOOLEAN
<1>1. PICK c \in Checks : c = check[p][u] /\ CheckRow(c, u) /\ c.at = "write"
  BY RowsKnown DEF Write
<1>2. c.balance \in Nat /\ c.stale \in BOOLEAN /\ c.balance + 1 \in Nat /\ c.balance + 1 \in Int
      /\ c.balance + 1 >= 0
  BY DEF Checks
<1>3. Sets(u, c.balance + 1) /\ chips'[u] = c.balance + 1
  <2>1. SetBalance(u, c.balance + 1)
    BY <1>1 DEF Write
  <2>2. Sets(u, c.balance + 1)
    BY <1>2, <2>1, SetsEffect, TypedOK
  <2> QED BY <1>2, <2>2, LeastZero DEF Sets
<1>4. PICK x : x = [c EXCEPT !.at = "record"]
  OBVIOUS
<1>5. x \in Checks /\ x.at = "record" /\ x.left = c.left /\ x.tx = c.tx
  BY <1>4 DEF Checks
<1>6. PICK S : S = StaleChecks(u, c.tx)
  OBVIOUS
<1>7. /\ S \in [Poll -> [User -> Checks]]
      /\ \A q \in Poll : \A v \in User :
           Staled(check[q][v], S[q][v], Crossed(q, v, u, c.tx))
  BY <1>6, StaleChecksEffect, TypedOK
<1>8. check' = [S EXCEPT ![p][u] = x]
  BY <1>1, <1>4, <1>6 DEF Write
<1>9. PICK f \in [User -> Checks] : f = [S[p] EXCEPT ![u] = x]
  BY <1>5, <1>7
<1>10. f[u] = x /\ \A v \in User : v # u => f[v] = S[p][v]
  BY <1>7, <1>9
<1>11. check' = [S EXCEPT ![p] = f]
  BY <1>8, <1>9
<1>12. check' \in [Poll -> [User -> Checks]]
  BY <1>7, <1>11
<1>13. check'[p] = f /\ \A q \in Poll : q # p => check'[q] = S[q]
  BY <1>7, <1>11
<1>14. ChecksStaled(u, c.tx, {<<p, u>>})
  <2>1. ASSUME NEW q \in Poll, NEW v \in User, <<q, v>> \notin {<<p, u>>}
        PROVE  Staled(check[q][v], check'[q][v], Crossed(q, v, u, c.tx))
    <3>1. check'[q][v] = S[q][v]
      BY <1>10, <1>13, <2>1
    <3> QED BY <1>7, <3>1
  <2> QED BY <1>12, <2>1 DEF ChecksStaled
<1>15. check'[p][u] = x
  BY <1>10, <1>13
<1>16. CheckRow(x, u)
  BY <1>1, <1>5 DEF CheckRow, Looking
<1>17. call' = StaleCalls(u, {"deduct", "coin"})
  BY DEF Write
<1>18. CallsStaled(u, {"deduct", "coin"}, {})
  BY <1>17, StaleCallsEffect, TypedOK DEF CallsStaled
<1>19. broken' = (broken \/ c.stale)
  BY <1>1 DEF Write
<1> QED BY <1>1, <1>2, <1>3, <1>5, <1>14, <1>15, <1>16, <1>18, <1>19

LEMMA WriteTyped ==
  ASSUME Typed, NEW p \in Poll, NEW u \in User, Write(p, u)
  PROVE  Typed'
<1>1. Chain'
  BY ChainStays DEF Write, Typed, chain, counts
<1>2. Money'
  <2>1. broken' \in BOOLEAN
    BY WriteEffect
  <2>2. chips' \in [User -> Nat] /\ coin' \in [User -> Nat]
    BY WriteEffect DEF Sets
  <2> QED BY <2>1, <2>2 DEF Write, Typed, Money
<1>3. Scans'
  <2>1. ASSUME NEW q \in Poll, NEW v \in User
        PROVE  CheckRow(check[q][v], v)' /\ (poll'[q].at # "settle" => check'[q][v] = NoCheck)
    <3>0. mined' = mined /\ poll' = poll
      BY DEF Write, chain
    <3>1. CASE <<q, v>> = <<p, u>>
      <4>1. q = p /\ v = u
        BY <3>1
      <4>2. CheckRow(check'[p][u], u) /\ check[p][u].at = "write"
        BY WriteEffect
      <4>3. poll[p].at = "settle"
        BY <4>2, EmptyRows DEF Typed, Scans
      <4> QED BY <3>0, <4>1, <4>2, <4>3 DEF CheckRow, SentTo
    <3>2. CASE <<q, v>> \notin {<<p, u>>}
      <4>1. PICK t, own : t = check[p][u].tx /\ own = {<<p, u>>}
        OBVIOUS
      <4>2. ChecksStaled(u, t, own)
        BY <4>1, WriteEffect
      <4>3. <<q, v>> \notin own /\ UNCHANGED <<mined, poll>>
        BY <3>0, <3>2, <4>1
      <4> QED BY <4>2, <4>3, StaledScan
    <3> QED BY <3>1, <3>2
  <2> QED BY <2>1, WriteEffect DEF Write, ChecksStaled, Typed, Scans
<1>4. CallsInOrder'
  <2>1. call' \in [Call -> Calls] /\ \A d \in Call : CallRow(call'[d])
    <3>2. \A d \in Call : CallRow(call'[d])
      BY WriteEffect, StaledCallRow DEF CallsStaled, Typed, CallsInOrder
    <3> QED BY <3>2, WriteEffect DEF CallsStaled
  <2> QED BY <2>1 DEF Write, Typed, CallsInOrder, counts
<1> QED BY <1>1, <1>2, <1>3, <1>4 DEF Typed

----------------------------------------------------------------------------
(* The calls                                                               *)

LEMMA CallKnown ==
  ASSUME Typed, NEW c \in Call
  PROVE  call[c] \in Calls /\ CallRow(call[c])
BY DEF Typed, CallsInOrder

LEMMA CallGoesTyped ==
  ASSUME Typed, NEW c \in Call, NEW x, CallGoes(c, x), CallRow(x), calls' \in 0..MaxCalls
  PROVE  CallsInOrder'
BY DEF CallGoes, Typed, CallsInOrder

\* Call c starts at at, for u.
Begins(c, at, u) ==
  /\ call[c] = NoCall
  /\ \E x : /\ CallGoes(c, x) /\ CallRow(x)
            /\ x.at = at /\ x.user = u /\ ~x.stale
  /\ CallsInOrder'

LEMMA StartsEffect ==
  ASSUME Typed, NEW c \in Call, NEW at \in {"request", "convert", "create", "mint"},
         NEW u \in User, NEW n \in Nat, at \in Exchanging => n = 1,
         Starts(c, at, u, n)
  PROVE  Begins(c, at, u) /\ faults' = faults
<1>1. PICK x : x = [NoCall EXCEPT !.at = at, !.user = u, !.n = n]
  OBVIOUS
<1>2. x = [at |-> at, user |-> u, n |-> n, balance |-> 0, stale |-> FALSE]
  BY <1>1 DEF NoCall
<1>3. x \in Calls
  BY <1>2 DEF Calls
<1>4. x.at = at /\ x.user = u /\ x.n = n /\ ~x.stale
  BY <1>2
<1>5. CallRow(x)
  BY <1>3, <1>4 DEF CallRow
<1>6. call[c] = NoCall /\ call' = [call EXCEPT ![c] = x] /\ faults' = faults
  BY <1>1 DEF Starts
<1>7. CallGoes(c, x)
  BY <1>3, <1>6, CallEffect, TypedOK
<1>8. calls' \in 0..MaxCalls
  BY BoundAssumption DEF Starts, Typed, CallsInOrder
<1>9. CallsInOrder'
  BY <1>5, <1>7, <1>8, CallGoesTyped
<1> QED BY <1>4, <1>5, <1>6, <1>7, <1>9 DEF Begins

\* Call c goes on at at.
Continued(c, at) ==
  /\ \E x : /\ CallGoes(c, x) /\ CallRow(x)
            /\ x.at = at /\ x.user = call[c].user /\ x.stale = call[c].stale
  /\ CallsInOrder'

LEMMA ToEffect ==
  ASSUME Typed, NEW c \in Call, NEW at \in {"balance", "cool"}, call[c].at # "idle",
         at \in Exchanging => call[c].at \in Exchanging, To(c, at), calls' = calls
  PROVE  Continued(c, at)
<1>1. PICK w \in Calls : w = call[c] /\ CallRow(w)
  BY CallKnown
<1>2. PICK x : x = [w EXCEPT !.at = at]
  OBVIOUS
<1>3. x \in Calls /\ x.at = at /\ x.user = w.user /\ x.n = w.n /\ x.stale = w.stale
  BY <1>2 DEF Calls
<1>4. CallRow(x)
  BY <1>1, <1>3 DEF CallRow
<1>5. call' = [call EXCEPT ![c] = x]
  BY <1>1, <1>2 DEF To
<1>6. CallGoes(c, x)
  BY <1>3, <1>5, CallEffect, TypedOK
<1>7. CallsInOrder'
  BY <1>4, <1>6, CallGoesTyped DEF Typed, CallsInOrder
<1> QED BY <1>1, <1>3, <1>4, <1>6, <1>7 DEF Continued

LEMMA EndsEffect ==
  ASSUME Typed, NEW c \in Call, Ends(c), calls' = calls
  PROVE  CallGoes(c, NoCall) /\ CallsInOrder'
<1>1. CallGoes(c, NoCall)
  BY CallEffect, EmptyRows, TypedOK DEF Ends
<1>2. CallRow(NoCall)
  BY EmptyRows DEF CallRow, Exchanging
<1> QED BY <1>1, <1>2, CallGoesTyped DEF Typed, CallsInOrder

LEMMA CreatingTyped ==
  ASSUME Typed, NEW c \in Call, NEW u \in User, GetOrCreateDepositAddress(c, u)
  PROVE  Typed' /\ Begins(c, "create", u)
<1>1. PICK n \in Nat : n = 1 + Max({index[v] : v \in User})
  BY NextIndex DEF Typed, Chain
<1>2. Begins(c, "create", u) /\ faults' = faults
  <2>1. Starts(c, "create", u, n)
    BY <1>1 DEF GetOrCreateDepositAddress
  <2> QED BY <2>1, StartsEffect DEF Exchanging
<1>3. Chain' /\ Money' /\ Scans'
  BY <1>2, ChainStays, MoneyStays, ScansStay DEF GetOrCreateDepositAddress, Typed, chain, wallet
<1> QED BY <1>2, <1>3 DEF Typed, Begins

LEMMA FaucetTyped ==
  ASSUME Typed, NEW c \in Call, NEW u \in User, Faucet(c, u)
  PROVE  Typed' /\ Begins(c, "mint", u)
<1>1. Begins(c, "mint", u) /\ faults' = faults
  BY StartsEffect DEF Faucet, Exchanging
<1>2. Chain' /\ Money' /\ Scans'
  BY <1>1, ChainStays, MoneyStays, ScansStay DEF Faucet, Typed, chain, wallet
<1> QED BY <1>1, <1>2 DEF Typed, Begins

LEMMA ToBalanceTyped ==
  ASSUME Typed, NEW c \in Call, NEW u \in User, ExchangeChipsToBalance(c, u, 1)
  PROVE  Typed' /\ Begins(c, "request", u)
<1>1. Begins(c, "request", u) /\ faults' = faults
  BY StartsEffect DEF ExchangeChipsToBalance, Exchanging
<1>2. Chain' /\ Money' /\ Scans'
  BY <1>1, ChainStays, MoneyStays, ScansStay DEF ExchangeChipsToBalance, Typed, chain, wallet
<1> QED BY <1>1, <1>2 DEF Typed, Begins

LEMMA ToChipsTyped ==
  ASSUME Typed, NEW c \in Call, NEW u \in User, ExchangeBalanceToChips(c, u, 1)
  PROVE  Typed' /\ Begins(c, "convert", u)
<1>1. Begins(c, "convert", u) /\ faults' = faults
  BY StartsEffect DEF ExchangeBalanceToChips, Exchanging
<1>2. Chain' /\ Money' /\ Scans'
  BY <1>1, ChainStays, MoneyStays, ScansStay DEF ExchangeBalanceToChips, Typed, chain, wallet
<1> QED BY <1>1, <1>2 DEF Typed, Begins

LEMMA CreateAddressTyped ==
  ASSUME Typed, NEW c \in Call, CreateDepositAddress(c)
  PROVE  Typed' /\ CallGoes(c, NoCall) /\ \A u \in User : HasAddress(u) => HasAddress(u)'
<1>1. PICK w \in Calls : w = call[c] /\ w.user \in User /\ w.n \in Nat
  BY CallKnown DEF CreateDepositAddress, CallRow, Calls
<1>2. CallGoes(c, NoCall) /\ CallsInOrder'
  BY EndsEffect DEF CreateDepositAddress, counts
<1>3. index' \in [User -> Nat] /\ \A u \in User : index[u] # 0 => index'[u] # 0
  <2>1. CASE index' = index
    BY <2>1 DEF Typed, Chain
  <2>2. CASE index' # index
    <3>1. index' = [index EXCEPT ![w.user] = w.n] /\ index[w.user] = 0
      BY <1>1, <2>2 DEF CreateDepositAddress, HasAddress
    <3>2. index \in [User -> Nat]
      BY DEF Typed, Chain
    <3> QED BY <1>1, <3>1, <3>2
  <2> QED BY <2>1, <2>2
<1>4. Chain'
  <2>1. \A t \in Transfer : mined[t] # Nothing => mined[t].to \in User
    BY DEF Typed, Chain, Places
  <2>2. \A t \in Transfer : Addressed(t)'
    BY <1>3, <2>1 DEF CreateDepositAddress, chain, Typed, Chain, Addressed, HasAddress
  <2> QED BY <1>3, <2>2 DEF CreateDepositAddress, chain, counts, Typed, Chain
<1>5. Money' /\ Scans'
  BY MoneyStays, ScansStay DEF CreateDepositAddress, Typed, chain, wallet
<1> QED BY <1>2, <1>3, <1>4, <1>5 DEF Typed, HasAddress

LEMMA MintMines ==
  ASSUME Typed, NEW c \in Call, Mint(c)
  PROVE  /\ call[c].user \in User
         /\ \E t \in Transfer, batch \in SUBSET Transfer, to \in [Transfer -> User] : Mine(t, batch, to)
<1>1. PICK u \in User : u = call[c].user
  BY CallKnown DEF Mint, CallRow
<1>2. PICK t \in Transfer : Mine(t, {t}, [o \in Transfer |-> u])
  BY <1>1 DEF Mint
<1>3. PICK to : to = [o \in Transfer |-> u]
  OBVIOUS
<1>4. PICK batch \in SUBSET Transfer : batch = {t}
  OBVIOUS
<1>5. to \in [Transfer -> User] /\ Mine(t, batch, to)
  BY <1>2, <1>3, <1>4
<1> QED BY <1>1, <1>5

LEMMA MintTyped ==
  ASSUME Typed, NEW c \in Call, Mint(c)
  PROVE  Typed' /\ Continued(c, "cool") /\ call[c].user \in User
<1>1. PICK t \in Transfer, batch \in SUBSET Transfer, to \in [Transfer -> User] : Mine(t, batch, to)
  BY MintMines
<1>2. Chain' /\ Scans'
  BY <1>1, MineTyped DEF Mint, counts
<1>3. Continued(c, "cool")
  BY ToEffect DEF Mint, Exchanging, counts
<1>4. Money'
  BY MoneyStays DEF Mint, Typed, wallet
<1>5. Mint(c) /\ call[c].user \in User
  BY MintMines
<1> QED BY <1>2, <1>3, <1>4, <1>5 DEF Typed, Continued, Mint

LEMMA CoolDownTyped ==
  ASSUME Typed, NEW c \in Call, CoolDown(c)
  PROVE  Typed' /\ CallGoes(c, NoCall)
<1>1. call[c].user \in User
  BY CallKnown DEF CoolDown, CallRow
<1>2. CallGoes(c, NoCall) /\ CallsInOrder'
  BY EndsEffect DEF CoolDown, counts
<1>3. Chain' /\ Scans'
  BY ChainStays, ScansStay DEF CoolDown, Typed, chain, counts
<1>4. Money'
  BY <1>1 DEF CoolDown, Typed, Money, wallet
<1> QED BY <1>2, <1>3, <1>4 DEF Typed

LEMMA CooledDownTyped ==
  ASSUME Typed, NEW u \in User, CooledDown(u)
  PROVE  Typed'
<1>1. Chain' /\ Scans' /\ CallsInOrder'
  BY ChainStays, ScansStay, CallsStay DEF CooledDown, Typed, chain, jobs, counts
<1>2. Money'
  BY DEF CooledDown, Typed, Money, wallet
<1> QED BY <1>1, <1>2 DEF Typed

LEMMA AdjustTyped ==
  ASSUME Typed, NEW u \in User, AdjustBalance(u)
  PROVE  Typed'
<1>1. Chain' /\ Scans'
  BY ChainStays, ScansStay DEF AdjustBalance, Typed, chain, jobs
<1>2. Money'
  BY DEF AdjustBalance, Typed, Money
<1>3. CallsInOrder'
  <2>1. calls' \in 0..MaxCalls /\ call' = call
    BY BoundAssumption DEF AdjustBalance, Typed, CallsInOrder, jobs
  <2> QED BY <2>1 DEF Typed, CallsInOrder
<1> QED BY <1>1, <1>2, <1>3 DEF Typed

LEMMA CreateRequestTyped ==
  ASSUME Typed, NEW c \in Call, CreateRequest(c)
  PROVE  /\ Typed' /\ Continued(c, "balance") /\ call[c].user \in User
         /\ requested' = [requested EXCEPT ![call[c].user] = @ + 1]
<1>1. call[c].user \in User /\ call[c].n = 1
  BY CallKnown DEF CreateRequest, CallRow, Exchanging
<1>2. Continued(c, "balance")
  BY ToEffect DEF CreateRequest, Exchanging, counts
<1>3. Chain' /\ Scans'
  BY ChainStays, ScansStay DEF CreateRequest, Typed, chain, counts
<1>4. Money'
  BY <1>1 DEF CreateRequest, Typed, Money
<1> QED BY <1>1, <1>2, <1>3, <1>4 DEF Typed, Continued, CreateRequest

LEMMA ReadBalanceTyped ==
  ASSUME Typed, NEW c \in Call, ReadBalance(c)
  PROVE  /\ Typed' /\ call[c].user \in User
         /\ \E x : /\ CallGoes(c, x) /\ CallRow(x)
                   /\ x.at = "deduct" /\ x.user = call[c].user /\ x.balance = chips[call[c].user]
                   /\ x.stale = call[c].stale
<1>1. PICK w \in Calls : w = call[c] /\ CallRow(w) /\ w.user \in User
  BY CallKnown DEF ReadBalance, CallRow
<1>2. PICK n \in Nat : n = chips[w.user]
  BY <1>1 DEF Typed, Money
<1>3. PICK x : x = [w EXCEPT !.at = "deduct", !.balance = n]
  OBVIOUS
<1>4. x \in Calls /\ x.at = "deduct" /\ x.user = w.user /\ x.n = w.n /\ x.stale = w.stale /\ x.balance = n
  BY <1>3 DEF Calls
<1>5. CallRow(x)
  BY <1>1, <1>4 DEF CallRow, ReadBalance, Exchanging
<1>6. call' = [call EXCEPT ![c] = x]
  BY <1>1, <1>2, <1>3 DEF ReadBalance
<1>7. CallGoes(c, x)
  BY <1>4, <1>6, CallEffect, TypedOK
<1>8. CallsInOrder'
  BY <1>5, <1>7, CallGoesTyped DEF ReadBalance, counts, Typed, CallsInOrder
<1>9. Chain' /\ Scans' /\ Money'
  BY ChainStays, ScansStay, MoneyStays DEF ReadBalance, Typed, chain, wallet, counts
<1> QED BY <1>1, <1>2, <1>4, <1>5, <1>7, <1>8, <1>9 DEF Typed

LEMMA IncrementTyped ==
  ASSUME Typed, NEW c \in Call, IncrementCoinBalance(c)
  PROVE  /\ Typed' /\ CallGoes(c, NoCall) /\ call[c].user \in User
         /\ coin' = [coin EXCEPT ![call[c].user] = @ + 1]
         /\ broken' = (broken \/ call[c].stale)
<1>1. call[c].user \in User /\ call[c].n = 1 /\ call[c].stale \in BOOLEAN
  BY CallKnown DEF IncrementCoinBalance, CallRow, Exchanging, Calls
<1>2. CallGoes(c, NoCall) /\ CallsInOrder'
  BY EndsEffect DEF IncrementCoinBalance, counts
<1>3. Chain' /\ Scans'
  BY ChainStays, ScansStay DEF IncrementCoinBalance, Typed, chain, counts
<1>4. broken' = (broken \/ call[c].stale)
  BY DEF IncrementCoinBalance
<1>5. coin' = [coin EXCEPT ![call[c].user] = @ + 1]
  BY <1>1 DEF IncrementCoinBalance
<1>6. coin' \in [User -> Nat] /\ broken' \in BOOLEAN
  BY <1>1, <1>4, <1>5 DEF Typed, Money
<1>7. Money'
  BY <1>6 DEF IncrementCoinBalance, Typed, Money
<1> QED BY <1>1, <1>2, <1>3, <1>4, <1>5, <1>7 DEF Typed

\* A call that writes the wallet of u goes on as x; the calls at at, and the checks, are stale.
CallWrites(c, u, at, x) ==
  /\ call'[c] = x /\ CallRow(x)
  /\ CallsStaled(u, at, {c})
  /\ ChecksStaled(u, Nothing, {})
  /\ broken' = (broken \/ call[c].stale) /\ call[c].stale \in BOOLEAN
  /\ CallsInOrder' /\ Scans'

LEMMA CallWritesEffect ==
  ASSUME Typed, NEW c \in Call, NEW u, NEW at, NEW x \in Calls, CallRow(x),
         call' = [StaleCalls(u, at) EXCEPT ![c] = x],
         check' = StaleChecks(u, Nothing),
         broken' = (broken \/ call[c].stale), UNCHANGED <<calls, mined, poll>>
  PROVE  CallWrites(c, u, at, x)
<1>1. PICK S : S = StaleCalls(u, at)
  OBVIOUS
<1>2. /\ S \in [Call -> Calls]
      /\ \A d \in Call : StaledCall(call[d], S[d], call[d].user = u /\ call[d].at \in at)
  BY <1>1, StaleCallsEffect, TypedOK
<1>3. call' = [S EXCEPT ![c] = x]
  BY <1>1
<1>4. call' \in [Call -> Calls] /\ call'[c] = x /\ \A d \in Call \ {c} : call'[d] = S[d]
  BY <1>2, <1>3
<1>5. CallsStaled(u, at, {c})
  BY <1>2, <1>4 DEF CallsStaled
<1>6. \A d \in Call : CallRow(call'[d])
  <2>1. ASSUME NEW d \in Call \ {c} PROVE CallRow(call'[d])
    <3>1. PICK h : StaledCall(call[d], call'[d], h)
      BY <1>2, <1>4
    <3> QED BY <3>1, CallKnown, StaledCallRow
  <2> QED BY <1>4, <2>1
<1>7. CallsInOrder'
  BY <1>4, <1>6 DEF Typed, CallsInOrder
<1>8. check' \in [Poll -> [User -> Checks]]
      /\ \A q \in Poll : \A v \in User : Staled(check[q][v], check'[q][v], Crossed(q, v, u, Nothing))
  BY StaleChecksEffect, TypedOK
<1>9. PICK own : own = {}
  OBVIOUS
<1>10. ChecksStaled(u, Nothing, own)
  BY <1>8, <1>9 DEF ChecksStaled
<1>11. Scans'
  <2>1. ASSUME NEW q \in Poll, NEW v \in User
        PROVE  CheckRow(check[q][v], v)' /\ (poll'[q].at # "settle" => check'[q][v] = NoCheck)
    <3>1. <<q, v>> \notin own
      BY <1>9
    <3> QED BY <1>10, <3>1, StaledScan
  <2> QED BY <1>8, <2>1 DEF Typed, Scans
<1>12. call[c].stale \in BOOLEAN
  BY CallKnown DEF Calls
<1> QED BY <1>4, <1>5, <1>7, <1>9, <1>10, <1>11, <1>12 DEF CallWrites

LEMMA DeductTyped ==
  ASSUME Typed, NEW c \in Call, Deduct(c)
  PROVE  /\ Typed' /\ call[c].user \in User
         /\ Sets(call[c].user, call[c].balance - 1) /\ call[c].balance \in Nat
         /\ CallWrites(c, call[c].user, {"request", "balance", "deduct", "coin"}, NoCall)
<1>1. PICK w \in Calls : w = call[c] /\ w.user \in User /\ w.n = 1 /\ w.balance \in Nat
  BY CallKnown DEF Deduct, CallRow, Exchanging, Calls
<1>2. Sets(w.user, w.balance - 1)
  <2>1. SetBalance(w.user, w.balance - 1) /\ w.balance - 1 \in Int
    BY <1>1 DEF Deduct
  <2> QED BY <1>1, <2>1, SetsEffect, TypedOK
<1>3. CallWrites(c, w.user, {"request", "balance", "deduct", "coin"}, NoCall)
  <2>1. NoCall \in Calls /\ CallRow(NoCall)
    BY EmptyRows DEF CallRow, Exchanging
  <2>2. PICK at : at = {"request", "balance", "deduct", "coin"}
    OBVIOUS
  <2>3. /\ call' = [StaleCalls(w.user, at) EXCEPT ![c] = NoCall]
        /\ check' = StaleChecks(w.user, Nothing)
        /\ broken' = (broken \/ call[c].stale) /\ UNCHANGED <<calls, mined, poll>>
    BY <1>1, <2>2 DEF Deduct, counts, chain
  <2>4. CallWrites(c, w.user, at, NoCall)
    BY <2>1, <2>3, CallWritesEffect
  <2> QED BY <2>2, <2>4
<1>4. Chain'
  BY ChainStays DEF Deduct, Typed, chain, counts
<1>5. Money'
  <2>1. broken' \in BOOLEAN
    BY <1>3 DEF CallWrites
  <2> QED BY <1>2, <2>1 DEF Sets, Deduct, Typed, Money
<1> QED BY <1>1, <1>2, <1>3, <1>4, <1>5 DEF Typed, CallWrites

LEMMA ConvertTyped ==
  ASSUME Typed, NEW c \in Call, Convert(c)
  PROVE  /\ Typed' /\ call[c].user \in User
         /\ chips' = [chips EXCEPT ![call[c].user] = @ + 1]
         /\ usdt' = [usdt EXCEPT ![call[c].user] = @ - 1]
         /\ \E x : /\ CallWrites(c, call[c].user, {"convert", "deduct"}, x)
                   /\ x.at = "coin" /\ x.user = call[c].user /\ ~x.stale
<1>1. PICK w \in Calls : w = call[c] /\ w.user \in User /\ w.n = 1
  BY CallKnown DEF Convert, CallRow, Exchanging
<1>2. PICK x : x = [w EXCEPT !.at = "coin", !.stale = FALSE]
  OBVIOUS
<1>3. x \in Calls /\ x.at = "coin" /\ x.user = w.user /\ x.n = w.n /\ ~x.stale
  BY <1>2 DEF Calls
<1>4. CallRow(x)
  BY <1>1, <1>3 DEF CallRow
<1>5. CallWrites(c, w.user, {"convert", "deduct"}, x)
  <2>1. PICK at : at = {"convert", "deduct"}
    OBVIOUS
  <2>2. /\ call' = [StaleCalls(w.user, at) EXCEPT ![c] = x]
        /\ check' = StaleChecks(w.user, Nothing)
        /\ broken' = (broken \/ call[c].stale) /\ UNCHANGED <<calls, mined, poll>>
    BY <1>1, <1>2, <2>1 DEF Convert, counts, chain
  <2>3. CallWrites(c, w.user, at, x)
    BY <1>3, <1>4, <2>2, CallWritesEffect
  <2> QED BY <2>1, <2>3
<1>6. chips' = [chips EXCEPT ![w.user] = @ + 1] /\ usdt' = [usdt EXCEPT ![w.user] = @ - 1]
  BY <1>1 DEF Convert
<1>7. chips' \in [User -> Nat] /\ usdt' \in [User -> Int]
  BY <1>1, <1>6 DEF Typed, Money
<1>8. Chain'
  BY ChainStays DEF Convert, Typed, chain, counts
<1>9. Money'
  <2>1. broken' \in BOOLEAN
    BY <1>5 DEF CallWrites
  <2> QED BY <1>7, <2>1 DEF Convert, Typed, Money
<1> QED BY <1>1, <1>3, <1>5, <1>6, <1>8, <1>9 DEF Typed, CallWrites

LEMMA CrashTyped ==
  ASSUME Typed, Crash
  PROVE  /\ Typed'
         /\ \A p \in Poll : poll'[p] = NoPoll /\ \A u \in User : check'[p][u] = NoCheck
         /\ \A c \in Call : call'[c] = NoCall
<1>1. PICK f : f = [u \in User |-> NoCheck]
  OBVIOUS
<1>2. f \in [User -> Checks] /\ \A u \in User : f[u] = NoCheck
  BY <1>1, EmptyRows
<1>3. check' = [p \in Poll |-> f] /\ poll' = [p \in Poll |-> NoPoll] /\ call' = [c \in Call |-> NoCall]
  BY <1>1 DEF Crash
<1>4. /\ check' \in [Poll -> [User -> Checks]] /\ poll' \in [Poll -> Polls] /\ call' \in [Call -> Calls]
      /\ \A p \in Poll : poll'[p] = NoPoll /\ check'[p] = f
      /\ \A c \in Call : call'[c] = NoCall
  BY <1>2, <1>3, EmptyRows
<1>5. Scans'
  <2>1. ASSUME NEW p \in Poll, NEW u \in User
        PROVE  CheckRow(check[p][u], u)' /\ check'[p][u] = NoCheck
    BY <1>2, <1>4, EmptyRows DEF CheckRow, Looking
  <2> QED BY <1>4, <2>1 DEF Scans
<1>6. CallsInOrder'
  BY <1>4, EmptyRows DEF Crash, Typed, CallsInOrder, CallRow, Exchanging
<1>7. Chain'
  <2>1. faults' \in 0..MaxFaults
    BY BoundAssumption DEF Crash, Fault, Typed, Chain
  <2> QED BY <2>1 DEF Crash, chain, Typed, Chain, Addressed, HasAddress
<1>8. Money'
  <2>1. broken' \in BOOLEAN
    BY DEF Crash, Typed, Money
  <2> QED BY <2>1 DEF Crash, wallet, Typed, Money
<1> QED BY <1>2, <1>4, <1>5, <1>6, <1>7, <1>8 DEF Typed

----------------------------------------------------------------------------
(* Every step                                                              *)

LEMMA NextTyped == Typed /\ [Next]_vars => Typed'
<1> SUFFICES ASSUME Typed, [Next]_vars PROVE Typed'
  OBVIOUS
<1>1. CASE UNCHANGED vars
  BY <1>1, ChainStays, MoneyStays, ScansStay, CallsStay DEF vars, chain, wallet, jobs, counts, Typed
<1>2. ASSUME NEW t \in Transfer, NEW batch, NEW to \in [Transfer -> User], Arrive(t, batch, to)
      PROVE  Typed'
  BY <1>2, ArriveTyped
<1>3. ASSUME NEW u \in User, CooledDown(u) \/ AdjustBalance(u) PROVE Typed'
  BY <1>3, CooledDownTyped, AdjustTyped
<1>4. ASSUME NEW u \in User, NEW c \in Call,
             \/ GetOrCreateDepositAddress(c, u) \/ Faucet(c, u)
             \/ ExchangeChipsToBalance(c, u, 1) \/ ExchangeBalanceToChips(c, u, 1)
      PROVE  Typed'
  BY <1>4, CreatingTyped, FaucetTyped, ToBalanceTyped, ToChipsTyped
<1>5. ASSUME NEW p \in Poll, PollDeposits(p) \/ PollStep(p) PROVE Typed'
  BY <1>5, PollDepositsTyped, ResetTyped, FindTyped, SettleTyped, QueryTyped, CheckTyped,
     ReadTyped, WriteTyped, RecordTyped, DatabaseFailsTyped DEF PollStep
<1>6. ASSUME NEW c \in Call, CallStep(c) PROVE Typed'
  BY <1>6, CreateAddressTyped, MintTyped, CoolDownTyped, CreateRequestTyped, ReadBalanceTyped,
     DeductTyped, ConvertTyped, IncrementTyped DEF CallStep
<1>7. CASE NodeRestarts \/ Crash
  BY <1>7, NodeRestartsTyped, CrashTyped
<1> QED BY <1>1, <1>2, <1>3, <1>4, <1>5, <1>6, <1>7 DEF Next

----------------------------------------------------------------------------
(* What the cursor passes over                                             *)

Dealt(t) == t \in records \cup missed \/ Recorded(t)

Passed(n) == \A t \in Transfer : mined[t] # Nothing /\ mined[t].block <= n => Dealt(t)

\* The check x of an address will see t, or has failed.
Expects(x, t) == x.at \in {"query", "failed"} \/ x.tx = t \/ t \in x.left

\* A poll ends before the latest block; what comes before its blocks is dealt with, and
\* what is in them is, or will be.
ScanSound(p) ==
  poll[p] # NoPoll =>
    /\ poll[p].from <= poll[p].to
    /\ poll[p].to <= height \/ missed = Transfer
    /\ \A t \in Transfer : mined[t] # Nothing /\ mined[t].block < poll[p].from => Dealt(t)
    /\ poll[p].at = "reset" => Passed(poll[p].to)
    /\ poll[p].at = "settle" =>
         \A t \in Transfer : mined[t] # Nothing /\ mined[t].block \in poll[p].from..poll[p].to =>
           Dealt(t) \/ Expects(check[p][mined[t].to], t)

Scanned == NothingSkipped /\ \A p \in Poll : ScanSound(p)

LEMMA InitScanned == Init => Scanned
BY DEF Init, Scanned, NothingSkipped, ScanSound

\* What is dealt with stays so while what is mined stays in its transaction.
LEMMA DealtStays ==
  ASSUME records \subseteq records', missed \subseteq missed',
         \A t \in Transfer : mined[t] # Nothing => mined'[t] # Nothing /\ mined'[t].tx = mined[t].tx,
         records \subseteq Transfer
  PROVE  \A t \in Transfer : Dealt(t) => Dealt(t)'
BY DEF Dealt, Recorded, SameTx

\* A further event of a transaction that has a record is dealt with; so is a recorded one.
LEMMA RecordedDealt ==
  ASSUME records \subseteq records', mined' = mined, NEW t, Recorded(t)
  PROVE  Dealt(t)'
BY DEF Dealt, Recorded, SameTx

LEMMA AddedDealt == \A t : t \in records' => Dealt(t)'
BY DEF Dealt

\* The scan goes on while the chain and the polls stay: a check that expects t goes on
\* expecting it, or has dealt with it.
LEMMA ScannedStays ==
  ASSUME Typed, Typed', Scanned, UNCHANGED <<height, mined, cursor, poll>>,
         records \subseteq records', missed \subseteq missed',
         \A p \in Poll : \A u \in User : \A t \in Events(p, u) :
           Expects(check[p][u], t) => Expects(check'[p][u], t) \/ Dealt(t)'
  PROVE  Scanned'
<1>1. \A t \in Transfer : Dealt(t) => Dealt(t)'
  BY DealtStays DEF Typed, Chain
<1>2. NothingSkipped'
  BY <1>1 DEF Scanned, NothingSkipped, Dealt
<1>3. ASSUME NEW p \in Poll PROVE ScanSound(p)'
  <2> SUFFICES ASSUME poll[p] # NoPoll PROVE ScanSound(p)'
    BY DEF ScanSound
  <2>1. ScanSound(p)
    BY DEF Scanned
  <2>2. missed = Transfer => missed' = Transfer
    BY DEF Typed, Chain
  <2>3. poll[p].at = "reset" => Passed(poll[p].to)'
    BY <1>1, <2>1 DEF ScanSound, Passed
  <2>4. ASSUME poll[p].at = "settle", NEW t \in Transfer,
               mined[t] # Nothing, mined[t].block \in poll[p].from..poll[p].to
        PROVE  Dealt(t)' \/ Expects(check'[p][mined[t].to], t)
    <3>1. mined[t].to \in User
      BY <2>4 DEF Typed, Chain, Places
    <3>2. Dealt(t) \/ Expects(check[p][mined[t].to], t)
      BY <2>1, <2>4 DEF ScanSound
    <3>3. t \in Events(p, mined[t].to)
      BY <2>4 DEF Events
    <3> QED BY <1>1, <3>1, <3>2, <3>3
  <2>5. \A t \in Transfer : mined[t] # Nothing /\ mined[t].block < poll[p].from => Dealt(t)'
    BY <1>1, <2>1 DEF ScanSound
  <2> QED BY <2>1, <2>2, <2>3, <2>4, <2>5 DEF ScanSound
<1> QED BY <1>2, <1>3 DEF Scanned

\* So it does when no check changes.
LEMMA ScannedIdle ==
  ASSUME Typed, Typed', Scanned,
         UNCHANGED <<height, mined, cursor, poll, check, records, missed>>
  PROVE  Scanned'
<1>1. \A p \in Poll : \A u \in User : \A t \in Events(p, u) :
        Expects(check[p][u], t) => Expects(check'[p][u], t) \/ Dealt(t)'
  OBVIOUS
<1> QED BY <1>1, ScannedStays

LEMMA StaledExpects ==
  ASSUME NEW x, NEW y, NEW w, Staled(x, y, w), NEW t
  PROVE  Expects(x, t) => Expects(y, t)
BY DEF Staled, Expects

LEMMA MineScanned ==
  ASSUME Typed, Typed', Scanned, NEW o \in Transfer, NEW batch, NEW to \in [Transfer -> User],
         Mine(o, batch, to),
         UNCHANGED <<cursor, records, poll, check>>
  PROVE  Scanned'
<1>1. /\ \A t \in batch : /\ mined[t] = Nothing
                          /\ mined'[t].block \in Nat /\ mined'[t].block = height + 1
      /\ height' = height + 1 /\ batch \subseteq Transfer
      /\ \A t \in Transfer \ batch : mined'[t] = mined[t]
      /\ missed \subseteq missed'
      /\ cursor \in Nat /\ height' <= cursor => batch \subseteq missed'
  <2>1. height + 1 \in Nat
    BY BoundAssumption DEF Typed, Chain
  <2> QED BY <2>1, MineChain
<1>2. height \in Nat
  BY BoundAssumption DEF Typed, Chain
<1>3. \A t \in Transfer : Dealt(t) => Dealt(t)'
  <2>1. \A t \in Transfer : mined[t] # Nothing => mined'[t] = mined[t]
    BY <1>1
  <2> QED BY <1>1, <2>1, DealtStays DEF Typed, Chain
<1>4. NothingSkipped'
  <2> SUFFICES ASSUME cursor # Nothing, NEW t \in Transfer, mined'[t] # Nothing, mined'[t].block <= cursor
               PROVE  Dealt(t)'
    BY DEF NothingSkipped, Dealt
  <2>1. CASE t \in batch
    <3>1. cursor \in Nat
      BY DEF Typed, Chain
    <3> QED BY <1>1, <2>1, <3>1 DEF Dealt
  <2>2. CASE t \notin batch
    BY <1>1, <1>3, <2>2 DEF Scanned, NothingSkipped, Dealt
  <2> QED BY <2>1, <2>2
<1>5. ASSUME NEW p \in Poll PROVE ScanSound(p)'
  <2> SUFFICES ASSUME poll[p] # NoPoll PROVE ScanSound(p)'
    BY DEF ScanSound
  <2>1. ScanSound(p) /\ poll[p].from \in Nat /\ poll[p].to \in Nat
    BY DEF Scanned, Typed, Scans, Polls
  <2>2. missed = Transfer => missed' = Transfer
    BY <1>1 DEF Typed, Chain
  <2>3. poll[p].to <= height' \/ missed' = Transfer
    BY <1>1, <1>2, <2>1, <2>2 DEF ScanSound
  <2>4. \A t \in batch : mined'[t].block > poll[p].to \/ Dealt(t)'
    BY <1>1, <1>2, <2>1, <2>2 DEF ScanSound, Dealt
  <2>5. ASSUME NEW t \in Transfer, mined'[t] # Nothing, mined'[t].block < poll[p].from
        PROVE  Dealt(t)'
    <3>1. CASE t \in batch
      <4>1. poll[p].from <= poll[p].to /\ mined'[t].block \in Nat
        BY <1>1, <1>2, <2>1, <3>1 DEF ScanSound
      <4> QED BY <2>1, <2>4, <2>5, <3>1, <4>1
    <3>2. CASE t \notin batch
      BY <1>1, <1>3, <2>1, <2>5, <3>2 DEF ScanSound
    <3> QED BY <3>1, <3>2
  <2>6. ASSUME poll[p].at = "reset", NEW t \in Transfer, mined'[t] # Nothing, mined'[t].block <= poll[p].to
        PROVE  Dealt(t)'
    <3>1. CASE t \in batch
      <4>1. mined'[t].block \in Nat
        BY <1>1, <3>1
      <4> QED BY <2>1, <2>4, <2>6, <3>1, <4>1
    <3>2. CASE t \notin batch
      BY <1>1, <1>3, <2>1, <2>6, <3>2 DEF ScanSound, Passed
    <3> QED BY <3>1, <3>2
  <2>7. ASSUME poll[p].at = "settle", NEW t \in Transfer, mined'[t] # Nothing,
               mined'[t].block \in poll[p].from..poll[p].to
        PROVE  Dealt(t)' \/ Expects(check[p][mined'[t].to], t)
    <3>1. CASE t \in batch
      <4>1. mined'[t].block \in Nat
        BY <1>1, <3>1
      <4> QED BY <2>1, <2>4, <2>7, <3>1, <4>1
    <3>2. CASE t \notin batch
      BY <1>1, <1>3, <2>1, <2>7, <3>2 DEF ScanSound
    <3> QED BY <3>1, <3>2
  <2> QED BY <2>1, <2>3, <2>5, <2>6, <2>7 DEF ScanSound, Passed
<1> QED BY <1>4, <1>5 DEF Scanned

LEMMA NodeRestartsScanned ==
  ASSUME Typed, Typed', Scanned, NodeRestarts
  PROVE  Scanned'
<1>1. \A t \in Transfer : mined'[t] # Nothing => Dealt(t)'
  BY NodeRestartsChain DEF Dealt
<1>2. UNCHANGED <<cursor, poll, check>>
  BY DEF NodeRestarts, jobs
<1>3. ASSUME NEW p \in Poll, poll[p] # NoPoll PROVE missed' = Transfer /\ poll[p].from <= poll[p].to
  BY <1>3, NodeRestartsChain DEF Scanned, ScanSound
<1> QED BY <1>1, <1>2, <1>3 DEF Scanned, NothingSkipped, ScanSound, Passed, Dealt

LEMMA PollDepositsScanned ==
  ASSUME Typed, Typed', Scanned, NEW p \in Poll, PollDeposits(p)
  PROVE  Scanned'
<1>1. PICK x \in Polls :
        /\ PollGoes(p, x) /\ x.to = height /\ x.from <= x.to
        /\ \/ x.at = "reset" /\ From > height
           \/ x.at = "find" /\ x.from = From /\ From <= height
  BY PollDepositsEffect
<1>2. UNCHANGED <<height, mined, cursor, records, check>> /\ missed \subseteq missed'
  BY PollDepositsEffect DEF PollDeposits, chain
<1>3. \A t \in Transfer : Dealt(t) => Dealt(t)'
  BY <1>2, DealtStays DEF Typed, Chain
<1>4. height \in Nat /\ From \in Nat /\ x.from \in Nat /\ cursor \in Nat \cup {Nothing}
  BY FromFacts DEF Polls, Typed, Chain
<1>5. ASSUME NEW q \in Poll, q # p PROVE ScanSound(q)'
  <2>1. ScanSound(q) /\ poll'[q] = poll[q]
    BY <1>1, <1>5 DEF Scanned, PollGoes
  <2>2. missed = Transfer => missed' = Transfer
    BY <1>2 DEF Typed, Chain
  <2> QED BY <1>2, <1>3, <2>1, <2>2 DEF ScanSound, Passed
<1>6. \A t \in Transfer : mined[t] # Nothing => mined[t].block \in Nat
  BY DEF Typed, Chain, Places
<1>7. CASE x.at = "reset"
  <2>1. cursor \in Nat /\ height <= cursor
    <3>1. cursor = Nothing => From <= height
      BY <1>4, WindowAssumption DEF From, AtLeastZero
    <3>2. cursor # Nothing => From = cursor + 1
      BY DEF From
    <3>3. From > height
      BY <1>1, <1>7
    <3> QED BY <1>4, <3>1, <3>2, <3>3
  <2>2. cursor # Nothing
    BY <2>1, NothingFacts
  <2>3. \A t \in Transfer : mined[t] # Nothing /\ mined[t].block <= height => Dealt(t)
    BY <1>4, <1>6, <2>1, <2>2 DEF Scanned, NothingSkipped, Dealt
  <2>4. \A t \in Transfer : mined[t] # Nothing /\ mined[t].block < x.from => Dealt(t)
    BY <1>1, <1>4, <1>6, <2>3
  <2> QED BY <1>1, <1>2, <1>3, <1>4, <1>5, <1>7, <2>3, <2>4
         DEF PollGoes, Scanned, NothingSkipped, ScanSound, Passed, Dealt
<1>8. CASE x.at = "find"
  <2>1. x.from = From
    BY <1>1, <1>8
  <2>2. ASSUME NEW t \in Transfer, mined[t] # Nothing, mined[t].block < From PROVE Dealt(t)'
    <3>1. CASE cursor = Nothing
      <4>1. missed' = missed \cup {o \in Transfer \ records : mined[o] # Nothing /\ mined[o].block < From}
        BY <3>1 DEF PollDeposits
      <4> QED BY <1>2, <2>2, <4>1 DEF Dealt
    <3>2. CASE cursor # Nothing
      <4>1. From = cursor + 1 /\ cursor \in Nat
        BY <1>4, <3>2 DEF From
      <4>2. mined[t].block <= cursor
        BY <1>6, <2>2, <4>1
      <4> QED BY <1>3, <2>2, <3>2, <4>2 DEF Scanned, NothingSkipped, Dealt
    <3> QED BY <3>1, <3>2
  <2>3. ScanSound(p)'
    <3>1. poll'[p] = x
      BY <1>1 DEF PollGoes
    <3> QED BY <1>1, <1>2, <1>4, <1>8, <2>1, <2>2, <3>1 DEF ScanSound
  <2>4. NothingSkipped'
    BY <1>2, <1>3 DEF Scanned, NothingSkipped, Dealt
  <2> QED BY <1>5, <2>3, <2>4 DEF Scanned
<1> QED BY <1>1, <1>7, <1>8

LEMMA ResetScanned ==
  ASSUME Typed, Typed', Scanned, NEW p \in Poll, ResetCursor(p)
  PROVE  Scanned'
<1>1. PICK x \in Polls :
        /\ PollGoes(p, x) /\ x.at = "find" /\ x.from = poll[p].from /\ x.to = poll[p].to
        /\ cursor' = poll[p].to /\ poll[p] # NoPoll
  BY ResetEffect
<1>2. UNCHANGED <<height, mined, records, missed, check>> /\ poll[p].at = "reset"
  BY DEF ResetCursor, chain
<1>3. ScanSound(p) /\ Passed(poll[p].to)
  BY <1>1, <1>2 DEF Scanned, ScanSound
<1>4. NothingSkipped'
  BY <1>1, <1>2, <1>3 DEF NothingSkipped, Passed, Dealt, Recorded, SameTx
<1>5. ScanSound(p)'
  BY <1>1, <1>2, <1>3 DEF PollGoes, ScanSound, Dealt, Recorded, SameTx
<1>6. \A q \in Poll \ {p} : ScanSound(q)'
  BY <1>1, <1>2 DEF PollGoes, Scanned, ScanSound, Passed, Dealt, Recorded, SameTx, Expects
<1> QED BY <1>4, <1>5, <1>6 DEF Scanned

LEMMA FindScanned ==
  ASSUME Typed, Typed', Scanned, NEW p \in Poll, FindAddresses(p)
  PROVE  Scanned'
<1>1. PICK x \in Polls : PollGoes(p, x) /\ x.at = "settle" /\ x.from = poll[p].from /\ x.to = poll[p].to
  BY FindEffect
<1>2. UNCHANGED <<height, mined, cursor, records, missed>> /\ poll[p] # NoPoll
  BY FindEffect DEF FindAddresses, chain
<1>3. ASSUME NEW t \in Transfer, mined[t] # Nothing
      PROVE  Expects(check'[p][mined[t].to], t)
  <2>1. mined[t].to \in User /\ HasAddress(mined[t].to)
    BY <1>3 DEF Typed, Chain, Addressed, Places
  <2> QED BY <2>1, FindEffect DEF Expects
<1>4. NothingSkipped'
  BY <1>2 DEF Scanned, NothingSkipped, Recorded, SameTx
<1>5. ScanSound(p)'
  BY <1>1, <1>2, <1>3 DEF PollGoes, Scanned, ScanSound, Dealt, Recorded, SameTx
<1>6. ASSUME NEW q \in Poll \ {p} PROVE ScanSound(q)'
  <2>1. ScanSound(q) /\ poll'[q] = poll[q] /\ check'[q] = check[q]
    BY <1>1, FindEffect DEF Scanned, PollGoes
  <2> QED BY <1>2, <2>1 DEF ScanSound, Passed, Dealt, Recorded, SameTx
<1> QED BY <1>4, <1>5, <1>6 DEF Scanned

LEMMA SettleScanned ==
  ASSUME Typed, Typed', Scanned, NEW p \in Poll, Settle(p)
  PROVE  Scanned'
<1>1. /\ PollGoes(p, NoPoll) /\ missed \subseteq missed'
      /\ \A q \in Poll \ {p} : check'[q] = check[q]
  BY SettleEffect
<1>2. UNCHANGED <<height, mined, records>> /\ poll[p].at = "settle"
  BY DEF Settle, chain
<1>3. \A t \in Transfer : Dealt(t) => Dealt(t)'
  BY <1>1, <1>2, DealtStays DEF Typed, Chain
<1>4. NothingSkipped'
  <2>1. CASE AnySucceeded(p)
    <3> SUFFICES ASSUME NEW t \in Transfer, mined[t] # Nothing, mined[t].block <= poll[p].to
                 PROVE  Dealt(t)'
      BY <1>2, <2>1 DEF Settle, NothingSkipped, Dealt
    <3>1. ScanSound(p) /\ poll[p] # NoPoll
      BY <1>2, EmptyRows DEF Scanned
    <3>2. /\ mined[t].block \in Nat /\ poll[p].from \in Nat /\ poll[p].to \in Nat
          /\ mined[t].to \in User
      BY DEF Typed, Chain, Scans, Polls, Places
    <3>3. CASE mined[t].block < poll[p].from
      BY <1>3, <3>1, <3>3 DEF ScanSound
    <3>4. CASE ~(mined[t].block < poll[p].from)
      <4>1. mined[t].block \in poll[p].from..poll[p].to
        BY <3>2, <3>4
      <4>2. Dealt(t) \/ Expects(check[p][mined[t].to], t)
        BY <1>2, <3>1, <4>1 DEF ScanSound
      <4>3. CASE Expects(check[p][mined[t].to], t)
        <5>1. PICK c : c = check[p][mined[t].to] /\ CheckRow(c, mined[t].to) /\ c.at \in {"none", "done", "failed"}
          BY <3>2, RowsKnown DEF Settle
        <5>2. c.tx = Nothing /\ c.left = {}
          BY <5>1 DEF CheckRow, Looking
        <5>3. c.at = "failed"
          BY <4>3, <5>1, <5>2, NothingFacts DEF Expects
        <5>4. missed' = missed \cup {o \in Transfer \ records :
                 /\ mined[o] # Nothing /\ check[p][mined[o].to].at = "failed"
                 /\ mined[o].block \in poll[p].from..poll[p].to}
          BY <2>1 DEF Settle
        <5> QED BY <1>2, <4>1, <5>1, <5>3, <5>4 DEF Dealt
      <4> QED BY <1>3, <4>2, <4>3
    <3> QED BY <3>3, <3>4
  <2>2. CASE ~AnySucceeded(p)
    BY <1>2, <1>3, <2>2 DEF Settle, Scanned, NothingSkipped, Dealt
  <2> QED BY <2>1, <2>2
<1>5. ScanSound(p)'
  BY <1>1 DEF PollGoes, ScanSound
<1>6. ASSUME NEW q \in Poll \ {p} PROVE ScanSound(q)'
  <2>1. ScanSound(q) /\ poll'[q] = poll[q] /\ check'[q] = check[q]
    BY <1>1 DEF Scanned, PollGoes
  <2>2. missed = Transfer => missed' = Transfer
    BY <1>1 DEF Typed, Chain
  <2> QED BY <1>2, <1>3, <2>1, <2>2 DEF ScanSound, Passed
<1> QED BY <1>4, <1>5, <1>6 DEF Scanned

\* One check goes on, and still expects what it has not dealt with.
LEMMA CheckScanned ==
  ASSUME Typed, Typed', Scanned, UNCHANGED <<height, mined, cursor, poll>>,
         records \subseteq records', missed \subseteq missed',
         NEW p \in Poll, NEW u \in User, NEW x, CheckGoes(p, u, x),
         \A t \in Events(p, u) : Expects(check[p][u], t) => Expects(x, t) \/ Dealt(t)'
  PROVE  Scanned'
<1>1. ASSUME NEW q \in Poll, NEW v \in User, NEW t \in Events(q, v), Expects(check[q][v], t)
      PROVE  Expects(check'[q][v], t) \/ Dealt(t)'
  <2>1. CASE q = p /\ v = u
    BY <1>1, <2>1 DEF CheckGoes
  <2>2. CASE ~(q = p /\ v = u)
    BY <1>1, <2>2 DEF CheckGoes
  <2> QED BY <2>1, <2>2
<1> QED BY <1>1, ScannedStays

LEMMA QueryScanned ==
  ASSUME Typed, Typed', Scanned, NEW p \in Poll, NEW u \in User, Query(p, u)
  PROVE  Scanned'
<1>1. PICK x : CheckGoes(p, u, x) /\ (Continues(Events(p, u), x) \/ Fails(x))
  BY QueryEffect
<1>2. \A t \in Events(p, u) : Expects(x, t)
  BY <1>1 DEF Continues, Fails, Expects
<1>3. UNCHANGED <<height, mined, cursor, poll, records, missed>>
  BY DEF Query, chain
<1> QED BY <1>1, <1>2, <1>3, CheckScanned

LEMMA CheckIsScanned ==
  ASSUME Typed, Typed', Scanned, NEW p \in Poll, NEW u \in User, Check(p, u)
  PROVE  Scanned'
<1>1. PICK x : /\ CheckGoes(p, u, x)
               /\ Recorded(check[p][u].tx) => Continues(check[p][u].left, x)
               /\ ~Recorded(check[p][u].tx) => Reads(check[p][u], x, Crediting(check[p][u].tx))
  BY CheckEffect
<1>2. UNCHANGED <<height, mined, cursor, poll, records, missed>> /\ check[p][u].at = "check"
  BY DEF Check, chain
<1>3. ASSUME NEW t, Expects(check[p][u], t) PROVE Expects(x, t) \/ Dealt(t)'
  <2>1. PICK c : c = check[p][u] /\ c.at = "check"
    BY <1>2
  <2>2. t = c.tx \/ t \in c.left
    BY <1>3, <2>1 DEF Expects
  <2>3. CASE Recorded(t)
    <3>1. records \subseteq records' /\ mined' = mined
      BY <1>2
    <3> QED BY <2>3, <3>1, RecordedDealt
  <2>4. CASE ~Recorded(t)
    <3>1. CASE Recorded(c.tx)
      BY <1>1, <2>1, <2>2, <2>4, <3>1 DEF Continues, Expects
    <3>2. CASE ~Recorded(c.tx)
      BY <1>1, <2>1, <2>2, <3>2 DEF Reads, Expects
    <3> QED BY <3>1, <3>2
  <2> QED BY <2>3, <2>4
<1> QED BY <1>1, <1>2, <1>3, CheckScanned

LEMMA ReadScanned ==
  ASSUME Typed, Typed', Scanned, NEW p \in Poll, NEW u \in User, Read(p, u)
  PROVE  Scanned'
<1>1. PICK x : CheckGoes(p, u, x) /\ x.left = check[p][u].left /\ x.tx = check[p][u].tx
  BY ReadEffect
<1>2. UNCHANGED <<height, mined, cursor, poll, records, missed>> /\ check[p][u].at = "read"
  BY DEF Read, chain
<1>3. ASSUME NEW t, Expects(check[p][u], t) PROVE Expects(x, t)
  BY <1>1, <1>2, <1>3 DEF Expects
<1> QED BY <1>1, <1>2, <1>3, CheckScanned

LEMMA RecordScanned ==
  ASSUME Typed, Typed', Scanned, NEW p \in Poll, NEW u \in User, Record(p, u)
  PROVE  Scanned'
<1>1. PICK x : /\ CheckGoes(p, u, x)
               /\ \/ /\ Continues(check[p][u].left, x)
                     /\ records' = records \cup {check[p][u].tx}
                  \/ Fails(x) /\ records' = records
  BY RecordEffect
<1>2. UNCHANGED <<height, mined, cursor, poll, missed>> /\ check[p][u].at = "record"
  BY DEF Record, chain
<1>3. records \subseteq records'
  BY <1>1
<1>4. ASSUME NEW t, Expects(check[p][u], t) PROVE Expects(x, t) \/ Dealt(t)'
  BY <1>1, <1>2, <1>4, AddedDealt DEF Continues, Fails, Expects
<1> QED BY <1>1, <1>2, <1>3, <1>4, CheckScanned

LEMMA DatabaseFailsScanned ==
  ASSUME Typed, Typed', Scanned, NEW p \in Poll, NEW u \in User, DatabaseFails(p, u)
  PROVE  Scanned'
<1>1. PICK x : CheckGoes(p, u, x) /\ Fails(x)
  BY DatabaseFailsEffect
<1>2. UNCHANGED <<height, mined, cursor, poll, records, missed>>
  BY DEF DatabaseFails, chain
<1>3. \A t : Expects(x, t)
  BY <1>1 DEF Fails, Expects
<1> QED BY <1>1, <1>2, <1>3, CheckScanned

LEMMA StaledScanned ==
  ASSUME Typed, Typed', Scanned, UNCHANGED <<height, mined, cursor, poll, records, missed>>,
         NEW u, NEW t, NEW own, ChecksStaled(u, t, own),
         \A q \in Poll : \A v \in User : <<q, v>> \in own =>
           \A o : Expects(check[q][v], o) => Expects(check'[q][v], o)
  PROVE  Scanned'
<1>1. ASSUME NEW q \in Poll, NEW v \in User, NEW o \in Events(q, v), Expects(check[q][v], o)
      PROVE  Expects(check'[q][v], o)
  <2>1. CASE <<q, v>> \in own
    BY <1>1, <2>1
  <2>2. CASE <<q, v>> \notin own
    BY <1>1, <2>2, StaledExpects DEF ChecksStaled
  <2> QED BY <2>1, <2>2
<1> QED BY <1>1, ScannedStays

LEMMA WriteScanned ==
  ASSUME Typed, Typed', Scanned, NEW p \in Poll, NEW u \in User, Write(p, u)
  PROVE  Scanned'
<1>1. PICK t, own : t = check[p][u].tx /\ own = {<<p, u>>}
  OBVIOUS
<1>2. ChecksStaled(u, t, own)
  BY <1>1, WriteEffect
<1>3. \A o : Expects(check[p][u], o) => Expects(check'[p][u], o)
  BY WriteEffect DEF Expects
<1>4. UNCHANGED <<height, mined, cursor, poll, records, missed>>
  BY DEF Write, chain
<1>5. ASSUME NEW q \in Poll, NEW v \in User, <<q, v>> \in own
      PROVE  \A o : Expects(check[q][v], o) => Expects(check'[q][v], o)
  <2>1. q = p /\ v = u
    BY <1>1, <1>5
  <2> QED BY <1>3, <2>1
<1> QED BY <1>2, <1>4, <1>5, StaledScanned

\* The calls do not disturb the scan.
LEMMA CallStepScanned ==
  ASSUME Typed, Typed', Scanned, NEW c \in Call, CallStep(c)
  PROVE  Scanned'
<1>1. CASE CreateDepositAddress(c) \/ CoolDown(c) \/ CreateRequest(c) \/ ReadBalance(c) \/ IncrementCoinBalance(c)
  <2>1. UNCHANGED <<height, mined, cursor, poll, check, records, missed>>
    BY <1>1 DEF CreateDepositAddress, CoolDown, CreateRequest, ReadBalance, IncrementCoinBalance, chain
  <2> QED BY <2>1, ScannedIdle
<1>2. CASE Mint(c)
  <2>1. UNCHANGED <<cursor, records, poll, check>>
    BY <1>2 DEF Mint
  <2>2. PICK t \in Transfer, batch \in SUBSET Transfer, to \in [Transfer -> User] : Mine(t, batch, to)
    BY <1>2, MintMines
  <2> QED BY <2>1, <2>2, MineScanned
<1>3. CASE Deduct(c) \/ Convert(c)
  <2>1. UNCHANGED <<height, mined, cursor, poll, records, missed>>
    BY <1>3 DEF Deduct, Convert, chain
  <2>2. PICK own : own = {}
    OBVIOUS
  <2>3. \E u, t : ChecksStaled(u, t, own)
    BY <1>3, <2>2, DeductTyped, ConvertTyped DEF CallWrites
  <2> QED BY <2>1, <2>2, <2>3, StaledScanned
<1> QED BY <1>1, <1>2, <1>3 DEF CallStep

LEMMA NextScanned == Typed /\ Typed' /\ Scanned /\ [Next]_vars => Scanned'
<1> SUFFICES ASSUME Typed, Typed', Scanned, [Next]_vars PROVE Scanned'
  OBVIOUS
<1>1. CASE UNCHANGED vars
  BY <1>1, ScannedIdle DEF vars, chain, jobs
<1>2. ASSUME NEW t \in Transfer, NEW batch, NEW to \in [Transfer -> User], Arrive(t, batch, to)
      PROVE  Scanned'
  BY <1>2, MineScanned DEF Arrive, jobs
<1>3. ASSUME NEW u \in User, CooledDown(u) \/ AdjustBalance(u) PROVE Scanned'
  BY <1>3, ScannedIdle DEF CooledDown, AdjustBalance, chain, jobs
<1>4. ASSUME NEW u \in User, NEW c \in Call,
             \/ GetOrCreateDepositAddress(c, u) \/ Faucet(c, u)
             \/ ExchangeChipsToBalance(c, u, 1) \/ ExchangeBalanceToChips(c, u, 1)
      PROVE  Scanned'
  BY <1>4, ScannedIdle
     DEF GetOrCreateDepositAddress, Faucet, ExchangeChipsToBalance, ExchangeBalanceToChips, chain
<1>5. ASSUME NEW p \in Poll, PollDeposits(p) \/ PollStep(p) PROVE Scanned'
  BY <1>5, PollDepositsScanned, ResetScanned, FindScanned, SettleScanned, QueryScanned,
     CheckIsScanned, ReadScanned, WriteScanned, RecordScanned, DatabaseFailsScanned DEF PollStep
<1>6. ASSUME NEW c \in Call, CallStep(c) PROVE Scanned'
  BY <1>6, CallStepScanned
<1>7. CASE NodeRestarts
  BY <1>7, NodeRestartsScanned
<1>8. CASE Crash
  <2>1. UNCHANGED <<mined, cursor, records, missed>>
    BY <1>8 DEF Crash, chain
  <2> QED BY <1>8, <2>1, CrashTyped DEF Scanned, NothingSkipped, ScanSound, Recorded, SameTx
<1> QED BY <1>1, <1>2, <1>3, <1>4, <1>5, <1>6, <1>7, <1>8 DEF Next

----------------------------------------------------------------------------
(* What is known of the wallets, while no two writers have crossed          *)

\* A check that is not stale knows the chips, and writes a deposit nobody has credited.
CheckFresh(x, u) ==
  ~x.stale =>
    /\ x.at = "write" => x.balance = chips[u]
    /\ x.at \in {"read", "write"} => x.tx \notin Credited

\* An exchange that is not stale knows the chips, and that there is one to deduct.
CallFresh(x) ==
  ~x.stale =>
    /\ x.at = "deduct" => x.balance = chips[x.user]
    /\ x.at \in {"request", "balance", "deduct"} => chips[x.user] >= 1

\* The exchanges that owe User.coinBalance a chip of u
Due(u) == {c \in Call : call[c].user = u /\ call[c].at = "coin" /\ ~call[c].stale}

CoinsAndDues(u) == adjusted[u] = 0 => coin[u] + Cardinality(Due(u)) = chips[u]

ChecksFresh == \A p \in Poll : \A u \in User : CheckFresh(check[p][u], u)
CallsFresh  == \A c \in Call : CallFresh(call[c])
CoinsKept   == \A u \in User : CoinsAndDues(u)

Accounts == ~broken => ChecksFresh /\ CallsFresh /\ CoinsKept

LEMMA CreditedFacts ==
  ASSUME Typed
  PROVE  \A t : t \in Credited <=>
           t \in records \/ \E p \in Poll, u \in User : check[p][u].at = "record" /\ check[p][u].tx = t
<1>1. \A p \in Poll : \A u \in User : check[p][u].at = "record" => check[p][u].tx \in Transfer
  BY RowsKnown DEF CheckRow, Looking, SentTo
<1> QED BY <1>1 DEF Credited, Crediting

\* A check that is not recorded and will not be: whatever becomes of it, what is credited
\* stays.
LEMMA CreditedStays ==
  ASSUME Typed, Typed', records' = records,
         \A p \in Poll : \A u \in User :
           \/ check[p][u].at # "record" /\ check'[p][u].at # "record"
           \/ check'[p][u].at = check[p][u].at /\ check'[p][u].tx = check[p][u].tx
  PROVE  Credited' = Credited
<1>1. \A t : t \in Credited' <=>
        t \in records' \/ \E p \in Poll, u \in User : check'[p][u].at = "record" /\ check'[p][u].tx = t
  <2>1. \A p \in Poll : \A u \in User : check'[p][u].at = "record" => check'[p][u].tx \in Transfer
    BY DEF Typed, Scans, CheckRow, Looking, SentTo
  <2> QED BY <2>1 DEF Credited, Crediting
<1> QED BY <1>1, CreditedFacts

LEMMA Dues ==
  ASSUME NEW u
  PROVE  IsFiniteSet(Due(u)) /\ Cardinality(Due(u)) \in Nat
<1>1. Due(u) \in SUBSET Call
  BY DEF Due
<1> QED BY <1>1, UserAssumption, FS_Subset, FS_CardinalityType

\* Nobody's debts change.
LEMMA DuesStay ==
  ASSUME NEW u,
         \A c \in Call : (call'[c].user = u /\ call'[c].at = "coin" /\ ~call'[c].stale)
                           <=> (call[c].user = u /\ call[c].at = "coin" /\ ~call[c].stale)
  PROVE  Due(u)' = Due(u)
BY DEF Due

LEMMA InitAccounts == Init => Accounts
<1> SUFFICES ASSUME Init PROVE Accounts
  OBVIOUS
<1>1. ChecksFresh /\ CallsFresh
  BY EmptyRows DEF Init, ChecksFresh, CallsFresh, CheckFresh, CallFresh
<1>2. ASSUME NEW u \in User PROVE CoinsAndDues(u)
  <2>1. Due(u) = {}
    BY EmptyRows DEF Init, Due
  <2>2. coin[u] = chips[u] /\ chips[u] \in Nat
    BY BoundAssumption DEF Init
  <2>3. Cardinality(Due(u)) = 0
    BY <2>1, FS_EmptySet
  <2> QED BY <2>2, <2>3 DEF CoinsAndDues
<1> QED BY <1>1, <1>2 DEF Accounts, CoinsKept

\* The wallet stays: nothing is written, no call comes to or leaves User.coinBalance.
LEMMA ScanAccounts ==
  ASSUME Typed, Typed', Accounts, UNCHANGED <<wallet, call, adjusted, broken>>,
         Credited' = Credited,
         \A p \in Poll : \A u \in User :
           \/ check'[p][u] = check[p][u]
           \/ CheckFresh(check'[p][u], u)
  PROVE  Accounts'
<1> SUFFICES ASSUME ~broken PROVE (ChecksFresh /\ CallsFresh /\ CoinsKept)'
  BY DEF Accounts
<1>1. ChecksFresh /\ CallsFresh /\ CoinsKept
  BY DEF Accounts
<1>2. UNCHANGED <<chips, coin>>
  BY DEF wallet
<1>3. ChecksFresh'
  <2>1. \A p \in Poll : \A u \in User : CheckFresh(check'[p][u], u)
    BY <1>1 DEF ChecksFresh
  <2> QED BY <1>2, <2>1 DEF ChecksFresh, CheckFresh
<1>4. CallsFresh' /\ CoinsKept'
  BY <1>1, <1>2 DEF CallsFresh, CallFresh, CoinsKept, CoinsAndDues, Due
<1> QED BY <1>3, <1>4

\* A call goes on, not to and not from User.coinBalance.
LEMMA CallAccounts ==
  ASSUME Typed, Typed', Accounts, UNCHANGED <<chips, coin, adjusted, broken, records, check>>,
         NEW c \in Call, NEW x, CallGoes(c, x), x.at # "coin", call[c].at # "coin",
         CallFresh(call[c]) => CallFresh(x)
  PROVE  Accounts'
<1> SUFFICES ASSUME ~broken PROVE (ChecksFresh /\ CallsFresh /\ CoinsKept)'
  BY DEF Accounts
<1>1. ChecksFresh /\ CallsFresh /\ CoinsKept
  BY DEF Accounts
<1>2. Credited' = Credited
  BY DEF Credited, Crediting
<1>3. ChecksFresh'
  BY <1>1, <1>2 DEF ChecksFresh, CheckFresh
<1>4. CallsFresh'
  BY <1>1 DEF CallGoes, CallsFresh, CallFresh
<1>5. ASSUME NEW u \in User PROVE CoinsAndDues(u)'
  <2>1. Due(u)' = Due(u)
    BY DuesStay DEF CallGoes
  <2> QED BY <1>1, <2>1 DEF CoinsKept, CoinsAndDues
<1> QED BY <1>3, <1>4, <1>5 DEF CoinsKept

\* The steps of the scan that do not write the wallet
LEMMA CheckFreshStays ==
  ASSUME Typed, Typed', Accounts, UNCHANGED <<wallet, call, adjusted, broken>>,
         Credited' = Credited,
         NEW p \in Poll, NEW u \in User, NEW x, CheckGoes(p, u, x), CheckFresh(x, u)
  PROVE  Accounts'
<1>1. \A q \in Poll : \A v \in User : check'[q][v] = check[q][v] \/ CheckFresh(check'[q][v], v)
  BY DEF CheckGoes
<1> QED BY <1>1, ScanAccounts

\* One check goes on, neither to nor from record.
LEMMA CreditedSame ==
  ASSUME Typed, Typed', records' = records,
         NEW p \in Poll, NEW u \in User, NEW x, CheckGoes(p, u, x),
         x.at # "record", check[p][u].at # "record"
  PROVE  Credited' = Credited
<1>1. \A q \in Poll : \A v \in User :
        \/ check[q][v].at # "record" /\ check'[q][v].at # "record"
        \/ check'[q][v].at = check[q][v].at /\ check'[q][v].tx = check[q][v].tx
  BY DEF CheckGoes
<1> QED BY <1>1, CreditedStays

LEMMA NewCheckFresh ==
  ASSUME NEW x, NEW u, x.at \notin {"read", "write"}
  PROVE  CheckFresh(x, u)
BY DEF CheckFresh

LEMMA FindCredits ==
  ASSUME Typed, Typed', NEW p \in Poll, FindAddresses(p)
  PROVE  /\ Credited' = Credited
         /\ \A q \in Poll : \A v \in User : check'[q][v] = check[q][v] \/ CheckFresh(check'[q][v], v)
<1>1. \A u \in User : check[p][u].at # "record" /\ check'[p][u].at \in {"query", "none"}
  BY FindEffect, EmptyRows
<1>2. records' = records /\ \A q \in Poll \ {p} : check'[q] = check[q]
  BY FindEffect DEF FindAddresses
<1>3. Credited' = Credited
  BY <1>1, <1>2, CreditedStays
<1>4. \A q \in Poll : \A v \in User : check'[q][v] = check[q][v] \/ CheckFresh(check'[q][v], v)
  BY <1>1, <1>2 DEF CheckFresh
<1> QED BY <1>3, <1>4

LEMMA SettleCredits ==
  ASSUME Typed, Typed', NEW p \in Poll, Settle(p)
  PROVE  /\ Credited' = Credited
         /\ \A q \in Poll : \A v \in User : check'[q][v] = check[q][v] \/ CheckFresh(check'[q][v], v)
<1>1. \A u \in User : check[p][u].at # "record" /\ check'[p][u].at = "none"
  BY SettleEffect, EmptyRows DEF Settle
<1>2. records' = records /\ \A q \in Poll \ {p} : check'[q] = check[q]
  BY SettleEffect DEF Settle
<1>3. Credited' = Credited
  BY <1>1, <1>2, CreditedStays
<1>4. \A q \in Poll : \A v \in User : check'[q][v] = check[q][v] \/ CheckFresh(check'[q][v], v)
  BY <1>1, <1>2 DEF CheckFresh
<1> QED BY <1>3, <1>4

LEMMA QueryCredits ==
  ASSUME Typed, Typed', NEW p \in Poll, NEW u \in User, Query(p, u)
  PROVE  Credited' = Credited /\ \E x : CheckGoes(p, u, x) /\ CheckFresh(x, u)
<1>1. PICK x : CheckGoes(p, u, x) /\ (Continues(Events(p, u), x) \/ Fails(x))
  BY QueryEffect
<1>2. x.at \in {"done", "check", "failed"}
  BY <1>1 DEF Continues, Fails
<1>3. records' = records /\ check[p][u].at = "query"
  BY DEF Query
<1>4. Credited' = Credited
  BY <1>1, <1>2, <1>3, CreditedSame
<1> QED BY <1>1, <1>2, <1>4, NewCheckFresh

LEMMA CheckCredits ==
  ASSUME Typed, Typed', NEW p \in Poll, NEW u \in User, Check(p, u)
  PROVE  Credited' = Credited /\ \E x : CheckGoes(p, u, x) /\ CheckFresh(x, u)
<1>1. PICK x : /\ CheckGoes(p, u, x)
               /\ Recorded(check[p][u].tx) => Continues(check[p][u].left, x)
               /\ ~Recorded(check[p][u].tx) => Reads(check[p][u], x, Crediting(check[p][u].tx))
  BY CheckEffect
<1>2. x.at \in {"done", "check", "read"}
  BY <1>1 DEF Continues, Reads
<1>3. records' = records /\ check[p][u].at = "check"
  BY DEF Check
<1>4. Credited' = Credited
  BY <1>1, <1>2, <1>3, CreditedSame
<1>5. CheckFresh(x, u)
  <2>1. CASE Recorded(check[p][u].tx)
    BY <1>1, <2>1, NewCheckFresh DEF Continues
  <2>2. CASE ~Recorded(check[p][u].tx)
    <3>1. x.at = "read" /\ x.tx = check[p][u].tx /\ x.stale = Crediting(x.tx)
      BY <1>1, <2>2 DEF Reads
    <3>2. x.tx \notin records
      BY <2>2, <3>1, CheckEffect DEF SentTo, Recorded, SameTx
    <3>3. ~x.stale => x.tx \notin Credited
      BY <3>1, <3>2 DEF Credited
    <3> QED BY <3>1, <3>3 DEF CheckFresh
  <2> QED BY <2>1, <2>2
<1> QED BY <1>1, <1>4, <1>5

LEMMA ReadCredits ==
  ASSUME Typed, Typed', NEW p \in Poll, NEW u \in User, Read(p, u), CheckFresh(check[p][u], u)
  PROVE  Credited' = Credited /\ \E x : CheckGoes(p, u, x) /\ CheckFresh(x, u)
<1>1. PICK x : /\ CheckGoes(p, u, x)
               /\ x.at = "write" /\ x.tx = check[p][u].tx
               /\ x.balance = chips[u] /\ x.stale = check[p][u].stale
  BY ReadEffect
<1>2. records' = records /\ check[p][u].at = "read"
  BY DEF Read
<1>3. Credited' = Credited
  BY <1>1, <1>2, CreditedSame
<1>4. CheckFresh(x, u)
  BY <1>1, <1>2 DEF CheckFresh
<1> QED BY <1>1, <1>3, <1>4

LEMMA RecordCredits ==
  ASSUME Typed, Typed', NEW p \in Poll, NEW u \in User, Record(p, u), ~broken'
  PROVE  Credited' = Credited /\ \E x : CheckGoes(p, u, x) /\ CheckFresh(x, u)
<1>1. PICK x : /\ CheckGoes(p, u, x) /\ Continues(check[p][u].left, x)
               /\ records' = records \cup {check[p][u].tx}
  BY RecordEffect
<1>2. x.at \in {"done", "check"}
  BY <1>1 DEF Continues
<1>3. PICK t : t = check[p][u].tx /\ t \in Transfer /\ records' = records \cup {t}
  BY <1>1, RecordEffect DEF SentTo
<1>4. check[p][u].at = "record"
  BY DEF Record
<1>5. \A q \in Poll : \A v \in User :
        \/ check'[q][v] = check[q][v]
        \/ check'[q][v].at # "record" /\ check[q][v].tx = t
  BY <1>1, <1>2, <1>3 DEF CheckGoes
<1>6. \A o : o \in Credited' <=>
        o \in records' \/ \E q \in Poll, v \in User : check'[q][v].at = "record" /\ check'[q][v].tx = o
  <2>1. \A q \in Poll : \A v \in User : check'[q][v].at = "record" => check'[q][v].tx \in Transfer
    BY DEF Typed, Scans, CheckRow, Looking, SentTo
  <2> QED BY <2>1 DEF Credited, Crediting
<1>7. Credited' = Credited
  <2>1. ASSUME NEW o \in Credited PROVE o \in Credited'
    <3>1. CASE o \in records
      BY <1>3, <1>6, <3>1
    <3>2. CASE o \notin records
      <4>1. PICK q \in Poll, v \in User : check[q][v].at = "record" /\ check[q][v].tx = o
        BY <3>2, <2>1, CreditedFacts
      <4> QED BY <1>3, <1>5, <1>6, <4>1
    <3> QED BY <3>1, <3>2
  <2>2. ASSUME NEW o \in Credited' PROVE o \in Credited
    <3>1. CASE o \in records'
      BY <1>3, <1>4, <3>1, CreditedFacts
    <3>2. CASE o \notin records'
      <4>1. PICK q \in Poll, v \in User : check'[q][v].at = "record" /\ check'[q][v].tx = o
        BY <1>6, <2>2, <3>2
      <4>2. check[q][v] = check'[q][v]
        BY <1>5, <4>1
      <4> QED BY <4>1, <4>2, CreditedFacts
    <3> QED BY <3>1, <3>2
  <2> QED BY <2>1, <2>2
<1> QED BY <1>1, <1>2, <1>7, NewCheckFresh

LEMMA DatabaseFailsCredits ==
  ASSUME Typed, Typed', NEW p \in Poll, NEW u \in User, DatabaseFails(p, u), ~broken'
  PROVE  Credited' = Credited /\ \E x : CheckGoes(p, u, x) /\ CheckFresh(x, u)
<1>1. PICK x : CheckGoes(p, u, x) /\ Fails(x)
  BY DatabaseFailsEffect
<1>2. x.at = "failed" /\ check[p][u].at # "record" /\ records' = records
  BY <1>1, DatabaseFailsEffect DEF Fails, DatabaseFails
<1>3. Credited' = Credited
  BY <1>1, <1>2, CreditedSame
<1> QED BY <1>1, <1>2, <1>3, NewCheckFresh

\* The scan, but for Write, keeps the accounts, and what is credited.
LEMMA ScanStepAccounts ==
  ASSUME Typed, Typed', Accounts, ~broken, ~broken', NEW p \in Poll,
         \/ PollDeposits(p) \/ ResetCursor(p) \/ FindAddresses(p) \/ Settle(p)
         \/ \E u \in User :
              Query(p, u) \/ Check(p, u) \/ Read(p, u) \/ Record(p, u) \/ DatabaseFails(p, u)
  PROVE  Accounts' /\ UNCHANGED <<wallet, call, adjusted, broken>> /\ Credited' = Credited
<1>1. UNCHANGED <<wallet, call, adjusted, broken>>
  <2>1. broken' = broken
    BY DEF Typed, Money
  <2> QED BY <2>1
          DEF PollDeposits, ResetCursor, FindAddresses, Settle, Query, Check, Read, Record, DatabaseFails
<1>2. CASE PollDeposits(p) \/ ResetCursor(p)
  <2>1. UNCHANGED <<records, check>>
    BY <1>2 DEF PollDeposits, ResetCursor
  <2>2. Credited' = Credited
    BY <2>1 DEF Credited, Crediting
  <2> QED BY <1>1, <2>1, <2>2, ScanAccounts
<1>3. CASE FindAddresses(p) \/ Settle(p)
  BY <1>1, <1>3, FindCredits, SettleCredits, ScanAccounts
<1>4. ASSUME NEW u \in User,
             Query(p, u) \/ Check(p, u) \/ Read(p, u) \/ Record(p, u) \/ DatabaseFails(p, u)
      PROVE  Accounts' /\ Credited' = Credited
  <2>1. CheckFresh(check[p][u], u)
    BY DEF Accounts, ChecksFresh
  <2>2. Credited' = Credited /\ \E x : CheckGoes(p, u, x) /\ CheckFresh(x, u)
    BY <1>4, <2>1, QueryCredits, CheckCredits, ReadCredits, RecordCredits, DatabaseFailsCredits
  <2> QED BY <1>1, <2>2, CheckFreshStays
<1> QED BY <1>1, <1>2, <1>3, <1>4

----------------------------------------------------------------------------
(* The steps that write the wallet of a user                               *)

LEMMA ChecksStaledCredits ==
  ASSUME Typed, Typed', records' = records, NEW u, NEW t, NEW own, ChecksStaled(u, t, own), own = {}
  PROVE  Credited' = Credited
<1>1. \A q \in Poll : \A v \in User :
        check'[q][v].at = check[q][v].at /\ check'[q][v].tx = check[q][v].tx
  BY DEF ChecksStaled, Staled
<1> QED BY <1>1, CreditedStays

\* A check that a write of u has not made stale knows what it knew: it is another user's,
\* or has not read the wallet yet.
LEMMA StaledChecksFresh ==
  ASSUME Typed, NEW u \in User, NEW t, NEW own, ChecksStaled(u, t, own),
         \A v \in User \ {u} : chips'[v] = chips[v],
         \A o : o \in Credited' => o \in Credited \/ (SentTo(o, u) /\ o = t),
         NEW q \in Poll, NEW v \in User, <<q, v>> \notin own, CheckFresh(check[q][v], v)
  PROVE  CheckFresh(check[q][v], v)'
<1> DEFINE x == check[q][v]
           y == check'[q][v]
<1>1. Staled(x, y, Crossed(q, v, u, t))
  BY DEF ChecksStaled
<1>2. y.at = x.at /\ y.tx = x.tx /\ y.balance = x.balance /\ (~y.stale => ~x.stale /\ ~Crossed(q, v, u, t))
  BY <1>1 DEF Staled
<1> SUFFICES ASSUME ~y.stale PROVE CheckFresh(x, v)'
  BY DEF CheckFresh
<1>3. ASSUME x.at = "write" PROVE v # u
  BY <1>2, <1>3 DEF Crossed
<1>4. x.at = "write" => y.balance = chips'[v]
  BY <1>2, <1>3 DEF CheckFresh
<1>5. ASSUME x.at \in {"read", "write"} PROVE y.tx \notin Credited'
  <2>1. x.tx \notin Credited
    BY <1>2, <1>5 DEF CheckFresh
  <2>2. ~(SentTo(x.tx, u) /\ x.tx = t)
    <3>1. CASE v = u
      BY <1>2, <1>3, <1>5, <3>1 DEF Crossed
    <3>2. CASE v # u
      <4>1. SentTo(x.tx, v)
        BY <1>5, RowsKnown DEF CheckRow, Looking
      <4> QED BY <3>2, <4>1 DEF SentTo
    <3> QED BY <3>1, <3>2
  <2> QED BY <1>2, <2>1, <2>2
<1> QED BY <1>2, <1>4, <1>5 DEF CheckFresh

\* A call that a write of u has not made stale knows what it knew.
LEMMA StaledCallFresh ==
  ASSUME Typed, NEW u \in User, NEW at, NEW own, CallsStaled(u, at, own), "deduct" \in at,
         {"request", "balance"} \subseteq at \/ chips'[u] >= 1,
         \A v \in User \ {u} : chips'[v] = chips[v],
         NEW d \in Call \ own, CallFresh(call[d])
  PROVE  CallFresh(call[d])'
<1>1. PICK h \in BOOLEAN : h = (call[d].user = u /\ call[d].at \in at)
  OBVIOUS
<1>2. PICK x \in Calls : x = call[d] /\ CallRow(x)
  BY CallKnown
<1>3. StaledCall(x, call'[d], h)
  BY <1>1, <1>2 DEF CallsStaled
<1>4. PICK y \in Calls : y = call'[d] /\ y.at = x.at /\ y.user = x.user /\ y.balance = x.balance
                         /\ (~y.stale => ~x.stale /\ ~h)
  BY <1>3 DEF StaledCall
<1> SUFFICES ASSUME ~y.stale, x.at \in {"request", "balance", "deduct"}
             PROVE  (x.at = "deduct" => y.balance = chips'[x.user]) /\ chips'[x.user] >= 1
  BY <1>4 DEF CallFresh
<1>5. x.user \in User
  BY <1>2 DEF CallRow
<1>6. ~x.stale /\ ~h /\ (x.at = "deduct" => x.balance = chips[x.user]) /\ chips[x.user] >= 1
  BY <1>2, <1>4 DEF CallFresh
<1>7. CASE x.user = u
  BY <1>1, <1>2, <1>6, <1>7
<1>8. CASE x.user # u
  BY <1>4, <1>5, <1>6, <1>8
<1> QED BY <1>7, <1>8

\* A write keeps the debts of the others: no call but its own, if any, comes to
\* User.coinBalance or leaves it.
LEMMA StaledDues ==
  ASSUME Typed, NEW u \in User, NEW at, NEW own, CallsStaled(u, at, own), NEW v \in User,
         v # u \/ "coin" \notin at
  PROVE  /\ own = {} => Due(v)' = Due(v)
         /\ \A d \in Call \ own : d \in Due(v)' <=> d \in Due(v)
<1>1. ASSUME NEW d \in Call \ own
      PROVE  (call'[d].user = v /\ call'[d].at = "coin" /\ ~call'[d].stale)
               <=> (call[d].user = v /\ call[d].at = "coin" /\ ~call[d].stale)
  <2>1. PICK h \in BOOLEAN : h = (call[d].user = u /\ call[d].at \in at)
    OBVIOUS
  <2>2. StaledCall(call[d], call'[d], h)
    BY <2>1 DEF CallsStaled
  <2>3. call'[d].at = call[d].at /\ call'[d].user = call[d].user /\ call'[d].stale = (call[d].stale \/ h)
    BY <2>2 DEF StaledCall
  <2> QED BY <2>1, <2>3
<1>2. own = {} => Due(v)' = Due(v)
  BY <1>1, DuesStay
<1> QED BY <1>1, <1>2 DEF Due

LEMMA WriteCredits ==
  ASSUME Typed, Typed', NEW p \in Poll, NEW u \in User, Write(p, u)
  PROVE  Credited' = Credited \cup {check[p][u].tx}
<1>1. PICK t, own : t = check[p][u].tx /\ own = {<<p, u>>}
  OBVIOUS
<1>2. ChecksStaled(u, t, own) /\ t \in Transfer
  BY <1>1, WriteEffect DEF CheckRow, Looking, SentTo
<1>3. \A q \in Poll : \A v \in User : <<q, v>> \notin own =>
        check'[q][v].at = check[q][v].at /\ check'[q][v].tx = check[q][v].tx
  BY <1>2 DEF ChecksStaled, Staled
<1>4. check[p][u].at = "write" /\ check'[p][u].at = "record" /\ check'[p][u].tx = t
  BY <1>1, WriteEffect
<1>5. records' = records
  BY DEF Write
<1>6. \A o : Crediting(o)' <=> Crediting(o) \/ o = t
  <2>1. ASSUME NEW o, Crediting(o)' PROVE Crediting(o) \/ o = t
    <3>1. PICK q \in Poll, v \in User : check'[q][v].at = "record" /\ check'[q][v].tx = o
      BY <2>1 DEF Crediting
    <3>2. CASE <<q, v>> \in own
      BY <1>1, <1>4, <3>1, <3>2
    <3>3. CASE <<q, v>> \notin own
      BY <1>3, <3>1, <3>3 DEF Crediting
    <3> QED BY <3>2, <3>3
  <2>2. ASSUME NEW o, Crediting(o) PROVE Crediting(o)'
    <3>1. PICK q \in Poll, v \in User : check[q][v].at = "record" /\ check[q][v].tx = o
      BY <2>2 DEF Crediting
    <3>2. <<q, v>> \notin own
      BY <1>1, <1>4, <3>1
    <3> QED BY <1>3, <3>1, <3>2 DEF Crediting
  <2>3. Crediting(t)'
    BY <1>4 DEF Crediting
  <2> QED BY <2>1, <2>2, <2>3
<1> QED BY <1>1, <1>2, <1>5, <1>6 DEF Credited

\* u owes nothing to User.coinBalance once all that was due is stale.
LEMMA NothingDue ==
  ASSUME NEW u, \A d \in Call : call'[d].user = u /\ call'[d].at = "coin" => call'[d].stale
  PROVE  Cardinality(Due(u))' = 0
<1>1. Due(u)' = {}
  BY DEF Due
<1> QED BY <1>1, FS_EmptySet

LEMMA WriteAccounts ==
  ASSUME Typed, Typed', Accounts, NEW p \in Poll, NEW u \in User, Write(p, u), ~broken
  PROVE  Accounts'
<1> SUFFICES ASSUME ~broken' PROVE (ChecksFresh /\ CallsFresh /\ CoinsKept)'
  BY DEF Accounts
<1>1. ChecksFresh /\ CallsFresh /\ CoinsKept
  BY DEF Accounts
<1>2. PICK t, own, at : t = check[p][u].tx /\ own = {<<p, u>>} /\ at = {"deduct", "coin"}
  OBVIOUS
<1>3. /\ ChecksStaled(u, t, own) /\ CallsStaled(u, at, {}) /\ SentTo(t, u)
      /\ Sets(u, check[p][u].balance + 1) /\ chips'[u] = check[p][u].balance + 1
      /\ check[p][u].balance \in Nat
  BY <1>2, WriteEffect DEF CheckRow, Looking
<1>4. Credited' = Credited \cup {t} /\ chips'[u] >= 1
  BY <1>2, <1>3, WriteCredits
<1>5. /\ \A v \in User \ {u} : chips'[v] = chips[v] /\ coin'[v] = coin[v]
      /\ coin'[u] = chips'[u] /\ chips'[u] \in Nat
  BY <1>3 DEF Sets
<1>6. ChecksFresh'
  <2>1. ASSUME NEW q \in Poll, NEW v \in User PROVE CheckFresh(check[q][v], v)'
    <3>1. CASE <<q, v>> \in own
      <4>1. q = p /\ v = u /\ check'[p][u].at = "record"
        BY <1>2, <3>1, WriteEffect
      <4> QED BY <4>1 DEF CheckFresh
    <3>2. CASE <<q, v>> \notin own
      <4>1. CheckFresh(check[q][v], v)
        BY <1>1 DEF ChecksFresh
      <4>2. \A o : o \in Credited' => o \in Credited \/ (SentTo(o, u) /\ o = t)
        BY <1>3, <1>4
      <4> QED BY <1>3, <1>5, <3>2, <4>1, <4>2, StaledChecksFresh
    <3> QED BY <3>1, <3>2
  <2> QED BY <2>1 DEF ChecksFresh
<1>7. CallsFresh'
  <2>1. ASSUME NEW d \in Call PROVE CallFresh(call[d])'
    <3>1. PICK none : none = {} /\ CallsStaled(u, at, none) /\ d \in Call \ none
      BY <1>3
    <3>2. CallFresh(call[d]) /\ "deduct" \in at
      BY <1>1, <1>2 DEF CallsFresh
    <3> QED BY <1>4, <1>5, <3>1, <3>2, StaledCallFresh
  <2> QED BY <2>1 DEF CallsFresh
<1>8. ASSUME NEW v \in User PROVE CoinsAndDues(v)'
  <2>1. UNCHANGED adjusted
    BY DEF Write
  <2>2. CASE v = u
    <3>1. ASSUME NEW d \in Call, call'[d].user = u, call'[d].at = "coin" PROVE call'[d].stale
      <4>1. PICK h \in BOOLEAN : h = (call[d].user = u /\ call[d].at \in at)
        OBVIOUS
      <4>2. StaledCall(call[d], call'[d], h)
        BY <1>3, <4>1 DEF CallsStaled
      <4> QED BY <1>2, <3>1, <4>1, <4>2 DEF StaledCall
    <3>2. Cardinality(Due(u))' = 0
      BY <3>1, NothingDue
    <3> QED BY <1>5, <2>2, <3>2 DEF CoinsAndDues
  <2>3. CASE v # u
    <3>1. Due(v)' = Due(v)
      <4>1. PICK none : none = {} /\ CallsStaled(u, at, none)
        BY <1>3
      <4> QED BY <2>3, <4>1, StaledDues
    <3> QED BY <1>1, <1>5, <2>1, <2>3, <3>1 DEF CoinsKept, CoinsAndDues
  <2> QED BY <2>2, <2>3
<1> QED BY <1>6, <1>7, <1>8 DEF CoinsKept

LEMMA CallWritesCredits ==
  ASSUME Typed, Typed', records' = records, NEW c \in Call, NEW u \in User, NEW at, NEW x,
         CallWrites(c, u, at, x)
  PROVE  Credited' = Credited
<1>1. PICK none : none = {} /\ ChecksStaled(u, Nothing, none)
  BY DEF CallWrites
<1> QED BY <1>1, ChecksStaledCredits

\* What a call writes keeps the others fresh: the calls that go on know that there is a chip.
LEMMA CallWritesFresh ==
  ASSUME Typed, Typed', records' = records, NEW c \in Call, NEW u \in User, NEW at, NEW x,
         CallWrites(c, u, at, x), ChecksFresh, CallsFresh, "deduct" \in at,
         {"request", "balance"} \subseteq at \/ chips'[u] >= 1,
         \A v \in User \ {u} : chips'[v] = chips[v],
         x.at \notin {"request", "balance", "deduct"}
  PROVE  ChecksFresh' /\ CallsFresh'
<1>1. ChecksFresh'
  <2>1. PICK none, t : none = {} /\ t = Nothing /\ ChecksStaled(u, t, none)
    BY DEF CallWrites
  <2>2. \A o : o \in Credited' => o \in Credited \/ (SentTo(o, u) /\ o = t)
    BY CallWritesCredits
  <2>3. ASSUME NEW q \in Poll, NEW v \in User PROVE CheckFresh(check[q][v], v)'
    <3>1. CheckFresh(check[q][v], v) /\ <<q, v>> \notin none
      BY <2>1 DEF ChecksFresh
    <3> QED BY <2>1, <2>2, <3>1, StaledChecksFresh
  <2> QED BY <2>3 DEF ChecksFresh
<1>2. ASSUME NEW d \in Call PROVE CallFresh(call[d])'
  <2>1. CASE d = c
    BY <2>1 DEF CallWrites, CallFresh
  <2>2. CASE d # c
    <3>1. PICK own : own = {c} /\ CallsStaled(u, at, own) /\ d \in Call \ own
      BY <2>2 DEF CallWrites
    <3>2. CallFresh(call[d])
      BY DEF CallsFresh
    <3> QED BY <3>1, <3>2, StaledCallFresh
  <2> QED BY <2>1, <2>2
<1> QED BY <1>1, <1>2 DEF CallsFresh

LEMMA DeductAccounts ==
  ASSUME Typed, Typed', Accounts, NEW c \in Call, Deduct(c), ~broken
  PROVE  Accounts' /\ Credited' = Credited
<1>1. PICK u, at : /\ u \in User /\ u = call[c].user /\ at = {"request", "balance", "deduct", "coin"}
                   /\ CallWrites(c, u, at, NoCall) /\ Sets(u, call[c].balance - 1)
  BY DeductTyped
<1>2. records' = records /\ adjusted' = adjusted
  BY DEF Deduct
<1>3. Credited' = Credited
  BY <1>1, <1>2, CallWritesCredits
<1> SUFFICES ASSUME ~broken' PROVE (ChecksFresh /\ CallsFresh /\ CoinsKept)'
  BY <1>3 DEF Accounts
<1>4. ChecksFresh /\ CallsFresh /\ CoinsKept
  BY DEF Accounts
<1>5. /\ \A v \in User \ {u} : chips'[v] = chips[v] /\ coin'[v] = coin[v]
      /\ coin'[u] = chips'[u] /\ chips'[u] \in Nat
  BY <1>1 DEF Sets
<1>6. ChecksFresh' /\ CallsFresh'
  <2>1. "deduct" \in at /\ {"request", "balance"} \subseteq at
    BY <1>1
  <2> QED BY <1>1, <1>2, <1>4, <1>5, <2>1, EmptyRows, CallWritesFresh
<1>7. PICK own : own = {c} /\ CallsStaled(u, at, own) /\ call'[c] = NoCall
  BY <1>1 DEF CallWrites
<1>8. ASSUME NEW v \in User PROVE CoinsAndDues(v)'
  <2>1. CASE v = u
    <3>1. ASSUME NEW d \in Call, call'[d].user = u, call'[d].at = "coin" PROVE call'[d].stale
      <4>1. d \in Call \ own
        BY <1>7, <3>1, EmptyRows
      <4>2. PICK h \in BOOLEAN : h = (call[d].user = u /\ call[d].at \in at)
        OBVIOUS
      <4>3. StaledCall(call[d], call'[d], h)
        BY <1>7, <4>1, <4>2 DEF CallsStaled
      <4> QED BY <1>1, <3>1, <4>2, <4>3 DEF StaledCall
    <3>2. Cardinality(Due(u))' = 0
      BY <3>1, NothingDue
    <3> QED BY <1>5, <2>1, <3>2 DEF CoinsAndDues
  <2>2. CASE v # u
    <3>1. \A d \in Call \ own : d \in Due(v)' <=> d \in Due(v)
      BY <1>1, <1>7, <2>2, StaledDues
    <3>2. c \notin Due(v)' /\ c \notin Due(v)
      BY <1>1, <1>7, <2>2, EmptyRows DEF Due
    <3>3. Due(v)' \subseteq Call /\ Due(v) \subseteq Call
      BY DEF Due
    <3>4. Due(v)' = Due(v)
      BY <1>7, <3>1, <3>2, <3>3
    <3> QED BY <1>2, <1>4, <1>5, <2>2, <3>4 DEF CoinsKept, CoinsAndDues
  <2> QED BY <2>1, <2>2
<1> QED BY <1>6, <1>8 DEF CoinsKept

LEMMA ConvertAccounts ==
  ASSUME Typed, Typed', Accounts, NEW c \in Call, Convert(c), ~broken
  PROVE  Accounts' /\ Credited' = Credited
<1>1. PICK u, at, x :
        /\ u \in User /\ u = call[c].user /\ at = {"convert", "deduct"} /\ CallWrites(c, u, at, x)
        /\ x.at = "coin" /\ x.user = u /\ ~x.stale
        /\ chips' = [chips EXCEPT ![u] = @ + 1]
  BY ConvertTyped
<1>2. records' = records /\ adjusted' = adjusted /\ coin' = coin /\ call[c].at = "convert"
  BY DEF Convert
<1>3. Credited' = Credited
  BY <1>1, <1>2, CallWritesCredits
<1> SUFFICES ASSUME ~broken' PROVE (ChecksFresh /\ CallsFresh /\ CoinsKept)'
  BY <1>3 DEF Accounts
<1>4. ChecksFresh /\ CallsFresh /\ CoinsKept
  BY DEF Accounts
<1>5. /\ \A v \in User \ {u} : chips'[v] = chips[v]
      /\ chips'[u] = chips[u] + 1 /\ chips[u] \in Nat /\ coin[u] \in Nat /\ chips'[u] >= 1
  BY <1>1 DEF Typed, Money
<1>6. ChecksFresh' /\ CallsFresh'
  <2>1. "deduct" \in at
    BY <1>1
  <2> QED BY <1>1, <1>2, <1>4, <1>5, <2>1, CallWritesFresh
<1>7. PICK own : own = {c} /\ CallsStaled(u, at, own) /\ call'[c] = x
  BY <1>1 DEF CallWrites
<1>8. ASSUME NEW v \in User PROVE CoinsAndDues(v)'
  <2>1. \A d \in Call \ own : d \in Due(v)' <=> d \in Due(v)
    <3>1. "coin" \notin at
      BY <1>1
    <3> QED BY <1>1, <1>7, <3>1, StaledDues
  <2>2. c \notin Due(v)
    BY <1>2 DEF Due
  <2>3. Due(v)' \subseteq Call /\ Due(v) \subseteq Call
    BY DEF Due
  <2>4. CASE v = u
    <3>1. c \in Due(u)'
      BY <1>1, <1>7 DEF Due
    <3>2. Due(u)' = Due(u) \cup {c}
      BY <1>7, <2>1, <2>3, <2>4, <3>1
    <3>3. PICK S : S = Due(u) /\ IsFiniteSet(S) /\ Cardinality(S) \in Nat /\ c \notin S
      BY <2>2, <2>4, Dues
    <3>4. Cardinality(S \cup {c}) = Cardinality(S) + 1
      BY <3>3, FS_AddElement
    <3>5. Cardinality(Due(u))' = Cardinality(Due(u)) + 1
      BY <3>2, <3>3, <3>4
    <3>6. Cardinality(Due(u)) \in Nat
      BY <3>3
    <3> QED BY <1>2, <1>4, <1>5, <2>4, <3>5, <3>6 DEF CoinsKept, CoinsAndDues
  <2>5. CASE v # u
    <3>1. c \notin Due(v)'
      BY <1>1, <1>7, <2>5 DEF Due
    <3>2. Due(v)' = Due(v)
      BY <1>7, <2>1, <2>2, <2>3, <3>1
    <3> QED BY <1>2, <1>4, <1>5, <2>5, <3>2 DEF CoinsKept, CoinsAndDues
  <2> QED BY <2>4, <2>5
<1> QED BY <1>6, <1>8 DEF CoinsKept

LEMMA IncrementAccounts ==
  ASSUME Typed, Typed', Accounts, NEW c \in Call, IncrementCoinBalance(c), ~broken
  PROVE  Accounts' /\ Credited' = Credited
<1>1. UNCHANGED <<records, check, chips, adjusted>> /\ call[c].at = "coin"
  BY DEF IncrementCoinBalance
<1>2. Credited' = Credited
  BY <1>1 DEF Credited, Crediting
<1> SUFFICES ASSUME ~broken' PROVE (ChecksFresh /\ CallsFresh /\ CoinsKept)'
  BY <1>2 DEF Accounts
<1>3. ChecksFresh /\ CallsFresh /\ CoinsKept
  BY DEF Accounts
<1>4. PICK u \in User : u = call[c].user /\ coin' = [coin EXCEPT ![u] = @ + 1] /\ ~call[c].stale
  BY IncrementTyped
<1>5. call'[c] = NoCall /\ \A d \in Call \ {c} : call'[d] = call[d]
  BY IncrementTyped DEF CallGoes
<1>6. ChecksFresh'
  BY <1>1, <1>2, <1>3 DEF ChecksFresh, CheckFresh
<1>7. CallsFresh'
  BY <1>1, <1>3, <1>5, EmptyRows DEF CallsFresh, CallFresh
<1>8. coin[u] \in Nat /\ coin'[u] = coin[u] + 1 /\ chips[u] \in Nat /\ \A v \in User \ {u} : coin'[v] = coin[v]
  BY <1>4 DEF Typed, Money
<1>9. ASSUME NEW v \in User PROVE CoinsAndDues(v)'
  <2>1. CASE v = u
    <3>1. c \in Due(u)
      BY <1>1, <1>4 DEF Due
    <3>2. Due(u)' = Due(u) \ {c}
      BY <1>5, EmptyRows DEF Due
    <3>3. PICK S : S = Due(u) /\ IsFiniteSet(S) /\ Cardinality(S) \in Nat /\ c \in S
      BY <3>1, Dues
    <3>4. Cardinality(S \ {c}) = Cardinality(S) - 1
      BY <3>3, FS_RemoveElement
    <3>5. Cardinality(Due(u))' = Cardinality(Due(u)) - 1
      BY <3>2, <3>3, <3>4
    <3>6. Cardinality(Due(u)) \in Nat
      BY <3>3
    <3> QED BY <1>1, <1>3, <1>8, <2>1, <3>5, <3>6 DEF CoinsKept, CoinsAndDues
  <2>2. CASE v # u
    <3>1. Due(v)' = Due(v)
      BY <1>4, <1>5, <2>2, EmptyRows DEF Due
    <3> QED BY <1>1, <1>3, <1>8, <2>2, <3>1 DEF CoinsKept, CoinsAndDues
  <2> QED BY <2>1, <2>2
<1> QED BY <1>6, <1>7, <1>9 DEF CoinsKept

LEMMA AdjustAccounts ==
  ASSUME Typed, Typed', Accounts, NEW u \in User, AdjustBalance(u), ~broken
  PROVE  Accounts' /\ Credited' = Credited
<1>1. UNCHANGED <<records, check, call, chips, broken>>
  BY DEF AdjustBalance, jobs
<1>2. Credited' = Credited
  BY <1>1 DEF Credited, Crediting
<1>3. ChecksFresh /\ CallsFresh /\ CoinsKept
  BY DEF Accounts
<1>4. ChecksFresh' /\ CallsFresh'
  BY <1>1, <1>2, <1>3 DEF ChecksFresh, CheckFresh, CallsFresh, CallFresh
<1>5. ASSUME NEW v \in User PROVE CoinsAndDues(v)'
  <2>1. CASE v = u
    <3>1. adjusted'[u] = adjusted[u] + 1 /\ adjusted[u] \in Nat
      BY DEF AdjustBalance, Typed, Money
    <3> QED BY <2>1, <3>1 DEF CoinsAndDues
  <2>2. CASE v # u
    <3>1. adjusted'[v] = adjusted[v] /\ coin'[v] = coin[v]
      BY <2>2 DEF AdjustBalance, Typed, Money
    <3>2. Due(v)' = Due(v)
      BY <1>1 DEF Due
    <3> QED BY <1>1, <1>3, <3>1, <3>2 DEF CoinsKept, CoinsAndDues
  <2> QED BY <2>1, <2>2
<1> QED BY <1>2, <1>4, <1>5 DEF Accounts, CoinsKept

\* The calls that write nothing a wallet shows
LEMMA QuietCallAccounts ==
  ASSUME Typed, Typed', Accounts, ~broken, NEW c \in Call, NEW u \in User,
         \/ GetOrCreateDepositAddress(c, u) \/ Faucet(c, u)
         \/ ExchangeChipsToBalance(c, u, 1) \/ ExchangeBalanceToChips(c, u, 1)
         \/ CreateDepositAddress(c) \/ Mint(c) \/ CoolDown(c) \/ CreateRequest(c) \/ ReadBalance(c)
  PROVE  Accounts' /\ Credited' = Credited
<1>1. UNCHANGED <<chips, coin, adjusted, broken, records, check>>
  BY DEF GetOrCreateDepositAddress, Faucet, ExchangeChipsToBalance, ExchangeBalanceToChips,
         CreateDepositAddress, Mint, CoolDown, CreateRequest, ReadBalance, wallet
<1>2. Credited' = Credited
  BY <1>1 DEF Credited, Crediting
<1>3. ASSUME NEW x, CallGoes(c, x), x.at # "coin", call[c].at # "coin", CallFresh(call[c]) => CallFresh(x)
      PROVE  Accounts'
  BY <1>1, <1>3, CallAccounts
<1>4. CASE GetOrCreateDepositAddress(c, u) \/ Faucet(c, u) \/ ExchangeBalanceToChips(c, u, 1)
  <2>1. \E at \in {"create", "mint", "convert"} : Begins(c, at, u)
    BY <1>4, CreatingTyped, FaucetTyped, ToChipsTyped
  <2>2. PICK x : CallGoes(c, x) /\ x.at \in {"create", "mint", "convert"}
    BY <2>1 DEF Begins
  <2>3. CallFresh(x) /\ call[c].at # "coin"
    BY <2>1, <2>2, EmptyRows DEF CallFresh, Begins
  <2> QED BY <1>2, <1>3, <2>2, <2>3
<1>5. CASE ExchangeChipsToBalance(c, u, 1)
  <2>1. Begins(c, "request", u)
    BY <1>5, ToBalanceTyped
  <2>2. PICK x : CallGoes(c, x) /\ x.at = "request" /\ x.user = u
    BY <2>1 DEF Begins
  <2>3. chips[u] >= 1
    BY <1>5 DEF ExchangeChipsToBalance, Typed, Money
  <2>4. CallFresh(x) /\ call[c].at # "coin"
    BY <2>1, <2>2, <2>3, EmptyRows DEF CallFresh, Begins
  <2> QED BY <1>2, <1>3, <2>2, <2>4
<1>6. CASE CreateDepositAddress(c) \/ CoolDown(c)
  <2>1. CallGoes(c, NoCall)
    BY <1>6, CreateAddressTyped, CoolDownTyped
  <2>2. CallFresh(NoCall) /\ NoCall.at # "coin" /\ call[c].at # "coin"
    BY <1>6, EmptyRows DEF CallFresh, CreateDepositAddress, CoolDown
  <2> QED BY <1>2, <1>3, <2>1, <2>2
<1>7. CASE Mint(c)
  <2>1. PICK x : CallGoes(c, x) /\ x.at = "cool"
    BY <1>7, MintTyped DEF Continued
  <2>2. CallFresh(x) /\ call[c].at # "coin"
    BY <1>7, <2>1 DEF CallFresh, Mint
  <2> QED BY <1>2, <1>3, <2>1, <2>2
<1>8. CASE CreateRequest(c)
  <2>1. PICK x : CallGoes(c, x) /\ x.at = "balance" /\ x.user = call[c].user /\ x.stale = call[c].stale
    BY <1>8, CreateRequestTyped DEF Continued
  <2>2. (CallFresh(call[c]) => CallFresh(x)) /\ call[c].at # "coin"
    BY <1>8, <2>1 DEF CallFresh, CreateRequest
  <2> QED BY <1>2, <1>3, <2>1, <2>2
<1>9. CASE ReadBalance(c)
  <2>1. PICK x : /\ CallGoes(c, x) /\ x.at = "deduct" /\ x.user = call[c].user
                 /\ x.balance = chips[call[c].user] /\ x.stale = call[c].stale
    BY <1>9, ReadBalanceTyped
  <2>2. (CallFresh(call[c]) => CallFresh(x)) /\ call[c].at # "coin"
    BY <1>9, <2>1 DEF CallFresh, ReadBalance
  <2> QED BY <1>2, <1>3, <2>1, <2>2
<1> QED BY <1>4, <1>5, <1>6, <1>7, <1>8, <1>9

LEMMA CrashAccounts ==
  ASSUME Typed, Typed', Accounts, ~broken, Crash, ~broken'
  PROVE  Accounts' /\ Credited' = Credited
<1>1. /\ ~ \E t \in Transfer : Crediting(t)
      /\ \A c \in Call : call[c].at \notin {"balance", "deduct", "coin"}
  BY DEF Crash
<1>2. UNCHANGED <<records, chips, coin, adjusted>>
  BY DEF Crash, wallet
<1>3. ASSUME NEW p \in Poll, NEW u \in User
      PROVE  check'[p][u] = NoCheck /\ check[p][u].at # "record"
  <2>1. check[p][u].at = "record" => check[p][u].tx \in Transfer
    BY RowsKnown DEF CheckRow, Looking, SentTo
  <2> QED BY <1>1, <2>1, CrashTyped DEF Crediting
<1>4. Credited' = Credited
  BY <1>2, <1>3, EmptyRows, CreditedStays
<1>5. ChecksFresh' /\ CallsFresh'
  BY <1>3, CrashTyped, EmptyRows DEF ChecksFresh, CheckFresh, CallsFresh, CallFresh
<1>6. ASSUME NEW u \in User PROVE CoinsAndDues(u)'
  <2>1. Due(u)' = {} /\ Due(u) = {}
    BY <1>1, CrashTyped, EmptyRows DEF Due
  <2>2. CoinsAndDues(u)
    BY DEF Accounts, CoinsKept
  <2> QED BY <1>2, <2>1, <2>2 DEF CoinsAndDues
<1> QED BY <1>4, <1>5, <1>6 DEF Accounts, CoinsKept

\* The chain does not touch the wallets.
LEMMA OutsideAccounts ==
  ASSUME Typed, Typed', Accounts,
         UNCHANGED <<records, check, call, chips, coin, adjusted, broken>>
  PROVE  Accounts' /\ Credited' = Credited
<1>1. Credited' = Credited
  BY DEF Credited, Crediting
<1> QED BY <1>1 DEF Accounts, ChecksFresh, CheckFresh, CallsFresh, CallFresh, CoinsKept, CoinsAndDues, Due

LEMMA NextAccounts == Typed /\ Typed' /\ Accounts /\ [Next]_vars => Accounts'
<1> SUFFICES ASSUME Typed, Typed', Accounts, [Next]_vars PROVE Accounts'
  OBVIOUS
<1>1. CASE UNCHANGED vars
  BY <1>1, OutsideAccounts DEF vars, wallet, jobs
<1> SUFFICES ASSUME Next, ~broken PROVE Accounts'
  BY <1>1 DEF Next
<1>2. ASSUME NEW t \in Transfer, NEW batch, NEW to \in [Transfer -> User], Arrive(t, batch, to)
      PROVE  Accounts'
  BY <1>2, OutsideAccounts DEF Arrive, wallet, jobs
<1>3. ASSUME NEW u \in User, CooledDown(u) PROVE Accounts'
  BY <1>3, OutsideAccounts DEF CooledDown, wallet, jobs
<1>4. ASSUME NEW u \in User, AdjustBalance(u) PROVE Accounts'
  BY <1>4, AdjustAccounts
<1>5. ASSUME NEW u \in User, NEW c \in Call,
             \/ GetOrCreateDepositAddress(c, u) \/ Faucet(c, u)
             \/ ExchangeChipsToBalance(c, u, 1) \/ ExchangeBalanceToChips(c, u, 1)
      PROVE  Accounts'
  BY <1>5, QuietCallAccounts
<1>6. ASSUME NEW p \in Poll, PollDeposits(p) \/ PollStep(p) PROVE Accounts'
  <2>1. CASE broken'
    BY <2>1 DEF Accounts
  <2>2. CASE ~broken'
    BY <1>6, <2>2, ScanStepAccounts, WriteAccounts DEF PollStep
  <2> QED BY <2>1, <2>2
<1>7. ASSUME NEW c \in Call, CallStep(c) PROVE Accounts'
  <2>1. call[c].at # "idle" => call[c].user \in User
    BY CallKnown DEF CallRow
  <2>2. CASE Deduct(c) \/ Convert(c) \/ IncrementCoinBalance(c)
    BY <2>2, DeductAccounts, ConvertAccounts, IncrementAccounts
  <2>3. CASE CreateDepositAddress(c) \/ Mint(c) \/ CoolDown(c) \/ CreateRequest(c) \/ ReadBalance(c)
    <3>1. call[c].user \in User
      BY <2>1, <2>3 DEF CreateDepositAddress, Mint, CoolDown, CreateRequest, ReadBalance
    <3> QED BY <2>3, <3>1, QuietCallAccounts
  <2> QED BY <1>7, <2>2, <2>3 DEF CallStep
<1>8. CASE NodeRestarts
  BY <1>8, OutsideAccounts DEF NodeRestarts, wallet, jobs
<1>9. CASE Crash
  <2>1. CASE broken'
    BY <2>1 DEF Accounts
  <2>2. CASE ~broken'
    BY <1>9, <2>2, CrashAccounts
  <2> QED BY <2>1, <2>2
<1> QED BY <1>2, <1>3, <1>4, <1>5, <1>6, <1>7, <1>8, <1>9 DEF Next

----------------------------------------------------------------------------
(* The invariant, and what it says                                         *)

IInv == Typed /\ Scanned /\ Accounts

LEMMA IInvInvariance == Spec => []IInv
<1>1. Init => IInv
  BY InitTyped, InitScanned, InitAccounts DEF IInv
<1>2. IInv /\ [Next]_vars => IInv'
  <2> SUFFICES ASSUME Typed, Scanned, Accounts, [Next]_vars PROVE IInv'
    BY DEF IInv
  <2>1. Typed'
    BY NextTyped
  <2>2. Scanned'
    BY <2>1, NextScanned
  <2>3. Accounts'
    BY <2>1, NextAccounts
  <2> QED BY <2>1, <2>2, <2>3 DEF IInv
<1> QED BY <1>1, <1>2, PTL DEF Spec

\* TypeOK: the polls, the checks and the calls hold what the code's variables can hold.
THEOREM TypeCorrect == Spec => []TypeOK
<1>1. IInv => TypeOK
  BY TypedOK DEF IInv
<1> QED BY <1>1, IInvInvariance, PTL

\* NothingSkipped: whatever polls overlap, fail or start again, the cursor passes over
\* no deposit but those a failed query or a reset has made it miss.
THEOREM NothingIsSkipped == Spec => []NothingSkipped
<1>1. IInv => NothingSkipped
  BY DEF IInv, Scanned
<1> QED BY <1>1, IInvInvariance, PTL

\* CoinShowsChips: User.coinBalance is the chips of a user whom the administrator has
\* not adjusted, unless an exchange of his is about to write it, or two writers have crossed.
THEOREM CoinsShowChips == Spec => []CoinShowsChips
<1>1. ASSUME IInv PROVE CoinShowsChips
  <2> SUFFICES ASSUME ~broken, NEW u \in User, adjusted[u] = 0, coin[u] # chips[u]
               PROVE  \E c \in Call : call[c].user = u /\ call[c].at = "coin"
    BY DEF CoinShowsChips
  <2>1. coin[u] + Cardinality(Due(u)) = chips[u] /\ coin[u] \in Nat
    BY <1>1 DEF IInv, Accounts, CoinsKept, CoinsAndDues, Typed, Money
  <2>2. Due(u) # {}
    BY <2>1, FS_EmptySet
  <2> QED BY <2>2 DEF Due
<1> QED BY <1>1, IInvInvariance, PTL

----------------------------------------------------------------------------
(* The refinement: what a user owns                                        *)

Owing == {"balance", "deduct"}

\* No call of u but own comes to the deduction, or leaves it.
OwesAs(u, own) ==
  \A c \in Call \ own :
    (call'[c].user = u /\ call'[c].at \in Owing) <=> (call[c].user = u /\ call[c].at \in Owing)

LEMMA OwedOf == \A u : Owed(u) = {c \in Call : call[c].user = u /\ call[c].at \in Owing}
BY DEF Owed, Owing

LEMMA OwedFinite ==
  ASSUME NEW u
  PROVE  IsFiniteSet(Owed(u)) /\ Cardinality(Owed(u)) \in Nat
<1>1. Owed(u) \in SUBSET Call
  BY DEF Owed
<1> QED BY <1>1, UserAssumption, FS_Subset, FS_CardinalityType

LEMMA OwedStay ==
  ASSUME NEW u, NEW own, own = {}, OwesAs(u, own)
  PROVE  Owed(u)' = Owed(u)
BY DEF OwesAs, Owed, Owing

\* A call comes to the deduction.
LEMMA OneMoreOwed ==
  ASSUME NEW u, NEW c \in Call, NEW own, own = {c}, OwesAs(u, own),
         c \notin Owed(u), call'[c].user = u, call'[c].at \in Owing
  PROVE  Cardinality(Owed(u))' = Cardinality(Owed(u)) + 1
<1>1. Owed(u)' = Owed(u) \cup {c}
  BY DEF OwesAs, Owed, Owing
<1>2. PICK S : S = Owed(u) /\ IsFiniteSet(S) /\ c \notin S
  BY OwedFinite
<1>3. Cardinality(S \cup {c}) = Cardinality(S) + 1
  BY <1>2, FS_AddElement
<1> QED BY <1>1, <1>2, <1>3

\* A call leaves the deduction.
LEMMA OneLessOwed ==
  ASSUME NEW u, NEW c \in Call, NEW own, own = {c}, OwesAs(u, own),
         c \in Owed(u), call'[c].at \notin Owing
  PROVE  Cardinality(Owed(u))' = Cardinality(Owed(u)) - 1
<1>1. Owed(u)' = Owed(u) \ {c}
  BY DEF OwesAs, Owed, Owing
<1>2. PICK S : S = Owed(u) /\ IsFiniteSet(S) /\ c \in S
  BY OwedFinite
<1>3. Cardinality(S \ {c}) = Cardinality(S) - 1
  BY <1>2, FS_RemoveElement
<1> QED BY <1>1, <1>2, <1>3

\* A write of somebody's wallet brings no other call to the deduction, or from it.
LEMMA StaledOwes ==
  ASSUME NEW u, NEW at, NEW own, CallsStaled(u, at, own), NEW v
  PROVE  OwesAs(v, own)
BY DEF CallsStaled, StaledCall, OwesAs

LEMMA AssetsTyped ==
  ASSUME Typed, NEW u \in User
  PROVE  Assets(u) \in Int
BY OwedFinite DEF Assets, Typed, Money

LEMMA AssetsStay ==
  ASSUME NEW u, chips'[u] = chips[u], usdt'[u] = usdt[u], requested'[u] = requested[u],
         NEW own, own = {}, OwesAs(u, own)
  PROVE  Assets(u)' = Assets(u)
BY OwedStay DEF Assets

\* The call of somebody else changes nothing that u owns.
LEMMA OthersAssets ==
  ASSUME NEW u, chips'[u] = chips[u], usdt'[u] = usdt[u], requested'[u] = requested[u],
         NEW c \in Call, NEW own, own = {c}, OwesAs(u, own), call[c].user # u,
         call'[c].user # u
  PROVE  Assets(u)' = Assets(u)
<1>1. PICK none : none = {} /\ OwesAs(u, none)
  BY DEF OwesAs
<1> QED BY <1>1, AssetsStay

----------------------------------------------------------------------------
(* The refinement: the steps of the promise                                *)

LEMMA Keeps ==
  ASSUME ~broken, broken' = broken, adjusted' = adjusted, Credited' = Credited,
         \A u \in User : Assets(u)' = Assets(u)
  PROVE  UNCHANGED Promise!vars
BY DEF Promise!vars

LEMMA Voids ==
  ASSUME Typed', broken'
  PROVE  Promise!Void
<1>1. broken' = TRUE
  BY DEF Typed, Money
<1> QED BY <1>1 DEF Promise!Void

LEMMA Credits ==
  ASSUME ~broken, broken' = broken, adjusted' = adjusted, NEW u \in User, NEW t \in Transfer,
         t \notin Credited, Credited' = Credited \cup {t},
         Assets(u)' = Assets(u) + 1, \A v \in User \ {u} : Assets(v)' = Assets(v)
  PROVE  Promise!Credit(u, t)
BY DEF Promise!Credit

LEMMA Gives ==
  ASSUME ~broken, broken' = broken, NEW u \in User,
         adjusted' = [adjusted EXCEPT ![u] = @ + 1], Credited' = Credited,
         Assets(u)' = Assets(u) + 1, \A v \in User \ {u} : Assets(v)' = Assets(v)
  PROVE  Promise!Adjust(u)
BY DEF Promise!Adjust

\* A step that is not void: broken is FALSE before and after.
LEMMA Unbroken == Typed /\ Typed' /\ ~broken /\ ~broken' => broken' = broken
BY DEF Typed, Money

\* The steps that leave the wallets alone, and bring no call to the deduction
LEMMA QuietKeeps ==
  ASSUME Typed, Typed', ~broken, ~broken', adjusted' = adjusted, Credited' = Credited,
         UNCHANGED <<chips, usdt, requested>>,
         NEW own, own = {}, \A u \in User : OwesAs(u, own)
  PROVE  UNCHANGED Promise!vars
<1>1. \A u \in User : Assets(u)' = Assets(u)
  BY AssetsStay
<1> QED BY <1>1, Unbroken, Keeps

\* A call goes on, neither to the deduction nor from it.
LEMMA GoesOwes ==
  ASSUME NEW c \in Call, NEW x, CallGoes(c, x), NEW u,
         call[c].user = u /\ call[c].at \in Owing <=> x.user = u /\ x.at \in Owing
  PROVE  OwesAs(u, {})
BY DEF CallGoes, OwesAs

\* Write: the deposit is credited, once, and it is a chip more.
LEMMA WriteKeeps ==
  ASSUME Typed, Typed', Accounts, NEW p \in Poll, NEW u \in User, Write(p, u), ~broken, ~broken'
  PROVE  \E t \in Transfer : Promise!Credit(u, t)
<1>1. PICK x : x = check[p][u] /\ x.at = "write" /\ ~x.stale
  BY DEF Write
<1>2. x.balance = chips[u] /\ x.tx \notin Credited
  BY <1>1 DEF Accounts, ChecksFresh, CheckFresh
<1>3. PICK t \in Transfer : t = x.tx
  BY <1>1, WriteEffect DEF CheckRow, Looking, SentTo
<1>4. Credited' = Credited \cup {t}
  BY <1>1, <1>3, WriteCredits
<1>5. UNCHANGED <<usdt, requested, adjusted>>
  BY DEF Write
<1>6. chips'[u] = chips[u] + 1 /\ \A v \in User \ {u} : chips'[v] = chips[v]
  <2>1. Sets(u, x.balance + 1) /\ chips'[u] = x.balance + 1
    BY <1>1, WriteEffect
  <2> QED BY <1>2, <2>1 DEF Sets
<1>7. PICK own, at : own = {} /\ CallsStaled(u, at, own)
  BY WriteEffect
<1>8. \A v \in User : OwesAs(v, own)
  BY <1>7, StaledOwes
<1>9. \A v \in User \ {u} : Assets(v)' = Assets(v)
  BY <1>5, <1>6, <1>7, <1>8, AssetsStay
<1>10. Assets(u)' = Assets(u) + 1
  <2>1. Owed(u)' = Owed(u)
    BY <1>7, <1>8, OwedStay
  <2>2. Cardinality(Owed(u)) \in Nat
    BY OwedFinite
  <2> QED BY <1>5, <1>6, <2>1, <2>2 DEF Assets, Typed, Money
<1> QED BY <1>2, <1>3, <1>4, <1>5, <1>9, <1>10, Unbroken, Credits

\* Deduct: the chip goes, and is owed no more.
LEMMA DeductKeeps ==
  ASSUME Typed, Typed', Accounts, NEW c \in Call, Deduct(c), ~broken, ~broken'
  PROVE  UNCHANGED Promise!vars
<1>1. PICK u, at, own : /\ u \in User /\ u = call[c].user /\ own = {c}
                        /\ CallWrites(c, u, at, NoCall) /\ Sets(u, call[c].balance - 1)
  BY DeductTyped
<1>2. call[c].at = "deduct" /\ ~call[c].stale /\ UNCHANGED <<usdt, requested, adjusted, records>>
  BY DEF Deduct
<1>3. call[c].balance = chips[u] /\ chips[u] >= 1 /\ chips[u] \in Nat
  BY <1>1, <1>2 DEF Accounts, CallsFresh, CallFresh, Typed, Money
<1>4. chips'[u] = chips[u] - 1 /\ \A v \in User \ {u} : chips'[v] = chips[v]
  <2>1. AtLeastZero(chips[u] - 1) = chips[u] - 1
    BY <1>3, LeastZero
  <2> QED BY <1>1, <1>3, <2>1 DEF Sets
<1>5. \A v \in User : OwesAs(v, own)
  BY <1>1, StaledOwes DEF CallWrites
<1>6. call'[c] = NoCall /\ NoCall.at \notin Owing /\ NoCall.user \notin User
  BY <1>1, NothingFacts DEF CallWrites, NoCall, Owing
<1>7. ASSUME NEW v \in User PROVE Assets(v)' = Assets(v)
  <2>1. CASE v = u
    <3>1. Cardinality(Owed(u))' = Cardinality(Owed(u)) - 1
      BY <1>1, <1>2, <1>5, <1>6, OneLessOwed DEF Owed
    <3>2. Cardinality(Owed(u)) \in Nat
      BY OwedFinite
    <3> QED BY <1>1, <1>2, <1>3, <1>4, <2>1, <3>1, <3>2 DEF Assets, Typed, Money
  <2>2. CASE v # u
    <3>1. chips'[v] = chips[v] /\ usdt'[v] = usdt[v] /\ requested'[v] = requested[v]
      BY <1>2, <1>4, <2>2
    <3> QED BY <1>1, <1>5, <1>6, <2>2, <3>1, OthersAssets
  <2> QED BY <2>1, <2>2
<1>8. Credited' = Credited
  BY DeductAccounts
<1> QED BY <1>2, <1>7, <1>8, Unbroken, Keeps

\* Convert: a chip more, an USDT less
LEMMA ConvertKeeps ==
  ASSUME Typed, Typed', Accounts, NEW c \in Call, Convert(c), ~broken, ~broken'
  PROVE  UNCHANGED Promise!vars
<1>1. PICK u, at, x :
        /\ u \in User /\ u = call[c].user
        /\ chips' = [chips EXCEPT ![u] = @ + 1] /\ usdt' = [usdt EXCEPT ![u] = @ - 1]
        /\ CallWrites(c, u, at, x) /\ x.at = "coin"
  <2>1. PICK u \in User : u = call[c].user
    BY ConvertTyped
  <2> QED BY <2>1, ConvertTyped
<1>2. call[c].at = "convert" /\ UNCHANGED <<requested, adjusted>>
  BY DEF Convert
<1>3. call'[c] = x /\ x.at \notin Owing /\ call[c].at \notin Owing
  BY <1>1, <1>2 DEF CallWrites, Owing
<1>4. PICK none : none = {} /\ \A v \in User : OwesAs(v, none)
  <2>1. PICK own, none : own = {c} /\ none = {}
    OBVIOUS
  <2>2. ASSUME NEW v \in User PROVE OwesAs(v, none)
    <3>1. OwesAs(v, own)
      BY <1>1, <2>1, StaledOwes DEF CallWrites
    <3>2. ASSUME NEW d \in Call
          PROVE  (call'[d].user = v /\ call'[d].at \in Owing)
                   <=> (call[d].user = v /\ call[d].at \in Owing)
      <4>1. CASE d = c
        BY <1>3, <4>1
      <4>2. CASE d # c
        BY <2>1, <3>1, <4>2 DEF OwesAs
      <4> QED BY <4>1, <4>2
    <3> QED BY <3>2 DEF OwesAs
  <2> QED BY <2>1, <2>2
<1>5. ASSUME NEW v \in User PROVE Assets(v)' = Assets(v)
  <2>1. CASE v = u
    <3>1. Owed(u)' = Owed(u)
      BY <1>1, <1>4, OwedStay
    <3>2. Cardinality(Owed(u)) \in Nat
      BY OwedFinite
    <3>3. chips'[u] = chips[u] + 1 /\ usdt'[u] = usdt[u] - 1
      BY <1>1 DEF Typed, Money
    <3> QED BY <1>1, <1>2, <2>1, <3>1, <3>2, <3>3 DEF Assets, Typed, Money
  <2>2. CASE v # u
    <3>1. chips'[v] = chips[v] /\ usdt'[v] = usdt[v] /\ requested'[v] = requested[v]
      BY <1>1, <1>2, <2>2 DEF Typed, Money
    <3> QED BY <1>4, <3>1, AssetsStay
  <2> QED BY <2>1, <2>2
<1>6. Credited' = Credited
  BY ConvertAccounts
<1> QED BY <1>2, <1>5, <1>6, Unbroken, Keeps

\* CreateRequest: the chip is requested, and owed.
LEMMA RequestKeeps ==
  ASSUME Typed, Typed', Accounts, NEW c \in Call, CreateRequest(c), ~broken, ~broken'
  PROVE  UNCHANGED Promise!vars
<1>1. PICK u, x, own :
        /\ u \in User /\ u = call[c].user /\ own = {c}
        /\ requested' = [requested EXCEPT ![u] = @ + 1]
        /\ CallGoes(c, x) /\ x.at = "balance" /\ x.user = u
  BY CreateRequestTyped DEF Continued
<1>2. call[c].at = "request" /\ UNCHANGED <<chips, usdt, adjusted, records, check>>
  BY DEF CreateRequest
<1>3. call'[c] = x /\ \A v \in User : OwesAs(v, own)
  BY <1>1 DEF CallGoes, OwesAs
<1>4. ASSUME NEW v \in User PROVE Assets(v)' = Assets(v)
  <2>1. CASE v = u
    <3>1. c \notin Owed(u) /\ call'[c].at \in Owing
      BY <1>1, <1>2, <1>3 DEF Owed, Owing
    <3>2. Cardinality(Owed(u))' = Cardinality(Owed(u)) + 1
      BY <1>1, <1>3, <3>1, OneMoreOwed
    <3>3. Cardinality(Owed(u)) \in Nat
      BY OwedFinite
    <3>4. requested'[u] = requested[u] + 1
      BY <1>1 DEF Typed, Money
    <3> QED BY <1>2, <2>1, <3>2, <3>3, <3>4 DEF Assets, Typed, Money
  <2>2. CASE v # u
    <3>1. chips'[v] = chips[v] /\ usdt'[v] = usdt[v] /\ requested'[v] = requested[v]
      BY <1>1, <1>2, <2>2 DEF Typed, Money
    <3> QED BY <1>1, <1>3, <2>2, <3>1, OthersAssets
  <2> QED BY <2>1, <2>2
<1>5. Credited' = Credited
  BY <1>2 DEF Credited, Crediting
<1> QED BY <1>2, <1>4, <1>5, Unbroken, Keeps

\* A call goes on, and the wallets stay.
LEMMA CallGoesKeeps ==
  ASSUME Typed, Typed', ~broken, ~broken', adjusted' = adjusted, Credited' = Credited,
         UNCHANGED <<chips, usdt, requested>>, NEW c \in Call, NEW x, CallGoes(c, x),
         x.at \in Owing <=> call[c].at \in Owing, x.at \in Owing => x.user = call[c].user
  PROVE  UNCHANGED Promise!vars
<1>1. PICK none : none = {}
  OBVIOUS
<1>2. \A v \in User : OwesAs(v, none)
  BY DEF CallGoes, OwesAs
<1> QED BY <1>1, <1>2, QuietKeeps

\* The calls that write nothing a user owns
LEMMA QuietCallKeeps ==
  ASSUME Typed, Typed', Accounts, ~broken, ~broken', NEW c \in Call, NEW u \in User,
         \/ GetOrCreateDepositAddress(c, u) \/ Faucet(c, u)
         \/ ExchangeChipsToBalance(c, u, 1) \/ ExchangeBalanceToChips(c, u, 1)
         \/ CreateDepositAddress(c) \/ Mint(c) \/ CoolDown(c) \/ ReadBalance(c)
         \/ IncrementCoinBalance(c)
  PROVE  UNCHANGED Promise!vars
<1>1. UNCHANGED <<chips, usdt, requested, adjusted, records, check>>
  BY DEF GetOrCreateDepositAddress, Faucet, ExchangeChipsToBalance, ExchangeBalanceToChips,
         CreateDepositAddress, Mint, CoolDown, ReadBalance, IncrementCoinBalance, wallet
<1>2. Credited' = Credited
  BY <1>1 DEF Credited, Crediting
<1>3. ASSUME NEW x, CallGoes(c, x), x.at \in Owing <=> call[c].at \in Owing,
             x.at \in Owing => x.user = call[c].user
      PROVE  UNCHANGED Promise!vars
  BY <1>1, <1>2, <1>3, CallGoesKeeps
<1>4. CASE \/ GetOrCreateDepositAddress(c, u) \/ Faucet(c, u)
           \/ ExchangeChipsToBalance(c, u, 1) \/ ExchangeBalanceToChips(c, u, 1)
  <2>1. \E at \in {"create", "mint", "request", "convert"} : Begins(c, at, u)
    BY <1>4, CreatingTyped, FaucetTyped, ToBalanceTyped, ToChipsTyped
  <2>2. PICK x : CallGoes(c, x) /\ x.at \notin Owing
    BY <2>1 DEF Begins, Owing
  <2>3. call[c].at \notin Owing
    BY <2>1, EmptyRows DEF Begins, Owing
  <2> QED BY <1>3, <2>2, <2>3
<1>5. CASE CreateDepositAddress(c) \/ CoolDown(c) \/ IncrementCoinBalance(c)
  <2>1. CallGoes(c, NoCall)
    BY <1>5, CreateAddressTyped, CoolDownTyped, IncrementTyped
  <2>2. NoCall.at \notin Owing /\ call[c].at \notin Owing
    BY <1>5, EmptyRows DEF CreateDepositAddress, CoolDown, IncrementCoinBalance, Owing
  <2> QED BY <1>3, <2>1, <2>2
<1>6. CASE Mint(c)
  <2>1. PICK x : CallGoes(c, x) /\ x.at = "cool"
    BY <1>6, MintTyped DEF Continued
  <2>2. x.at \notin Owing /\ call[c].at \notin Owing
    BY <1>6, <2>1 DEF Mint, Owing
  <2> QED BY <1>3, <2>1, <2>2
<1>7. CASE ReadBalance(c)
  <2>1. PICK x : CallGoes(c, x) /\ x.at = "deduct" /\ x.user = call[c].user
    BY <1>7, ReadBalanceTyped
  <2>2. x.at \in Owing /\ call[c].at \in Owing
    BY <1>7, <2>1 DEF ReadBalance, Owing
  <2> QED BY <1>3, <2>1, <2>2
<1> QED BY <1>4, <1>5, <1>6, <1>7

\* adjustBalance gives the user what it says.
LEMMA AdjustKeeps ==
  ASSUME Typed, Typed', Accounts, NEW u \in User, AdjustBalance(u), ~broken
  PROVE  Promise!Adjust(u)
<1>1. /\ UNCHANGED <<chips, requested, call, broken>>
      /\ usdt' = [usdt EXCEPT ![u] = @ + 1] /\ adjusted' = [adjusted EXCEPT ![u] = @ + 1]
  BY DEF AdjustBalance, jobs
<1>2. PICK none : none = {} /\ \A v \in User : OwesAs(v, none)
  BY <1>1 DEF OwesAs
<1>3. usdt'[u] = usdt[u] + 1 /\ \A v \in User \ {u} : usdt'[v] = usdt[v]
  BY <1>1 DEF Typed, Money
<1>4. \A v \in User \ {u} : Assets(v)' = Assets(v)
  BY <1>1, <1>2, <1>3, AssetsStay
<1>5. Assets(u)' = Assets(u) + 1
  <2>1. Owed(u)' = Owed(u)
    BY <1>2, OwedStay
  <2>2. Cardinality(Owed(u)) \in Nat
    BY OwedFinite
  <2> QED BY <1>1, <1>3, <2>1, <2>2 DEF Assets, Typed, Money
<1>6. Credited' = Credited
  BY AdjustAccounts
<1> QED BY <1>1, <1>4, <1>5, <1>6, Gives

\* What happens outside, and the scan but for Write
LEMMA OutsideKeeps ==
  ASSUME Typed, Typed', ~broken, ~broken', Credited' = Credited,
         UNCHANGED <<wallet, call, adjusted>>
  PROVE  UNCHANGED Promise!vars
<1>1. PICK none : none = {} /\ \A v \in User : OwesAs(v, none)
  BY DEF OwesAs
<1>2. UNCHANGED <<chips, usdt, requested>>
  BY DEF wallet
<1> QED BY <1>1, <1>2, QuietKeeps

\* A restart that crosses nobody: no call was about to deduct.
LEMMA CrashKeeps ==
  ASSUME Typed, Typed', Accounts, Crash, ~broken, ~broken'
  PROVE  UNCHANGED Promise!vars
<1>1. \A c \in Call : call[c].at \notin Owing /\ call'[c].at \notin Owing
  BY CrashTyped, EmptyRows DEF Crash, Owing
<1>2. PICK none : none = {} /\ \A v \in User : OwesAs(v, none)
  BY <1>1 DEF OwesAs
<1>3. UNCHANGED <<chips, usdt, requested, adjusted>>
  BY DEF Crash, wallet
<1> QED BY <1>2, <1>3, CrashAccounts, QuietKeeps

LEMMA NextKeeps ==
  ASSUME Typed, Typed', Accounts, [Next]_vars
  PROVE  [Promise!Next]_(Promise!vars)
<1>1. CASE UNCHANGED vars
  <2>1. UNCHANGED <<wallet, call, adjusted, broken, records, check>>
    BY <1>1 DEF vars, jobs
  <2>2. Credited' = Credited /\ \A u \in User : Assets(u)' = Assets(u)
    BY <2>1 DEF Credited, Crediting, Assets, Owed, wallet
  <2> QED BY <2>1, <2>2 DEF Promise!vars
<1> SUFFICES ASSUME Next, ~broken PROVE [Promise!Next]_(Promise!vars)
  BY <1>1 DEF Next
<1>2. CASE broken'
  BY <1>2, Voids DEF Promise!Next
<1> SUFFICES ASSUME ~broken' PROVE [Promise!Next]_(Promise!vars)
  BY <1>2
<1>3. ASSUME UNCHANGED <<wallet, call, check, adjusted, records>> PROVE UNCHANGED Promise!vars
  <2>1. Credited' = Credited
    BY <1>3 DEF Credited, Crediting
  <2> QED BY <1>3, <2>1, OutsideKeeps
<1>4. ASSUME NEW u \in User, CooledDown(u) PROVE UNCHANGED Promise!vars
  BY <1>3, <1>4 DEF CooledDown, jobs
<1>11. ASSUME NEW t \in Transfer, NEW batch, NEW to \in [Transfer -> User], Arrive(t, batch, to)
      PROVE  UNCHANGED Promise!vars
  BY <1>3, <1>11 DEF Arrive, jobs
<1>5. CASE NodeRestarts
  BY <1>3, <1>5 DEF NodeRestarts, jobs
<1>6. ASSUME NEW u \in User, AdjustBalance(u) PROVE Promise!Adjust(u)
  BY <1>6, AdjustKeeps
<1>7. ASSUME NEW u \in User, NEW c \in Call,
             \/ GetOrCreateDepositAddress(c, u) \/ Faucet(c, u)
             \/ ExchangeChipsToBalance(c, u, 1) \/ ExchangeBalanceToChips(c, u, 1)
      PROVE  UNCHANGED Promise!vars
  BY <1>7, QuietCallKeeps
<1>8. ASSUME NEW p \in Poll, PollDeposits(p) \/ PollStep(p)
      PROVE  \/ UNCHANGED Promise!vars
             \/ \E u \in User, t \in Transfer : Promise!Credit(u, t)
  <2>1. ASSUME NEW u \in User, Write(p, u) PROVE \E t \in Transfer : Promise!Credit(u, t)
    BY <2>1, WriteKeeps
  <2>2. CASE \/ PollDeposits(p) \/ ResetCursor(p) \/ FindAddresses(p) \/ Settle(p)
             \/ \E u \in User :
                  Query(p, u) \/ Check(p, u) \/ Read(p, u) \/ Record(p, u) \/ DatabaseFails(p, u)
    <3>1. UNCHANGED <<wallet, call, adjusted>> /\ Credited' = Credited
      BY <2>2, ScanStepAccounts
    <3> QED BY <3>1, OutsideKeeps
  <2> QED BY <1>8, <2>1, <2>2 DEF PollStep
<1>9. ASSUME NEW c \in Call, CallStep(c) PROVE UNCHANGED Promise!vars
  <2>1. call[c].at # "idle" => call[c].user \in User
    BY CallKnown DEF CallRow
  <2>2. CASE Deduct(c) \/ Convert(c) \/ CreateRequest(c)
    BY <2>2, DeductKeeps, ConvertKeeps, RequestKeeps
  <2>3. CASE \/ CreateDepositAddress(c) \/ Mint(c) \/ CoolDown(c) \/ ReadBalance(c)
             \/ IncrementCoinBalance(c)
    <3>1. call[c].user \in User
      BY <2>1, <2>3 DEF CreateDepositAddress, Mint, CoolDown, ReadBalance, IncrementCoinBalance
    <3> QED BY <2>3, <3>1, QuietCallKeeps
  <2> QED BY <1>9, <2>2, <2>3 DEF CallStep
<1>10. CASE Crash
  BY <1>10, CrashKeeps
<1> QED BY <1>4, <1>5, <1>6, <1>7, <1>8, <1>9, <1>10, <1>11 DEF Next, Promise!Next

LEMMA InitKeeps == Init => Promise!Init
<1> SUFFICES ASSUME Init PROVE Promise!Init
  OBVIOUS
<1>1. ASSUME NEW u \in User PROVE Assets(u) \in Nat
  <2>1. Owed(u) = {}
    BY EmptyRows DEF Init, Owed
  <2>2. Cardinality(Owed(u)) = 0
    BY <2>1, FS_EmptySet
  <2>3. chips[u] \in Nat /\ usdt[u] \in Nat /\ requested[u] = 0
    BY BoundAssumption DEF Init
  <2> QED BY <2>2, <2>3 DEF Assets
<1>2. Credited = {}
  BY EmptyRows DEF Init, Credited, Crediting
<1>3. ~broken /\ broken = FALSE /\ adjusted = [u \in User |-> 0]
  BY DEF Init
<1> QED BY <1>1, <1>2, <1>3 DEF Promise!Init

\* PromiseKept: the scan of the chain, the exchanges and the administrator implement
\* BankPromise: a deposit counts once, and nothing else but the administrator changes
\* what a user owns, until two writers, or a restart, cross.
THEOREM BankKeepsPromise == Spec => PromiseKept
<1>1. IInv /\ IInv' /\ [Next]_vars => [Promise!Next]_(Promise!vars)
  BY NextKeeps DEF IInv
<1> QED BY <1>1, InitKeeps, IInvInvariance, PTL DEF PromiseKept, Promise!Spec, Spec
=============================================================================
