----------------------------- MODULE SeatLedger -----------------------------
(***************************************************************************)
(* Who sits where, with whose chips: join_room and leave_room of           *)
(* apps/backend/src/websocket/app.gateway.ts, the tables in memory and     *)
(* their snapshots in Redis and SQLite (table-manager.service.ts), and the *)
(* chips and frozenChips of the wallet (wallet.service.ts).                *)
(*                                                                         *)
(* A call is a job that runs from one await to the next; each action is    *)
(* what one awaited operation does, and the code up to the next await.     *)
(* What the table plays for is one chip that changes hands: PokerTable has *)
(* the hand itself.                                                        *)
(***************************************************************************)
EXTENDS Naturals, FiniteSets

CONSTANTS
  User, Room,
  Job, NoJob,  \* bound: the calls that can be in progress at once
  NoUser, NoSeat, NoSeats, Nowhere,
  Capacity,    \* room.maxPlayers
  MinBuyIn,    \* room.minBuyIn
  Bankroll,    \* the chips of each user at first; bound: nobody buys more
  MaxTrades,   \* bound: chips bought and spent
  MaxMisses,   \* bound: writes that Redis misses
  MaxCrashes   \* bound: restarts

ASSUME JobAssumption   == NoJob \notin Job /\ NoUser \notin User /\ Nowhere \notin Room
ASSUME StakesAssumption == Capacity \in Nat \ {0} /\ MinBuyIn \in Nat \ {0} /\ Bankroll \in Nat
ASSUME BoundAssumption == MaxTrades \in Nat /\ MaxMisses \in Nat /\ MaxCrashes \in Nat
ASSUME SeatAssumption  == NoSeat \notin Nat /\ NoSeats \notin [User -> Nat \cup {NoSeat}]

VARIABLES
  chips, frozen,  \* the wallet of each user
  tables,         \* the map of tables in memory
  redis, sqlite,  \* the snapshot of each table
  open,           \* the rooms of the database
  job,            \* the calls in progress
  lock,           \* who holds each room lock
  behind,         \* history: where an old snapshot may have replaced a new one
  mishap,         \* history: what has gone wrong
  trades, misses, crashes

store   == <<redis, sqlite, open>>
wallet  == <<chips, frozen>>
counts  == <<trades, misses, crashes>>
vars    == <<wallet, tables, store, job, lock, behind, mishap, counts>>

Seats == [User -> Nat \cup {NoSeat}]   \* the stack of everybody at a table
Empty == [u \in User |-> NoSeat]
Store == {"redis", "sqlite"}

\* at: what a job waits for.  amount: the available balance, or the stack of who
\* leaves.  seated: isAlreadySeated.  pays: persistTableBalances follows.
\* stale: another call has changed what this one has read and will write.
\* orphan: its Table is not in the map any more.
At == {"idle", "balance", "sit", "freeze", "redis", "sqlite", "wallet",
       "remove", "credit", "unfreeze", "delRedis", "delSqlite", "delRoom"}
Jobs == [at : At, user : User \cup {NoUser}, room : Room \cup {Nowhere}, amount : Nat,
         seated : BOOLEAN, pays : BOOLEAN, stale : BOOLEAN, orphan : BOOLEAN,
         snap : Seats]
Idle == [at |-> "idle", user |-> NoUser, room |-> Nowhere, amount |-> 0, seated |-> FALSE,
         pays |-> FALSE, stale |-> FALSE, orphan |-> FALSE, snap |-> Empty]

TypeOK ==
  /\ chips \in [User -> Nat] /\ frozen \in [User -> Nat]
  /\ tables \in [Room -> Seats \cup {NoSeats}]
  /\ redis \in [Room -> Seats \cup {NoSeats}] /\ sqlite \in [Room -> Seats \cup {NoSeats}]
  /\ open \subseteq Room
  /\ job \in [Job -> Jobs]
  /\ lock \in [Room -> Job \cup {NoJob}]
  /\ behind \in [Room -> SUBSET Store]
  /\ mishap \in {"none", "overlap", "deposit", "redis", "crash"}
  /\ trades \in 0..MaxTrades /\ misses \in 0..MaxMisses /\ crashes \in 0..MaxCrashes

\* Bound: a history has all the rooms, or one room and trades, or one room and faults.
Init ==
  /\ chips = [u \in User |-> Bankroll] /\ frozen = [u \in User |-> 0]
  /\ tables = [r \in Room |-> NoSeats]
  /\ redis = tables /\ sqlite = tables
  /\ \/ open = Room /\ trades = MaxTrades /\ misses = MaxMisses /\ crashes = MaxCrashes
     \/ /\ open \in {{r} : r \in Room}
        /\ \/ trades = 0 /\ misses = MaxMisses /\ crashes = MaxCrashes
           \/ trades = MaxTrades /\ misses = 0 /\ crashes = 0
  /\ job = [j \in Job |-> Idle]
  /\ lock = [r \in Room |-> NoJob]
  /\ behind = [r \in Room |-> {}]
  /\ mishap = "none"

----------------------------------------------------------------------------
(* Lookups *)

Players(seats) == {u \in User : seats[u] # NoSeat}

At_(m, u) == {r \in Room : m[r] # NoSeats /\ u \in Players(m[r])}

\* getUserCurrentRoom: the tables in memory, then the snapshots in SQLite.  If
\* there are several, any.
CurrentRooms(u) == IF At_(tables, u) # {} THEN At_(tables, u) ELSE At_(sqlite, u)

\* getTable: memory, Redis, SQLite, a new table
Recovered(r) == IF redis[r] # NoSeats THEN redis[r]
                ELSE IF sqlite[r] # NoSeats THEN sqlite[r] ELSE Empty
GetTable(r) == IF tables[r] # NoSeats THEN tables[r] ELSE Recovered(r)
CanGet(r)   == tables[r] # NoSeats \/ r \in open

Dissolving(r) == \E j \in Job : job[j].room = r /\ job[j].at \in {"delRedis", "delSqlite", "delRoom"}

\* The table comes back from its old snapshot, or without its room.
Revives(r) == tables[r] = NoSeats /\ Dissolving(r)

----------------------------------------------------------------------------
(* Steps of the jobs *)

\* The users whose wallet or seat job i has read, and will write.
Holds(i) ==
  CASE job[i].at \in {"balance", "sit", "freeze", "credit", "unfreeze"} -> {job[i].user}
    [] job[i].at = "wallet" -> Players(job[i].snap)
    [] OTHER -> {}

Writers(u) == {i \in Job : u \in Holds(i)
                             /\ job[i].at \in {"freeze", "credit", "unfreeze", "wallet"}}

\* Bound: a behaviour is followed up to its first mishap.
Followed == mishap = "none"

\* Job j goes on as nj.  It has changed the wallet or the seat of U and the tables
\* of the rooms R, and the tables of G have left the map.
Marks(j, nj, U, R, G) ==
  job' = [i \in Job |->
    IF i = j THEN nj
    ELSE [job[i] EXCEPT
            !.stale  = @ \/ Holds(i) \cap U # {}
                         \/ (job[i].at \in {"redis", "sqlite"} /\ job[i].room \in R),
            !.orphan = @ \/ (job[i].room \in G /\ job[i].at \in {"balance", "sit", "freeze"})]]

Goes(j, nj, U, R, G) ==
  /\ Followed
  /\ Marks(j, nj, U, R, G)
  /\ lock' = IF nj.at = "idle" THEN [r \in Room |-> IF lock[r] = j THEN NoJob ELSE lock[r]] ELSE lock

To(j, at) == [job[j] EXCEPT !.at = at]

\* persistTableState: the snapshot is taken now, if the table is in the map.
Persist(j, seats) ==
  IF seats = NoSeats THEN Idle
  ELSE [Idle EXCEPT !.at = "redis", !.room = job[j].room, !.snap = seats]

Mishap(what, happens) == mishap' = IF mishap = "none" /\ happens THEN what ELSE mishap

----------------------------------------------------------------------------
(* join_room *)

\* Up to getUserAvailableBalance.  A table that is not in memory is recovered.
JoinRoom(j, u, r) ==
  LET seated == u \in Players(GetTable(r))
  IN  /\ job[j] = Idle
      /\ CurrentRooms(u) = {} \/ r \in CurrentRooms(u)
      /\ CanGet(r)
      /\ tables' = [tables EXCEPT ![r] = GetTable(r)]
      /\ Goes(j, [Idle EXCEPT !.at = IF seated THEN "sit" ELSE "balance", !.user = u, !.room = r,
                             !.seated = seated], {}, {}, {})
      /\ Mishap("overlap", Revives(r))
      /\ UNCHANGED <<wallet, store, behind, counts>>

\* getAvailableBalance
Available(u) == IF chips[u] > frozen[u] THEN chips[u] - frozen[u] ELSE 0

Balance(j) ==
  LET a == Available(job[j].user)
  IN  /\ job[j].at = "balance"
      /\ Goes(j, IF a < MinBuyIn THEN Idle ELSE [To(j, "sit") EXCEPT !.amount = a], {}, {}, {})
      /\ UNCHANGED <<wallet, tables, store, behind, mishap, counts>>

\* addPlayer, which knows a player who sits there already
Sit(j) ==
  LET u == job[j].user
      r == job[j].room
      sits == ~job[j].orphan /\ u \notin Players(tables[r])
      new == [tables EXCEPT ![r][u] = job[j].amount]
  IN  /\ job[j].at = "sit"
      /\ IF sits /\ Cardinality(Players(tables[r])) = Capacity
         THEN Goes(j, Idle, {}, {}, {}) /\ UNCHANGED <<tables, mishap>>
         ELSE /\ tables' = IF sits THEN new ELSE tables
              /\ IF job[j].seated
                 THEN /\ Goes(j, IF job[j].orphan THEN Idle ELSE Persist(j, tables'[r]),
                              {u}, {r}, {})
                      /\ Mishap("overlap", sits)
                 ELSE /\ Goes(j, To(j, "freeze"), {u}, {r}, {})
                      /\ Mishap("overlap", job[j].orphan \/ job[j].stale \/ Writers(u) # {})
      /\ UNCHANGED <<wallet, store, behind, counts>>

Freeze(j) ==
  LET u == job[j].user
  IN  /\ job[j].at = "freeze"
      /\ frozen' = [frozen EXCEPT ![u] = job[j].amount]
      /\ Goes(j, Persist(j, tables[job[j].room]), {u}, {}, {})
      /\ Mishap("overlap", job[j].stale)
      /\ UNCHANGED <<chips, tables, store, behind, counts>>

----------------------------------------------------------------------------
(* persistTableState and persistTableBalances *)

\* (Nobody asks after the last restart.)
Behind(r, s, old) ==
  behind' = IF crashes = MaxCrashes THEN behind
            ELSE [behind EXCEPT ![r] = IF old THEN @ \cup {s} ELSE @ \ {s}]

\* The snapshot of a table that has been dissolved is written again.
Outlived(j) == job[j].stale /\ tables[job[j].room] = NoSeats

\* A connection that is down swallows the write.
Redis(j) ==
  LET r == job[j].room
  IN  /\ job[j].at = "redis"
      /\ \/ /\ redis' = [redis EXCEPT ![r] = job[j].snap]
            /\ Behind(r, "redis", job[j].stale)
            /\ UNCHANGED misses
         \/ /\ misses < MaxMisses /\ misses' = misses + 1
            /\ Behind(r, "redis", TRUE)
            /\ UNCHANGED redis
      /\ Goes(j, To(j, "sqlite"), {}, {}, {})
      /\ Mishap("overlap", Outlived(j))
      /\ UNCHANGED <<wallet, tables, sqlite, open, trades, crashes>>

\* The row of a table needs its room.
Sqlite(j) ==
  LET r == job[j].room
      pays == job[j].pays /\ tables[r] # NoSeats /\ r \in open
  IN  /\ job[j].at = "sqlite"
      /\ sqlite' = IF r \in open THEN [sqlite EXCEPT ![r] = job[j].snap] ELSE sqlite
      /\ IF r \in open THEN Behind(r, "sqlite", job[j].stale) ELSE UNCHANGED behind
      /\ Goes(j, IF pays THEN [To(j, "wallet") EXCEPT !.snap = tables[r], !.stale = FALSE] ELSE Idle,
              {}, {}, {})
      /\ Mishap("overlap", Outlived(j))
      /\ UNCHANGED <<wallet, tables, redis, open, counts>>

\* Mutant: setBalances without the flag that freezes.
WalletUnfrozen(j) ==
  LET paid == Players(job[j].snap)
  IN  /\ job[j].at = "wallet"
      /\ chips' = [u \in User |-> IF u \in paid THEN job[j].snap[u] ELSE chips[u]]
      /\ Goes(j, Idle, paid, {}, {})
      /\ Mishap("overlap", job[j].stale)
      /\ UNCHANGED <<frozen, tables, store, behind, counts>>

\* setBalances(getPersistentBalances(), true)
Wallet(j) ==
  LET paid == Players(job[j].snap)
      new(w) == [u \in User |-> IF u \in paid THEN job[j].snap[u] ELSE w[u]]
  IN  /\ job[j].at = "wallet"
      /\ chips' = new(chips) /\ frozen' = new(frozen)
      /\ Goes(j, Idle, paid, {}, {})
      /\ Mishap("overlap", job[j].stale)
      /\ UNCHANGED <<tables, store, behind, counts>>

\* Mutant: nobody asks what the loser has.
PlayUncapped(j, r) ==
  /\ Followed /\ job[j] = Idle /\ CanGet(r)
  /\ \E u, v \in Players(GetTable(r)) :
       /\ u # v
       /\ tables' = [tables EXCEPT ![r] = [GetTable(r) EXCEPT ![u] = @ + 1, ![v] = @ - 1]]
  /\ Marks(j, [Idle EXCEPT !.at = "redis", !.room = r, !.pays = TRUE, !.snap = tables'[r]],
           {}, {r}, {})
  /\ Mishap("overlap", Revives(r))
  /\ UNCHANGED <<wallet, redis, sqlite, open, lock, behind, counts>>

\* A chip of v becomes u's: player_action and player_ready under the lock,
\* finalizeActionTimeout and finalizeSettlement without it.
Play(j, r) ==
  /\ Followed /\ job[j] = Idle
  /\ CanGet(r)
  /\ \E u, v \in Players(GetTable(r)) :
       LET seats == GetTable(r)
       IN  /\ u # v /\ seats[v] > 0
           /\ tables' = [tables EXCEPT ![r] = [seats EXCEPT ![u] = @ + 1, ![v] = @ - 1]]
  /\ Marks(j, [Idle EXCEPT !.at = "redis", !.room = r, !.pays = TRUE, !.snap = tables'[r]],
           {}, {r}, {})
  /\ lock' \in {lock} \cup IF lock[r] = NoJob THEN {[lock EXCEPT ![r] = j]} ELSE {}
  /\ Mishap("overlap", Revives(r))
  /\ UNCHANGED <<wallet, redis, sqlite, open, behind, counts>>

----------------------------------------------------------------------------
(* leave_room, and the end of a disconnect grace period *)

LeaveRoom(j, u) ==
  /\ Followed /\ job[j] = Idle
  /\ \E r \in CurrentRooms(u) :
       /\ lock[r] = NoJob
       /\ job' = [job EXCEPT ![j] = [Idle EXCEPT !.at = "remove", !.user = u, !.room = r]]
       /\ lock' = [lock EXCEPT ![r] = j]
  /\ UNCHANGED <<wallet, tables, store, behind, mishap, counts>>

\* The table is written, or dissolved if nobody is left.
Departs(j, r, seats, U) ==
  IF Players(seats) = {}
  THEN /\ tables' = [tables EXCEPT ![r] = NoSeats]
       /\ Goes(j, [Idle EXCEPT !.at = "delRedis", !.room = r], U, {}, {r})
  ELSE /\ tables' = [tables EXCEPT ![r] = seats]
       /\ Goes(j, [Idle EXCEPT !.at = "redis", !.room = r, !.snap = seats], U, {}, {})

\* leaveCurrentRoom looks the room up again.
NobodyLeaves(j) ==
  /\ job[j].at = "remove"
  /\ CurrentRooms(job[j].user) = {}
  /\ Goes(j, Idle, {}, {}, {})
  /\ UNCHANGED <<wallet, tables, store, behind, mishap, counts>>

Remove(j) ==
  LET u == job[j].user
  IN  /\ job[j].at = "remove"
      /\ \E r \in {q \in CurrentRooms(u) : CanGet(q)} :
           LET seats == GetTable(r)
           IN  /\ IF u \in Players(seats)
                  THEN /\ tables' = [tables EXCEPT ![r] = [seats EXCEPT ![u] = NoSeat]]
                       /\ Goes(j, [To(j, "credit") EXCEPT !.room = r, !.amount = seats[u]],
                               {u}, {r}, {})
                  ELSE Departs(j, r, seats, {})
               /\ Mishap("overlap", Revives(r) \/ Writers(u) # {})
      /\ UNCHANGED <<wallet, store, behind, counts>>

\* Mutant: the stack is added to the wallet, which still has the frozen buy-in.
CreditOnTop(j) ==
  LET u == job[j].user
  IN  /\ job[j].at = "credit"
      /\ chips' = [chips EXCEPT ![u] = @ + job[j].amount]
      /\ Goes(j, To(j, "unfreeze"), {u}, {}, {})
      /\ Mishap("overlap", job[j].stale)
      /\ UNCHANGED <<frozen, tables, store, behind, counts>>

Credit(j) ==
  LET u == job[j].user
  IN  /\ job[j].at = "credit"
      /\ chips' = [chips EXCEPT ![u] = job[j].amount]
      /\ Goes(j, To(j, "unfreeze"), {u}, {}, {})
      /\ Mishap("overlap", job[j].stale)
      /\ UNCHANGED <<frozen, tables, store, behind, counts>>

\* Mutant: the chips of who left stay frozen.
UnfreezeForgotten(j) ==
  LET r == job[j].room
  IN  /\ job[j].at = "unfreeze"
      /\ IF tables[r] = NoSeats THEN Goes(j, Idle, {job[j].user}, {}, {}) /\ UNCHANGED tables
         ELSE Departs(j, r, tables[r], {job[j].user})
      /\ Mishap("overlap", job[j].stale)
      /\ UNCHANGED <<wallet, store, behind, counts>>

Unfreeze(j) ==
  LET u == job[j].user
      r == job[j].room
  IN  /\ job[j].at = "unfreeze"
      /\ frozen' = [frozen EXCEPT ![u] = 0]
      /\ IF tables[r] = NoSeats THEN Goes(j, Idle, {u}, {}, {}) /\ UNCHANGED tables
         ELSE Departs(j, r, tables[r], {u})
      /\ Mishap("overlap", job[j].stale)
      /\ UNCHANGED <<chips, store, behind, counts>>

\* clearTableState, and deleteRoom, which fails if a hand of the room is recorded.
DelRedis(j) ==
  LET r == job[j].room
  IN  /\ job[j].at = "delRedis"
      /\ \/ /\ redis' = [redis EXCEPT ![r] = NoSeats]
            /\ UNCHANGED <<misses, mishap>>
         \/ /\ misses < MaxMisses /\ misses' = misses + 1
            /\ Mishap("redis", redis[r] # NoSeats)
            /\ UNCHANGED redis
      /\ Goes(j, To(j, "delSqlite"), {}, {}, {})
      /\ UNCHANGED <<wallet, tables, sqlite, open, behind, trades, crashes>>

DelSqlite(j) ==
  LET r == job[j].room
  IN  /\ job[j].at = "delSqlite"
      /\ sqlite' = [sqlite EXCEPT ![r] = NoSeats]
      /\ behind' = [behind EXCEPT ![r] = {}]
      /\ Goes(j, To(j, "delRoom"), {}, {}, {})
      /\ UNCHANGED <<wallet, tables, redis, open, mishap, counts>>

DelRoom(j) ==
  /\ job[j].at = "delRoom"
  /\ open' \in {open, open \ {job[j].room}}
  /\ Goes(j, Idle, {}, {}, {})
  /\ UNCHANGED <<wallet, tables, redis, sqlite, behind, mishap, counts>>

----------------------------------------------------------------------------
(* The rest of the system *)

\* Who sits in room r, or will when its table is recovered
Books(r) ==
  CASE tables[r] # NoSeats -> tables[r]
    [] tables[r] = NoSeats /\ Dissolving(r)  -> Empty
    [] tables[r] = NoSeats /\ ~Dissolving(r) -> Recovered(r)

SeatedAt(u) == {r \in Room : Books(r)[u] # NoSeat}

\* Chips are bought: a deposit, an exchange or the administrator adds to chips.
\* Chips are spent: only those that are available.
Trade(u) ==
  /\ Followed /\ trades < MaxTrades /\ trades' = trades + 1
  /\ \/ (chips[u] < Bankroll \/ SeatedAt(u) # {}) /\ chips' = [chips EXCEPT ![u] = @ + 1]
     \/ Available(u) > 0 /\ chips' = [chips EXCEPT ![u] = @ - 1]
  /\ Mishap(IF SeatedAt(u) # {} /\ \A i \in Job : job[i].user # u THEN "deposit" ELSE "overlap",
            SeatedAt(u) # {} \/ Writers(u) # {})
  /\ job' = [i \in Job |-> [job[i] EXCEPT !.stale = @ \/ (u \in Holds(i) /\ job[i].at = "sit")]]
  /\ UNCHANGED <<frozen, tables, store, lock, behind, misses, crashes>>

Crash ==
  /\ Followed /\ crashes < MaxCrashes /\ crashes' = crashes + 1
  /\ tables' = [r \in Room |-> NoSeats]
  /\ job' = [j \in Job |-> Idle]
  /\ lock' = [r \in Room |-> NoJob]
  /\ Mishap(IF \E j \in Job : job[j] # Idle THEN "crash" ELSE "redis",
            \/ \E j \in Job : job[j] # Idle
            \/ \E r \in Room : tables[r] # NoSeats /\ behind[r] # {})
  /\ UNCHANGED <<wallet, store, behind, trades, misses>>

Next ==
  \/ \E j \in Job :
       \/ \E u \in User : LeaveRoom(j, u) \/ \E r \in Room : JoinRoom(j, u, r)
       \/ \E r \in Room : Play(j, r)
       \/ Balance(j) \/ Sit(j) \/ Freeze(j)
       \/ Redis(j) \/ Sqlite(j) \/ Wallet(j)
       \/ NobodyLeaves(j) \/ Remove(j) \/ Credit(j) \/ Unfreeze(j)
       \/ DelRedis(j) \/ DelSqlite(j) \/ DelRoom(j)
  \/ \E u \in User : Trade(u)
  \/ Crash

Spec == Init /\ [][Next]_vars

----------------------------------------------------------------------------
(* Properties *)

OnlyOf(S) == IF S = {} THEN Nowhere ELSE CHOOSE r \in S : TRUE

Worth(u) ==
  LET at      == SeatedAt(u)
      leaving == {j \in Job : job[j].user = u /\ job[j].at = "credit"}
  IN  IF at # {} THEN Books(OnlyOf(at))[u]
      ELSE IF leaving # {} THEN job[CHOOSE j \in leaving : TRUE].amount
      ELSE chips[u]

Promise == INSTANCE SeatPromise WITH
  void  <- mishap # "none",
  seat  <- [u \in User |-> IF mishap = "none" THEN OnlyOf(SeatedAt(u)) ELSE Nowhere],
  worth <- [u \in User |-> IF mishap = "none" THEN Worth(u) ELSE 0],
  trades <- IF mishap = "none" THEN trades ELSE 0

PromiseKept == Promise!Spec

Working(u) == \E j \in Job : job[j].user = u

\* Whoever sits at a table has nothing to spend or to sit down with elsewhere.
SeatedMeansFrozen ==
  mishap = "none" => \A u \in User : SeatedAt(u) # {} /\ ~Working(u) => Available(u) = 0

\* Chips are frozen only for a seat.
NothingStranded ==
  mishap = "none" => \A u \in User : frozen[u] > 0 => SeatedAt(u) # {} \/ Working(u)
=============================================================================
