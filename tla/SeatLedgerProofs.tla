-------------------------- MODULE SeatLedgerProofs --------------------------
(***************************************************************************)
(* Seats and chips (SeatLedger) for any number of users, rooms and calls   *)
(* at once: whoever sits has his chips frozen, chips are frozen only for a *)
(* seat, and the tables, their snapshots and the wallet keep the promise   *)
(* of SeatPromise.                                                         *)
(*                                                                         *)
(* The invariant says of each call that what it has read is still so,      *)
(* unless the call is marked stale; of each table in memory, that its      *)
(* snapshots equal it unless they are behind or about to be written; of a  *)
(* table on disk, that its two snapshots agree and nobody sits elsewhere.  *)
(***************************************************************************)
EXTENDS SeatLedger, TLAPS

----------------------------------------------------------------------------
(* The invariant *)

\* Who a snapshot seats.
Seating(s) == IF s = NoSeats THEN Empty ELSE s

Personal == {"balance", "sit", "freeze", "remove", "credit", "unfreeze"}
Movers   == {"freeze", "credit", "unfreeze"}
Deleting == {"delRedis", "delSqlite", "delRoom"}

\* A call that is going on has its room and its user; its Table is in memory unless
\* it is an orphan.
JobTyped(j) ==
  /\ job[j].at # "idle" => job[j].room \in Room
  /\ job[j].at \in Personal => job[j].user \in User
  /\ job[j].at \in {"balance", "sit"} /\ ~job[j].orphan => tables[job[j].room] # NoSeats

Typed == TypeOK /\ \A j \in Job : JobTyped(j)

\* u has left his table and waits for his chips; u waits for them to be frozen.
Leaving(u)  == \E i \in Job : job[i].user = u /\ job[i].at \in {"credit", "unfreeze"}
Freezing(u) == \E i \in Job : job[i].user = u /\ job[i].at = "freeze"

Seated(u) == \E r \in Room : Books(r)[u] # NoSeat

\* A call that will write the snapshot of r.
Awaited(r, S) == \E j \in Job : job[j].room = r /\ job[j].at \in S

\* A table in memory has its room and is not being dissolved.
TablesOpen ==
  \A r \in Room : tables[r] # NoSeats => r \in open /\ ~Dissolving(r)

\* A dissolution deletes the snapshots in turn.
Deleted ==
  \A j \in Job :
    /\ job[j].at \in {"delSqlite", "delRoom"} => redis[job[j].room] = NoSeats
    /\ job[j].at = "delRoom" => sqlite[job[j].room] = NoSeats

OneSeat ==
  \A u \in User : \A r, q \in Room : Books(r)[u] # NoSeat /\ Books(q)[u] # NoSeat => r = q

\* Nobody has two calls that move his chips.
OneMover ==
  \A i, j \in Job : job[i].at \in Movers /\ job[j].at \in Movers /\ job[i].user = job[j].user => i = j

\* What call j has read is still so, unless it is stale.  Who waits for a freeze sits
\* there.  A snapshot about to be written seats somebody.
CallRight(j) ==
  /\ job[j].at \in {"balance", "sit"} /\ ~job[j].stale /\ ~job[j].seated =>
       /\ ~Seated(job[j].user)
       /\ job[j].at = "sit" => job[j].amount = chips[job[j].user] \/ Leaving(job[j].user)
  /\ job[j].at = "freeze" =>
       /\ tables[job[j].room] # NoSeats
       /\ tables[job[j].room][job[j].user] # NoSeat
       /\ ~job[j].stale => chips[job[j].user] = job[j].amount
  /\ job[j].at \in {"redis", "sqlite"} =>
       /\ job[j].snap # Empty
       /\ ~job[j].stale => tables[job[j].room] = job[j].snap
  /\ job[j].at = "wallet" /\ ~job[j].stale =>
       \A u \in User : job[j].snap[u] # NoSeat => Seated(u)

\* Who has left sits nowhere; who sits has his chips frozen, or will; chips are frozen
\* for a seat, or for who has just left one.
WalletRight(u) ==
  /\ Leaving(u) => ~Seated(u)
  /\ Seated(u) /\ ~Freezing(u) => chips[u] <= frozen[u]
  /\ frozen[u] > 0 => Seated(u) \/ Leaving(u)

\* Snapshots of r that are not behind and that no call is about to write are those of
\* its table.
InStep(r) ==
  /\ /\ "sqlite" \notin behind[r]
     /\ ~Awaited(r, {"freeze", "credit", "unfreeze", "redis", "sqlite"})
     => Seating(sqlite[r]) = tables[r]
  /\ /\ "redis" \notin behind[r] /\ redis[r] # NoSeats
     /\ ~Awaited(r, {"freeze", "credit", "unfreeze", "redis"})
     => redis[r] = tables[r]

\* (Until the last restart.)
InMemory == \A r \in Room : tables[r] # NoSeats /\ crashes < MaxCrashes => InStep(r)

\* A table that is only on disk: both snapshots agree, and who sits there is in no
\* other snapshot.
OnDisk ==
  \A r \in Room : tables[r] = NoSeats /\ ~Dissolving(r) =>
    /\ redis[r] # NoSeats => redis[r] = Seating(sqlite[r])
    /\ \A u \in User : Seating(sqlite[r])[u] # NoSeat =>
         /\ \A q \in Room \ {r} : Seating(sqlite[q])[u] = NoSeat
         /\ \A j \in Job : job[j].at \in {"redis", "sqlite"} /\ job[j].room # r =>
              job[j].snap[u] = NoSeat

Sound ==
  /\ TablesOpen /\ Deleted /\ OneSeat /\ OneMover /\ InMemory /\ OnDisk
  /\ \A j \in Job : CallRight(j)
  /\ \A u \in User : WalletRight(u)

IInv == Typed /\ (mishap = "none" => Sound)

----------------------------------------------------------------------------
(* One step of a job *)

Same(a, b) ==
  /\ a.at = b.at /\ a.user = b.user /\ a.room = b.room /\ a.amount = b.amount
  /\ a.seated = b.seated /\ a.snap = b.snap

\* Job j has gone on as nj; of the others, those that hold one of U, that will write
\* a snapshot of R or that look at a Table of G are marked.
Moves(j, nj, U, R, G) ==
  /\ job'[j] = nj
  /\ \A i \in Job \ {j} :
       /\ Same(job[i], job'[i])
       /\ ~job'[i].stale => /\ ~job[i].stale
                            /\ Holds(i) \cap U = {}
                            /\ job[i].at \in {"redis", "sqlite"} => job[i].room \notin R
       /\ ~job'[i].orphan => /\ ~job[i].orphan
                             /\ job[i].at \in {"balance", "sit"} => job[i].room \notin G

LEMMA MarksMove ==
  ASSUME job \in [Job -> Jobs], NEW j \in Job, NEW nj \in Jobs, NEW U, NEW R, NEW G,
         Marks(j, nj, U, R, G)
  PROVE  Moves(j, nj, U, R, G) /\ job' \in [Job -> Jobs]
<1>1. job'[j] = nj
  BY DEF Marks
<1>2. ASSUME NEW i \in Job \ {j}
      PROVE  /\ job'[i] \in Jobs
             /\ Same(job[i], job'[i])
             /\ ~job'[i].stale => /\ ~job[i].stale
                                  /\ Holds(i) \cap U = {}
                                  /\ job[i].at \in {"redis", "sqlite"} => job[i].room \notin R
             /\ ~job'[i].orphan => /\ ~job[i].orphan
                                   /\ job[i].at \in {"balance", "sit"} => job[i].room \notin G
  <2>1. PICK stale \in BOOLEAN :
          stale = (job[i].stale \/ Holds(i) \cap U # {}
                     \/ (job[i].at \in {"redis", "sqlite"} /\ job[i].room \in R))
    OBVIOUS
  <2>2. PICK orphan \in BOOLEAN :
          orphan = (job[i].orphan
                      \/ (job[i].room \in G /\ job[i].at \in {"balance", "sit", "freeze"}))
    OBVIOUS
  <2>3. PICK old : old = job[i]
    OBVIOUS
  <2>4. old \in Jobs
    BY <2>3
  <2>5. job'[i] = [old EXCEPT !.stale = stale, !.orphan = orphan]
    <3>1. job'[i] = [job[i] EXCEPT
            !.stale  = @ \/ Holds(i) \cap U # {}
                         \/ (job[i].at \in {"redis", "sqlite"} /\ job[i].room \in R),
            !.orphan = @ \/ (job[i].room \in G /\ job[i].at \in {"balance", "sit", "freeze"})]
      BY DEF Marks
    <3> QED BY <2>1, <2>2, <2>3, <3>1, Zenon
  <2>6. /\ job'[i] \in Jobs /\ job'[i].stale = stale /\ job'[i].orphan = orphan
        /\ Same(old, job'[i])
    BY <2>4, <2>5 DEF Jobs, Same
  <2>7. ~stale => /\ ~job[i].stale
                  /\ Holds(i) \cap U = {}
                  /\ job[i].at \in {"redis", "sqlite"} => job[i].room \notin R
    BY <2>1
  <2>8. ~orphan => /\ ~job[i].orphan
                   /\ job[i].at \in {"balance", "sit"} => job[i].room \notin G
    BY <2>2
  <2> QED BY <2>3, <2>6, <2>7, <2>8
<1>3. job' \in [Job -> Jobs]
  <2>1. DOMAIN job' = Job /\ job' = [i \in Job |-> job'[i]]
    BY DEF Marks
  <2>2. \A i \in Job : job'[i] \in Jobs
    BY <1>1, <1>2
  <2> QED BY <2>1, <2>2
<1> QED BY <1>1, <1>2, <1>3 DEF Moves

LEMMA GoesMoves ==
  ASSUME Typed, NEW j \in Job, NEW nj \in Jobs, NEW U, NEW R, NEW G, Goes(j, nj, U, R, G)
  PROVE  /\ Moves(j, nj, U, R, G) /\ job' \in [Job -> Jobs]
         /\ lock' \in [Room -> Job \cup {NoJob}]
         /\ mishap = "none"
<1>1. job \in [Job -> Jobs] /\ lock \in [Room -> Job \cup {NoJob}]
  BY DEF Typed, TypeOK
<1>2. Marks(j, nj, U, R, G) /\ mishap = "none"
  BY DEF Goes, Followed
<1>3. lock' \in [Room -> Job \cup {NoJob}]
  <2>1. CASE nj.at = "idle"
    <3>1. lock' = [r \in Room |-> IF lock[r] = j THEN NoJob ELSE lock[r]]
      BY <2>1 DEF Goes
    <3> QED BY <1>1, <3>1
  <2>2. CASE nj.at # "idle"
    BY <1>1, <2>2 DEF Goes
  <2> QED BY <2>1, <2>2
<1> QED BY <1>1, <1>2, <1>3, MarksMove

\* The new job has what a job of its kind needs.
Ready(nj) ==
  /\ nj.at # "idle" => nj.room \in Room
  /\ nj.at \in Personal => nj.user \in User
  /\ nj.at \in {"balance", "sit"} /\ ~nj.orphan => tables'[nj.room] # NoSeats

LEMMA MovesTyped ==
  ASSUME Typed, NEW j \in Job, NEW nj \in Jobs, NEW U, NEW R, NEW G,
         Moves(j, nj, U, R, G), Ready(nj),
         \A r \in Room \ G : tables[r] # NoSeats => tables'[r] # NoSeats
  PROVE  \A i \in Job : JobTyped(i)'
<1>1. ASSUME NEW i \in Job \ {j} PROVE JobTyped(i)'
  <2>1. JobTyped(i) /\ job[i].at # "idle" => job[i].room \in Room
    BY DEF Typed, JobTyped
  <2>2. Same(job[i], job'[i])
        /\ (~job'[i].orphan => /\ ~job[i].orphan
                               /\ job[i].at \in {"balance", "sit"} => job[i].room \notin G)
    BY DEF Moves
  <2> QED BY <2>1, <2>2 DEF JobTyped, Same, Typed
<1>2. JobTyped(j)'
  BY DEF JobTyped, Ready, Moves
<1> QED BY <1>1, <1>2

LEMMA IdleType == Idle \in Jobs /\ Empty \in Seats /\ NoSeats \notin Seats
BY JobAssumption, SeatAssumption DEF Idle, Jobs, At, Empty, Seats

\* The types of all but the calls and the locks.
StoresTyped ==
  /\ chips \in [User -> Nat] /\ frozen \in [User -> Nat]
  /\ tables \in [Room -> Seats \cup {NoSeats}]
  /\ redis \in [Room -> Seats \cup {NoSeats}] /\ sqlite \in [Room -> Seats \cup {NoSeats}]
  /\ open \subseteq Room
  /\ behind \in [Room -> SUBSET Store]
  /\ mishap \in {"none", "overlap", "deposit", "redis", "crash"}
  /\ trades \in 0..MaxTrades /\ misses \in 0..MaxMisses /\ crashes \in 0..MaxCrashes

LEMMA StepTyped ==
  ASSUME Typed, NEW j \in Job, NEW nj \in Jobs, NEW U, NEW R, NEW G,
         Goes(j, nj, U, R, G), Ready(nj), StoresTyped',
         \A r \in Room \ G : tables[r] # NoSeats => tables'[r] # NoSeats
  PROVE  Typed'
<1>1. Moves(j, nj, U, R, G) /\ job' \in [Job -> Jobs] /\ lock' \in [Room -> Job \cup {NoJob}]
  BY GoesMoves
<1>2. \A i \in Job : JobTyped(i)'
  BY <1>1, MovesTyped
<1> QED BY <1>1, <1>2 DEF Typed, TypeOK, StoresTyped

\* If a step is not the first mishap, it is none, and there was none.
LEMMA MishapType ==
  ASSUME NEW what \in {"overlap", "deposit", "redis", "crash"}, NEW happens \in BOOLEAN,
         mishap = "none", Mishap(what, happens)
  PROVE  /\ mishap' \in {"none", "overlap", "deposit", "redis", "crash"}
         /\ mishap' = "none" => ~happens
BY DEF Mishap

LEMMA GetTableType ==
  ASSUME Typed, NEW r \in Room
  PROVE  GetTable(r) \in Seats /\ Recovered(r) \in Seats
         /\ (tables[r] # NoSeats => tables[r] \in Seats /\ GetTable(r) = tables[r])
BY IdleType DEF Typed, TypeOK, GetTable, Recovered

LEMMA JoinRoomTyped ==
  ASSUME Typed, NEW j \in Job, NEW u \in User, NEW r \in Room, JoinRoom(j, u, r)
  PROVE  Typed'
<1>1. PICK seated \in BOOLEAN : seated = (u \in Players(GetTable(r)))
  <2>1. (u \in Players(GetTable(r))) \in BOOLEAN
    OBVIOUS
  <2> QED BY <2>1, Zenon
<1>2. PICK nj : nj = [Idle EXCEPT !.at = IF seated THEN "sit" ELSE "balance", !.user = u,
                                  !.room = r, !.seated = seated]
  OBVIOUS
<1>3. nj \in Jobs /\ nj.room = r /\ nj.user = u
  BY <1>2, IdleType DEF Jobs, Idle, At
<1>4. Goes(j, nj, {}, {}, {})
  BY <1>1, <1>2, Zenon DEF JoinRoom
<1>5. tables' = [tables EXCEPT ![r] = GetTable(r)] /\ GetTable(r) \in Seats
  BY GetTableType DEF JoinRoom
<1>6. tables' \in [Room -> Seats \cup {NoSeats}] /\ tables'[r] # NoSeats
      /\ \A q \in Room : tables[q] # NoSeats => tables'[q] # NoSeats
  BY <1>5, IdleType DEF Typed, TypeOK
<1>7. mishap' \in {"none", "overlap", "deposit", "redis", "crash"}
  BY <1>4 DEF JoinRoom, Mishap, Goes, Followed
<1>8. StoresTyped'
  BY <1>6, <1>7 DEF StoresTyped, JoinRoom, Typed, TypeOK, wallet, store, counts
<1> QED BY <1>3, <1>4, <1>6, <1>8, StepTyped DEF Ready

LEMMA BalanceTyped ==
  ASSUME Typed, NEW j \in Job, Balance(j)
  PROVE  Typed'
<1>1. PICK old : old = job[j]
  OBVIOUS
<1>2. PICK a : a = Available(old.user)
  OBVIOUS
<1>3. old \in Jobs /\ old.at = "balance" /\ old.user \in User /\ old.room \in Room
      /\ (~old.orphan => tables[old.room] # NoSeats)
  BY <1>1 DEF Typed, TypeOK, JobTyped, Personal, Balance
<1>4. a \in Nat
  BY <1>2, <1>3 DEF Available, Typed, TypeOK
<1>5. PICK nj : nj = IF a < MinBuyIn THEN Idle ELSE [old EXCEPT !.at = "sit", !.amount = a]
  OBVIOUS
<1>6. nj \in Jobs /\ (nj.at # "idle" => nj.room = old.room /\ nj.user = old.user
                                         /\ nj.orphan = old.orphan)
  BY <1>3, <1>4, <1>5, IdleType DEF Jobs, At, Idle
<1>7. Goes(j, nj, {}, {}, {})
  BY <1>1, <1>2, <1>5 DEF Balance, To
<1>8. StoresTyped' /\ tables' = tables
  BY DEF StoresTyped, Balance, Typed, TypeOK, wallet, store, counts
<1> QED BY <1>3, <1>6, <1>7, <1>8, StepTyped DEF Ready, Personal, Idle

LEMMA SitTyped ==
  ASSUME Typed, NEW j \in Job, Sit(j)
  PROVE  Typed'
<1>1. PICK old : old = job[j]
  OBVIOUS
<1>2. PICK u, r : u = old.user /\ r = old.room
  OBVIOUS
<1>3. old \in Jobs /\ old.at = "sit" /\ u \in User /\ r \in Room /\ old.amount \in Nat
      /\ (~old.orphan => tables[r] # NoSeats)
  BY <1>1, <1>2 DEF Typed, TypeOK, JobTyped, Personal, Sit, Jobs
<1>4. PICK sits \in BOOLEAN : sits = (~old.orphan /\ u \notin Players(tables[r]))
  OBVIOUS
<1>5. \/ tables' = [tables EXCEPT ![r][u] = old.amount] /\ sits
      \/ tables' = tables
  BY <1>1, <1>2, <1>4 DEF Sit
<1>6. /\ tables' \in [Room -> Seats \cup {NoSeats}]
      /\ \A q \in Room : tables[q] # NoSeats => tables'[q] # NoSeats
  <2>1. CASE tables' = tables
    BY <2>1 DEF Typed, TypeOK
  <2>2. CASE tables' = [tables EXCEPT ![r][u] = old.amount] /\ sits
    <3>1. tables[r] \in Seats
      BY <1>3, <1>4, <2>2, GetTableType
    <3>2. PICK new : new = [tables[r] EXCEPT ![u] = old.amount]
      OBVIOUS
    <3>3. new \in Seats
      BY <1>3, <3>1, <3>2 DEF Seats
    <3>4. tables' = [tables EXCEPT ![r] = new]
      BY <2>2, <3>2
    <3> QED BY <1>3, <3>3, <3>4, IdleType DEF Typed, TypeOK
  <2> QED BY <1>5, <2>1, <2>2
<1>7. PICK snap : snap = tables'[r]
  OBVIOUS
<1>8. snap \in Seats \cup {NoSeats} /\ (~old.orphan => snap \in Seats)
  BY <1>3, <1>6, <1>7
<1>9. PICK nj : /\ \/ nj = Idle
                   \/ nj = [old EXCEPT !.at = "freeze"]
                   \/ /\ snap # NoSeats
                      /\ nj = [Idle EXCEPT !.at = "redis", !.room = r, !.snap = snap]
                /\ Goes(j, nj, {}, {}, {}) \/ Goes(j, nj, {u}, {r}, {})
  <2>1. \/ Goes(j, Idle, {}, {}, {})
        \/ Goes(j, IF old.orphan THEN Idle ELSE Persist(j, snap), {u}, {r}, {})
        \/ Goes(j, To(j, "freeze"), {u}, {r}, {})
    BY <1>1, <1>2, <1>7 DEF Sit
  <2>2. Persist(j, snap) = IF snap = NoSeats THEN Idle
                           ELSE [Idle EXCEPT !.at = "redis", !.room = r, !.snap = snap]
    BY <1>1, <1>2 DEF Persist
  <2>3. To(j, "freeze") = [old EXCEPT !.at = "freeze"]
    BY <1>1 DEF To
  <2> QED BY <2>1, <2>2, <2>3
<1>10. nj \in Jobs /\ Ready(nj)
  <2>1. CASE nj = Idle
    BY <2>1, IdleType DEF Ready, Idle, Personal
  <2>2. CASE nj = [old EXCEPT !.at = "freeze"]
    BY <1>2, <1>3, <2>2 DEF Ready, Personal, Jobs, At
  <2>3. CASE snap # NoSeats /\ nj = [Idle EXCEPT !.at = "redis", !.room = r, !.snap = snap]
    BY <1>3, <1>8, <2>3, IdleType DEF Ready, Personal, Idle, Jobs, At
  <2> QED BY <1>9, <2>1, <2>2, <2>3
<1>11. mishap' \in {"none", "overlap", "deposit", "redis", "crash"}
  BY DEF Sit, Mishap, Typed, TypeOK
<1>12. StoresTyped'
  BY <1>6, <1>11 DEF StoresTyped, Sit, Typed, TypeOK, wallet, store, counts
<1> QED BY <1>6, <1>9, <1>10, <1>12, StepTyped

LEMMA FreezeTyped ==
  ASSUME Typed, NEW j \in Job, Freeze(j)
  PROVE  Typed'
<1>1. PICK old, snap : old = job[j] /\ snap = tables[old.room]
  OBVIOUS
<1>2. old \in Jobs /\ old.at = "freeze" /\ old.user \in User /\ old.room \in Room
      /\ old.amount \in Nat /\ snap \in Seats \cup {NoSeats}
  BY <1>1 DEF Typed, TypeOK, JobTyped, Personal, Freeze, Jobs
<1>3. PICK nj : /\ nj = IF snap = NoSeats THEN Idle
                        ELSE [Idle EXCEPT !.at = "redis", !.room = old.room, !.snap = snap]
                /\ Goes(j, nj, {old.user}, {}, {})
  BY <1>1 DEF Freeze, Persist
<1>4. nj \in Jobs /\ Ready(nj)
  BY <1>2, <1>3, IdleType DEF Ready, Personal, Idle, Jobs, At
<1>5. frozen' = [frozen EXCEPT ![old.user] = old.amount]
  BY <1>1 DEF Freeze
<1>6. frozen' \in [User -> Nat]
  BY <1>2, <1>5 DEF Typed, TypeOK
<1>7. mishap' \in {"none", "overlap", "deposit", "redis", "crash"}
  BY DEF Freeze, Mishap, Typed, TypeOK
<1>8. StoresTyped' /\ tables' = tables
  BY <1>6, <1>7 DEF StoresTyped, Freeze, Typed, TypeOK, store, counts
<1> QED BY <1>3, <1>4, <1>8, StepTyped

LEMMA RedisTyped ==
  ASSUME Typed, NEW j \in Job, Redis(j)
  PROVE  Typed'
<1>1. PICK old : old = job[j]
  OBVIOUS
<1>2. old \in Jobs /\ old.at = "redis" /\ old.room \in Room /\ old.snap \in Seats
  BY <1>1 DEF Typed, TypeOK, JobTyped, Redis, Jobs
<1>3. PICK nj : nj = [old EXCEPT !.at = "sqlite"] /\ Goes(j, nj, {}, {}, {})
  BY <1>1 DEF Redis, To
<1>4. nj \in Jobs /\ Ready(nj)
  BY <1>2, <1>3 DEF Ready, Personal, Jobs, At
<1>5. redis' \in [Room -> Seats \cup {NoSeats}] /\ misses' \in 0 .. MaxMisses
  <2>1. CASE misses < MaxMisses /\ misses' = misses + 1 /\ UNCHANGED redis
    BY <2>1, BoundAssumption DEF Typed, TypeOK
  <2>2. CASE redis' = [redis EXCEPT ![old.room] = old.snap] /\ UNCHANGED misses
    BY <1>2, <2>2 DEF Typed, TypeOK
  <2> QED BY <1>1, <2>1, <2>2 DEF Redis
<1>6. behind' \in [Room -> SUBSET Store]
  BY <1>1, <1>2 DEF Redis, Behind, Typed, TypeOK, Store
<1>7. mishap' \in {"none", "overlap", "deposit", "redis", "crash"}
  BY DEF Redis, Mishap, Typed, TypeOK
<1>8. StoresTyped' /\ tables' = tables
  BY <1>5, <1>6, <1>7 DEF StoresTyped, Redis, Typed, TypeOK, wallet
<1> QED BY <1>3, <1>4, <1>8, StepTyped

LEMMA SqliteTyped ==
  ASSUME Typed, NEW j \in Job, Sqlite(j)
  PROVE  Typed'
<1>1. PICK old, seats : old = job[j] /\ seats = tables[old.room]
  OBVIOUS
<1>2. old \in Jobs /\ old.at = "sqlite" /\ old.room \in Room /\ old.snap \in Seats
      /\ seats \in Seats \cup {NoSeats}
  BY <1>1 DEF Typed, TypeOK, JobTyped, Sqlite, Jobs
<1>3. PICK nj : /\ nj = IF old.pays /\ seats # NoSeats /\ old.room \in open
                        THEN [[old EXCEPT !.at = "wallet"] EXCEPT !.snap = seats, !.stale = FALSE]
                        ELSE Idle
                /\ Goes(j, nj, {}, {}, {})
  BY <1>1 DEF Sqlite, To
<1>4. nj \in Jobs /\ Ready(nj)
  BY <1>2, <1>3, IdleType DEF Ready, Personal, Jobs, At, Idle
<1>5. sqlite' \in [Room -> Seats \cup {NoSeats}]
  BY <1>1, <1>2 DEF Sqlite, Typed, TypeOK
<1>6. behind' \in [Room -> SUBSET Store]
  BY <1>1, <1>2 DEF Sqlite, Behind, Typed, TypeOK, Store
<1>7. mishap' \in {"none", "overlap", "deposit", "redis", "crash"}
  BY DEF Sqlite, Mishap, Typed, TypeOK
<1>8. StoresTyped' /\ tables' = tables
  BY <1>5, <1>6, <1>7 DEF StoresTyped, Sqlite, Typed, TypeOK, wallet, counts
<1> QED BY <1>3, <1>4, <1>8, StepTyped

LEMMA WalletTyped ==
  ASSUME Typed, NEW j \in Job, Wallet(j)
  PROVE  Typed'
<1>1. PICK snap, paid : snap = job[j].snap /\ paid = Players(snap)
  OBVIOUS
<1>2. snap \in Seats
  BY <1>1 DEF Typed, TypeOK, Jobs
<1>3. \A u \in paid : snap[u] \in Nat
  BY <1>1, <1>2 DEF Players, Seats
<1>4. /\ chips' = [u \in User |-> IF u \in paid THEN snap[u] ELSE chips[u]]
      /\ frozen' = [u \in User |-> IF u \in paid THEN snap[u] ELSE frozen[u]]
      /\ Goes(j, Idle, paid, {}, {})
  BY <1>1 DEF Wallet
<1>5. chips' \in [User -> Nat] /\ frozen' \in [User -> Nat]
  BY <1>3, <1>4 DEF Typed, TypeOK
<1>6. Ready(Idle)
  BY DEF Ready, Idle, Personal
<1>7. mishap' \in {"none", "overlap", "deposit", "redis", "crash"}
  BY DEF Wallet, Mishap, Typed, TypeOK
<1>8. StoresTyped' /\ tables' = tables
  BY <1>5, <1>7 DEF StoresTyped, Wallet, Typed, TypeOK, store, counts
<1> QED BY <1>4, <1>6, <1>8, StepTyped, IdleType

LEMMA PlayTyped ==
  ASSUME Typed, NEW j \in Job, NEW r \in Room, Play(j, r)
  PROVE  Typed'
<1>1. PICK seats : seats = GetTable(r)
  OBVIOUS
<1>2. seats \in Seats
  BY <1>1, GetTableType
<1>3. PICK u, v \in Players(seats) :
        /\ u # v /\ seats[v] > 0
        /\ tables' = [tables EXCEPT ![r] = [seats EXCEPT ![u] = @ + 1, ![v] = @ - 1]]
  BY <1>1 DEF Play
<1>4. PICK new : new = [seats EXCEPT ![u] = @ + 1, ![v] = @ - 1]
  OBVIOUS
<1>5. new \in Seats
  <2>1. u \in User /\ v \in User /\ seats[u] \in Nat /\ seats[v] \in Nat
    BY <1>2, <1>3 DEF Players, Seats
  <2>2. seats[v] - 1 \in Nat /\ seats[u] + 1 \in Nat
    BY <1>3, <2>1
  <2> QED BY <1>2, <1>3, <1>4, <2>1, <2>2 DEF Seats
<1>6. tables' = [tables EXCEPT ![r] = new]
  BY <1>3, <1>4
<1>7. /\ tables' \in [Room -> Seats \cup {NoSeats}] /\ tables'[r] = new
      /\ \A q \in Room : tables[q] # NoSeats => tables'[q] # NoSeats
  BY <1>5, <1>6, IdleType DEF Typed, TypeOK
<1>8. PICK nj : /\ nj = [Idle EXCEPT !.at = "redis", !.room = r, !.pays = TRUE, !.snap = new]
                /\ Marks(j, nj, {}, {r}, {})
  BY <1>7 DEF Play
<1>9. nj \in Jobs /\ Ready(nj)
  BY <1>5, <1>8, IdleType DEF Ready, Personal, Jobs, At, Idle
<1>10. Moves(j, nj, {}, {r}, {}) /\ job' \in [Job -> Jobs]
  BY <1>8, <1>9, MarksMove DEF Typed, TypeOK
<1>11. \A i \in Job : JobTyped(i)'
  BY <1>7, <1>9, <1>10, MovesTyped
<1>12. lock' \in [Room -> Job \cup {NoJob}]
  BY DEF Play, Typed, TypeOK
<1>13. mishap' \in {"none", "overlap", "deposit", "redis", "crash"}
  BY DEF Play, Mishap, Typed, TypeOK
<1> QED BY <1>7, <1>10, <1>11, <1>12, <1>13 DEF Play, Typed, TypeOK, wallet, counts

LEMMA LeaveRoomTyped ==
  ASSUME Typed, NEW j \in Job, NEW u \in User, LeaveRoom(j, u)
  PROVE  Typed'
<1>1. PICK r \in CurrentRooms(u) :
        /\ job' = [job EXCEPT ![j] = [Idle EXCEPT !.at = "remove", !.user = u, !.room = r]]
        /\ lock' = [lock EXCEPT ![r] = j]
  BY DEF LeaveRoom
<1>2. r \in Room
  BY DEF CurrentRooms, At_
<1>3. PICK nj : nj = [Idle EXCEPT !.at = "remove", !.user = u, !.room = r]
  OBVIOUS
<1>4. nj \in Jobs /\ nj.at = "remove" /\ nj.user = u /\ nj.room = r
  BY <1>2, <1>3, IdleType DEF Jobs, At, Idle
<1>5. job' \in [Job -> Jobs] /\ lock' \in [Room -> Job \cup {NoJob}]
  BY <1>1, <1>2, <1>3, <1>4 DEF Typed, TypeOK
<1>6. tables' = tables /\ \A i \in Job : job'[i] = IF i = j THEN nj ELSE job[i]
  BY <1>1, <1>3 DEF LeaveRoom, Typed, TypeOK
<1>7. \A i \in Job : JobTyped(i)'
  BY <1>2, <1>4, <1>6 DEF Typed, JobTyped
<1> QED BY <1>5, <1>7 DEF LeaveRoom, Typed, TypeOK, wallet, store, counts

LEMMA NobodyLeavesTyped ==
  ASSUME Typed, NEW j \in Job, NobodyLeaves(j)
  PROVE  Typed'
<1>1. StoresTyped' /\ tables' = tables /\ Goes(j, Idle, {}, {}, {})
  BY DEF NobodyLeaves, StoresTyped, Typed, TypeOK, wallet, store, counts
<1>2. Ready(Idle)
  BY DEF Ready, Idle, Personal
<1> QED BY <1>1, <1>2, StepTyped, IdleType

\* The table of who leaves is written or dissolved.
LEMMA DepartsTyped ==
  ASSUME Typed, NEW j \in Job, NEW r \in Room, NEW seats \in Seats, NEW U,
         Departs(j, r, seats, U), mishap' \in {"none", "overlap", "deposit", "redis", "crash"},
         UNCHANGED <<chips, store, behind, counts>>, frozen' \in [User -> Nat]
  PROVE  Typed'
<1>1. CASE Players(seats) = {}
  <2>1. PICK nj : /\ nj = [Idle EXCEPT !.at = "delRedis", !.room = r]
                  /\ Goes(j, nj, U, {}, {r})
                  /\ tables' = [tables EXCEPT ![r] = NoSeats]
    BY <1>1 DEF Departs
  <2>2. nj \in Jobs /\ Ready(nj)
    BY <2>1, IdleType DEF Ready, Personal, Jobs, At, Idle
  <2>3. /\ tables' \in [Room -> Seats \cup {NoSeats}]
        /\ \A q \in Room \ {r} : tables[q] # NoSeats => tables'[q] # NoSeats
    BY <2>1 DEF Typed, TypeOK
  <2>4. StoresTyped'
    BY <2>3 DEF StoresTyped, Typed, TypeOK, store, counts
  <2> QED BY <2>1, <2>2, <2>3, <2>4, StepTyped
<1>2. CASE Players(seats) # {}
  <2>1. PICK nj : /\ nj = [Idle EXCEPT !.at = "redis", !.room = r, !.snap = seats]
                  /\ Goes(j, nj, U, {}, {})
                  /\ tables' = [tables EXCEPT ![r] = seats]
    BY <1>2 DEF Departs
  <2>2. nj \in Jobs /\ Ready(nj)
    BY <2>1, IdleType DEF Ready, Personal, Jobs, At, Idle
  <2>3. /\ tables' \in [Room -> Seats \cup {NoSeats}]
        /\ \A q \in Room : tables[q] # NoSeats => tables'[q] # NoSeats
    BY <2>1, IdleType DEF Typed, TypeOK
  <2>4. StoresTyped'
    BY <2>3 DEF StoresTyped, Typed, TypeOK, store, counts
  <2> QED BY <2>1, <2>2, <2>3, <2>4, StepTyped
<1> QED BY <1>1, <1>2

LEMMA RemoveTyped ==
  ASSUME Typed, NEW j \in Job, Remove(j)
  PROVE  Typed'
<1>1. PICK old, u : old = job[j] /\ u = old.user
  OBVIOUS
<1>2. old \in Jobs /\ u \in User
  BY <1>1 DEF Typed, TypeOK, JobTyped, Personal, Remove
<1>3. PICK r \in CurrentRooms(u) :
        LET seats == GetTable(r)
        IN  IF u \in Players(seats)
            THEN /\ tables' = [tables EXCEPT ![r] = [seats EXCEPT ![u] = NoSeat]]
                 /\ Goes(j, [To(j, "credit") EXCEPT !.room = r, !.amount = seats[u]],
                         {u}, {r}, {})
            ELSE Departs(j, r, seats, {})
  BY <1>1 DEF Remove
<1>4. r \in Room /\ GetTable(r) \in Seats
  BY GetTableType DEF CurrentRooms, At_
<1>5. PICK seats \in Seats : seats = GetTable(r)
  BY <1>4
<1>6. mishap' \in {"none", "overlap", "deposit", "redis", "crash"}
  BY DEF Remove, Mishap, Typed, TypeOK
<1>7. CASE u \in Players(seats)
  <2>1. PICK new, n : new = [seats EXCEPT ![u] = NoSeat] /\ n = seats[u]
    OBVIOUS
  <2>2. new \in Seats /\ n \in Nat
    BY <1>2, <1>5, <1>7, <2>1 DEF Players, Seats
  <2>3. PICK nj : /\ nj = [[old EXCEPT !.at = "credit"] EXCEPT !.room = r, !.amount = n]
                  /\ Goes(j, nj, {u}, {r}, {})
                  /\ tables' = [tables EXCEPT ![r] = new]
    BY <1>1, <1>3, <1>5, <1>7, <2>1 DEF To
  <2>4. nj \in Jobs /\ Ready(nj)
    BY <1>1, <1>2, <1>4, <2>2, <2>3 DEF Ready, Personal, Jobs, At
  <2>5. /\ tables' \in [Room -> Seats \cup {NoSeats}]
        /\ \A q \in Room : tables[q] # NoSeats => tables'[q] # NoSeats
    BY <1>4, <2>2, <2>3, IdleType DEF Typed, TypeOK
  <2>6. StoresTyped'
    BY <1>6, <2>5 DEF Remove, StoresTyped, Typed, TypeOK, wallet, store, counts
  <2> QED BY <2>3, <2>4, <2>5, <2>6, StepTyped
<1>8. CASE u \notin Players(seats)
  <2>1. Departs(j, r, seats, {})
    BY <1>3, <1>5, <1>8
  <2>2. UNCHANGED <<chips, store, behind, counts>> /\ frozen' \in [User -> Nat]
    BY DEF Remove, wallet, Typed, TypeOK
  <2> QED BY <1>4, <1>6, <2>1, <2>2, DepartsTyped
<1> QED BY <1>7, <1>8

LEMMA CreditTyped ==
  ASSUME Typed, NEW j \in Job, Credit(j)
  PROVE  Typed'
<1>1. PICK old : old = job[j]
  OBVIOUS
<1>2. old \in Jobs /\ old.at = "credit" /\ old.user \in User /\ old.room \in Room
      /\ old.amount \in Nat
  BY <1>1 DEF Typed, TypeOK, JobTyped, Personal, Credit, Jobs
<1>3. PICK nj : nj = [old EXCEPT !.at = "unfreeze"] /\ Goes(j, nj, {old.user}, {}, {})
  BY <1>1 DEF Credit, To
<1>4. nj \in Jobs /\ Ready(nj)
  BY <1>2, <1>3 DEF Ready, Personal, Jobs, At
<1>5. chips' \in [User -> Nat]
  BY <1>1, <1>2 DEF Credit, Typed, TypeOK
<1>6. mishap' \in {"none", "overlap", "deposit", "redis", "crash"}
  BY DEF Credit, Mishap, Typed, TypeOK
<1>7. StoresTyped' /\ tables' = tables
  BY <1>5, <1>6 DEF StoresTyped, Credit, Typed, TypeOK, store, counts
<1> QED BY <1>3, <1>4, <1>7, StepTyped

LEMMA UnfreezeTyped ==
  ASSUME Typed, NEW j \in Job, Unfreeze(j)
  PROVE  Typed'
<1>1. PICK u, r : u = job[j].user /\ r = job[j].room
  OBVIOUS
<1>2. u \in User /\ r \in Room
  BY <1>1 DEF Typed, JobTyped, Personal, Unfreeze
<1>3. frozen' \in [User -> Nat]
  BY <1>1, <1>2 DEF Unfreeze, Typed, TypeOK
<1>4. mishap' \in {"none", "overlap", "deposit", "redis", "crash"}
  BY DEF Unfreeze, Mishap, Typed, TypeOK
<1>5. CASE tables[r] = NoSeats
  <2>1. StoresTyped' /\ tables' = tables /\ Goes(j, Idle, {u}, {}, {})
    BY <1>1, <1>3, <1>4, <1>5 DEF Unfreeze, StoresTyped, Typed, TypeOK, store, counts
  <2>2. Ready(Idle)
    BY DEF Ready, Idle, Personal
  <2> QED BY <2>1, <2>2, StepTyped, IdleType
<1>6. CASE tables[r] # NoSeats
  <2>1. PICK seats \in Seats : seats = tables[r]
    BY <1>2, <1>6, GetTableType
  <2>2. Departs(j, r, seats, {u}) /\ UNCHANGED <<chips, store, behind, counts>>
    BY <1>1, <1>6, <2>1 DEF Unfreeze
  <2> QED BY <1>2, <1>3, <1>4, <2>2, DepartsTyped
<1> QED BY <1>5, <1>6

LEMMA DeleteTyped ==
  ASSUME Typed, NEW j \in Job, DelRedis(j) \/ DelSqlite(j) \/ DelRoom(j)
  PROVE  Typed'
<1>1. PICK old : old = job[j]
  OBVIOUS
<1>2. old \in Jobs /\ old.room \in Room
  BY <1>1 DEF Typed, TypeOK, JobTyped, DelRedis, DelSqlite, DelRoom
<1>3. PICK nj : /\ \/ nj = [old EXCEPT !.at = "delSqlite"]
                   \/ nj = [old EXCEPT !.at = "delRoom"]
                   \/ nj = Idle
                /\ Goes(j, nj, {}, {}, {})
  BY <1>1 DEF DelRedis, DelSqlite, DelRoom, To
<1>4. nj \in Jobs /\ Ready(nj)
  BY <1>2, <1>3, IdleType DEF Ready, Personal, Jobs, At, Idle
<1>5. CASE DelRedis(j)
  <2>1. redis' \in [Room -> Seats \cup {NoSeats}] /\ misses' \in 0 .. MaxMisses
        /\ mishap' \in {"none", "overlap", "deposit", "redis", "crash"}
    BY <1>5, BoundAssumption DEF DelRedis, Typed, TypeOK, Mishap
  <2>2. StoresTyped' /\ tables' = tables
    BY <1>5, <2>1 DEF DelRedis, StoresTyped, Typed, TypeOK, wallet
  <2> QED BY <1>3, <1>4, <2>2, StepTyped
<1>6. CASE DelSqlite(j)
  <2>1. sqlite' \in [Room -> Seats \cup {NoSeats}] /\ behind' \in [Room -> SUBSET Store]
    BY <1>6 DEF DelSqlite, Typed, TypeOK
  <2>2. StoresTyped' /\ tables' = tables
    BY <1>6, <2>1 DEF DelSqlite, StoresTyped, Typed, TypeOK, wallet, counts
  <2> QED BY <1>3, <1>4, <2>2, StepTyped
<1>7. CASE DelRoom(j)
  <2>1. open' \subseteq Room
    BY <1>7 DEF DelRoom, Typed, TypeOK
  <2>2. StoresTyped' /\ tables' = tables
    BY <1>7, <2>1 DEF DelRoom, StoresTyped, Typed, TypeOK, wallet, counts
  <2> QED BY <1>3, <1>4, <2>2, StepTyped
<1> QED BY <1>5, <1>6, <1>7

LEMMA TradeTyped ==
  ASSUME Typed, NEW u \in User, Trade(u)
  PROVE  Typed'
<1>1. ASSUME NEW i \in Job
      PROVE  job'[i] \in Jobs /\ Same(job[i], job'[i]) /\ job'[i].orphan = job[i].orphan
  <2>1. PICK old : old = job[i]
    OBVIOUS
  <2>2. PICK stale \in BOOLEAN : stale = (job[i].stale \/ (u \in Holds(i) /\ job[i].at = "sit"))
    OBVIOUS
  <2>3. job'[i] = [job[i] EXCEPT !.stale = @ \/ (u \in Holds(i) /\ job[i].at = "sit")]
    BY DEF Trade
  <2>4. job'[i] = [old EXCEPT !.stale = stale] /\ old \in Jobs
    <3>1. old \in Jobs
      BY <2>1 DEF Typed, TypeOK
    <3>2. job'[i] = [old EXCEPT !.stale = stale]
      BY <2>1, <2>2, <2>3, Zenon
    <3> QED BY <3>1, <3>2
  <2> QED BY <2>1, <2>4 DEF Jobs, Same
<1>2. job' \in [Job -> Jobs]
  BY <1>1 DEF Trade
<1>3. tables' = tables
  BY DEF Trade, store
<1>4. \A i \in Job : JobTyped(i)'
  BY <1>1, <1>3 DEF Typed, JobTyped, Same
<1>5. chips' \in [User -> Nat]
  <2>1. chips[u] \in Nat /\ frozen[u] \in Nat
    BY DEF Typed, TypeOK
  <2>2. Available(u) > 0 => chips[u] - 1 \in Nat
    BY <2>1 DEF Available
  <2> QED BY <2>1, <2>2 DEF Trade, Typed, TypeOK
<1>6. trades' \in 0 .. MaxTrades
  BY BoundAssumption DEF Trade, Typed, TypeOK
<1>7. mishap' \in {"none", "overlap", "deposit", "redis", "crash"}
  BY DEF Trade, Mishap, Typed, TypeOK
<1> QED BY <1>2, <1>3, <1>4, <1>5, <1>6, <1>7 DEF Trade, Typed, TypeOK, store

LEMMA CrashTyped ==
  ASSUME Typed, Crash
  PROVE  Typed'
<1>1. job' \in [Job -> Jobs] /\ \A i \in Job : job'[i] = Idle
  BY IdleType DEF Crash
<1>2. \A i \in Job : JobTyped(i)'
  BY <1>1 DEF JobTyped, Idle, Personal
<1>3. mishap' \in {"none", "overlap", "deposit", "redis", "crash"}
  BY DEF Crash, Mishap, Typed, TypeOK
<1>4. crashes' \in 0 .. MaxCrashes
  BY BoundAssumption DEF Crash, Typed, TypeOK
<1> QED BY <1>1, <1>2, <1>3, <1>4 DEF Crash, Typed, TypeOK, wallet, store

LEMMA InitTyped == Init => Typed
<1> SUFFICES ASSUME Init PROVE Typed
  OBVIOUS
<1>1. job \in [Job -> Jobs] /\ \A i \in Job : job[i] = Idle
  BY IdleType DEF Init
<1>2. \A i \in Job : JobTyped(i)
  BY <1>1 DEF JobTyped, Idle, Personal
<1>3. chips \in [User -> Nat] /\ frozen \in [User -> Nat] /\ open \subseteq Room
  BY StakesAssumption DEF Init
<1>4. trades \in 0..MaxTrades /\ misses \in 0..MaxMisses /\ crashes \in 0..MaxCrashes
  BY BoundAssumption DEF Init
<1> QED BY <1>1, <1>2, <1>3, <1>4 DEF Init, Typed, TypeOK

LEMMA NextTyped == Typed /\ [Next]_vars => Typed'
<1> SUFFICES ASSUME Typed, [Next]_vars PROVE Typed'
  OBVIOUS
<1>1. CASE UNCHANGED vars
  BY <1>1 DEF Typed, TypeOK, JobTyped, vars, wallet, store, counts
<1>2. CASE \E u \in User : Trade(u)
  BY <1>2, TradeTyped
<1>3. CASE Crash
  BY <1>3, CrashTyped
<1>4. ASSUME NEW j \in Job,
             \/ \E u \in User : LeaveRoom(j, u) \/ \E r \in Room : JoinRoom(j, u, r)
             \/ \E r \in Room : Play(j, r)
      PROVE  Typed'
  BY <1>4, LeaveRoomTyped, JoinRoomTyped, PlayTyped
<1>5. ASSUME NEW j \in Job,
             \/ Balance(j) \/ Sit(j) \/ Freeze(j)
             \/ Redis(j) \/ Sqlite(j) \/ Wallet(j)
             \/ NobodyLeaves(j) \/ Remove(j) \/ Credit(j) \/ Unfreeze(j)
             \/ DelRedis(j) \/ DelSqlite(j) \/ DelRoom(j)
      PROVE  Typed'
  BY <1>5, BalanceTyped, SitTyped, FreezeTyped, RedisTyped, SqliteTyped, WalletTyped,
     NobodyLeavesTyped, RemoveTyped, CreditTyped, UnfreezeTyped, DeleteTyped
<1> QED BY <1>1, <1>2, <1>3, <1>4, <1>5 DEF Next

----------------------------------------------------------------------------
(* What one step of a job leaves as it was *)

\* Job j, as nj, moves the chips of U alone, and of nobody whose chips another call
\* moves.  Outside U the wallets are as they were and everybody sits where he sat; the
\* tables outside R are as they were, or dissolved when empty; whoever has left his
\* chair had no call that writes his wallet.
Frame(j, nj, U, R, G) ==
  /\ Moves(j, nj, U, R, G)
  /\ job[j].at \in Movers => job[j].user \in U
  /\ nj.at \in Movers =>
       nj.user \in U /\ \A i \in Job \ {j} : job[i].at \in Movers => job[i].user # nj.user
  /\ \A u \in User \ U :
       chips'[u] = chips[u] /\ frozen'[u] = frozen[u] /\ (Seated(u)' <=> Seated(u))
  /\ \A q \in Room : tables'[q] = tables[q] \/ q \in R \/ tables[q] \in {Empty, NoSeats}
  /\ \A u \in User : \/ Writers(u) = {}
                     \/ \A q \in Room : tables[q] # NoSeats /\ tables[q][u] # NoSeat =>
                                          tables'[q] # NoSeats /\ tables'[q][u] # NoSeat

LEMMA MoverKept ==
  ASSUME Typed, NEW j \in Job, NEW nj \in Jobs, NEW U, NEW R, NEW G, Frame(j, nj, U, R, G),
         NEW u \in User \ U
  PROVE  (Leaving(u)' <=> Leaving(u)) /\ (Freezing(u)' <=> Freezing(u))
<1>1. /\ \A i \in Job \ {j} : job'[i].at = job[i].at /\ job'[i].user = job[i].user
      /\ job'[j] = nj
      /\ job[j].user = u => job[j].at \notin Movers
      /\ nj.user = u => nj.at \notin Movers
  BY DEF Frame, Moves, Same
<1>2. Leaving(u)' <=> Leaving(u)
  BY <1>1 DEF Leaving, Movers
<1>3. Freezing(u)' <=> Freezing(u)
  BY <1>1 DEF Freezing, Movers
<1> QED BY <1>2, <1>3

LEMMA CallsKept ==
  ASSUME Typed, \A i \in Job : CallRight(i),
         NEW j \in Job, NEW nj \in Jobs, NEW U, NEW R, NEW G, Frame(j, nj, U, R, G)
  PROVE  \A i \in Job \ {j} : CallRight(i)'
<1> SUFFICES ASSUME NEW i \in Job \ {j} PROVE CallRight(i)'
  OBVIOUS
<1>1. /\ Same(job[i], job'[i]) /\ job[i] \in Jobs
      /\ ~job'[i].stale => /\ ~job[i].stale
                           /\ Holds(i) \cap U = {}
                           /\ job[i].at \in {"redis", "sqlite"} => job[i].room \notin R
  BY DEF Frame, Moves, Typed, TypeOK
<1>2. CallRight(i) /\ JobTyped(i)
  BY DEF Typed
<1>3. \A u : u = job'[i].user =>
         (job'[i].at \in {"balance", "sit"} /\ ~job'[i].stale /\ ~job'[i].seated =>
           /\ ~Seated(u)'
           /\ job'[i].at = "sit" => job'[i].amount = chips'[u] \/ Leaving(u)')
  <2> SUFFICES ASSUME NEW u, u = job'[i].user,
                      job'[i].at \in {"balance", "sit"}, ~job'[i].stale, ~job'[i].seated
               PROVE  /\ ~Seated(u)'
                      /\ job'[i].at = "sit" => job'[i].amount = chips'[u] \/ Leaving(u)'
    OBVIOUS
  <2>1. u = job[i].user
    BY <1>1 DEF Same
  <2>2. job'[i].user = u /\ job'[i].at = job[i].at /\ job'[i].amount = job[i].amount
        /\ job[i].seated = job'[i].seated
    BY <1>1, <2>1 DEF Same
  <2>3. u \in User \ U
    BY <1>1, <1>2, <2>1, <2>2 DEF Holds, JobTyped, Personal
  <2>4. chips'[u] = chips[u] /\ (Seated(u)' <=> Seated(u)) /\ (Leaving(u)' <=> Leaving(u))
    BY <2>3, MoverKept DEF Frame
  <2>5. ~Seated(u) /\ (job[i].at = "sit" => job[i].amount = chips[u] \/ Leaving(u))
    BY <1>1, <1>2, <2>1, <2>2 DEF CallRight
  <2> QED BY <2>2, <2>4, <2>5
<1>4. job'[i].at = "freeze" =>
         /\ tables'[job'[i].room] # NoSeats
         /\ tables'[job'[i].room][job'[i].user] # NoSeat
         /\ ~job'[i].stale => chips'[job'[i].user] = job'[i].amount
  <2> SUFFICES ASSUME job'[i].at = "freeze"
               PROVE  /\ tables'[job'[i].room] # NoSeats
                      /\ tables'[job'[i].room][job'[i].user] # NoSeat
                      /\ ~job'[i].stale => chips'[job'[i].user] = job'[i].amount
    OBVIOUS
  <2>1. PICK u, r : u = job[i].user /\ r = job[i].room
    OBVIOUS
  <2>2. /\ job'[i].user = u /\ job'[i].room = r /\ job[i].at = "freeze"
        /\ job'[i].amount = job[i].amount
    BY <1>1, <2>1 DEF Same
  <2>3. u \in User /\ r \in Room /\ i \in Writers(u)
    BY <1>2, <2>1, <2>2 DEF JobTyped, Personal, Writers, Holds
  <2>4. tables[r] # NoSeats /\ tables[r][u] # NoSeat /\ (~job[i].stale => chips[u] = job[i].amount)
    BY <1>2, <2>1, <2>2 DEF CallRight
  <2>5. tables'[r] # NoSeats /\ tables'[r][u] # NoSeat
    BY <2>3, <2>4 DEF Frame
  <2>6. ~job'[i].stale => ~job[i].stale /\ chips'[u] = chips[u]
    BY <1>1, <2>1, <2>2, <2>3 DEF Holds, Frame
  <2> QED BY <2>2, <2>4, <2>5, <2>6
<1>5. job'[i].at \in {"redis", "sqlite"} =>
         /\ job'[i].snap # Empty
         /\ ~job'[i].stale => tables'[job'[i].room] = job'[i].snap
  <2> SUFFICES ASSUME job'[i].at \in {"redis", "sqlite"}
               PROVE  /\ job'[i].snap # Empty
                      /\ ~job'[i].stale => tables'[job'[i].room] = job'[i].snap
    OBVIOUS
  <2>1. PICK r, s : r = job[i].room /\ s = job[i].snap
    OBVIOUS
  <2>2. job'[i].snap = s /\ job'[i].room = r /\ job[i].at \in {"redis", "sqlite"}
    BY <1>1, <2>1 DEF Same
  <2>3. r \in Room /\ s # NoSeats /\ s # Empty /\ (~job[i].stale => tables[r] = s)
    BY <1>1, <1>2, <2>1, <2>2, IdleType DEF JobTyped, CallRight, Jobs
  <2>4. ~job'[i].stale => ~job[i].stale /\ r \notin R
    BY <1>1, <2>1, <2>2
  <2>5. tables'[r] = tables[r] \/ r \in R \/ tables[r] \in {Empty, NoSeats}
    BY <2>3 DEF Frame
  <2> QED BY <2>2, <2>3, <2>4, <2>5
<1>6. job'[i].at = "wallet" /\ ~job'[i].stale =>
         \A u \in User : job'[i].snap[u] # NoSeat => Seated(u)'
  <2> SUFFICES ASSUME job'[i].at = "wallet", ~job'[i].stale, NEW u \in User,
                      job'[i].snap[u] # NoSeat
               PROVE  Seated(u)'
    OBVIOUS
  <2>1. job[i].at = "wallet" /\ ~job[i].stale /\ job[i].snap[u] # NoSeat
        /\ Holds(i) \cap U = {}
    BY <1>1 DEF Same
  <2>2. u \in Holds(i) /\ Seated(u)
    BY <1>2, <2>1 DEF Holds, Players, CallRight
  <2>3. u \in User \ U
    BY <2>1, <2>2
  <2> QED BY <2>2, <2>3 DEF Frame
<1> QED BY <1>3, <1>4, <1>5, <1>6 DEF CallRight

LEMMA WalletsKept ==
  ASSUME Typed, \A u \in User : WalletRight(u),
         NEW j \in Job, NEW nj \in Jobs, NEW U, NEW R, NEW G, Frame(j, nj, U, R, G)
  PROVE  \A u \in User \ U : WalletRight(u)'
<1> SUFFICES ASSUME NEW u \in User \ U PROVE WalletRight(u)'
  OBVIOUS
<1>1. (Leaving(u)' <=> Leaving(u)) /\ (Freezing(u)' <=> Freezing(u))
  BY MoverKept
<1>2. chips'[u] = chips[u] /\ frozen'[u] = frozen[u] /\ (Seated(u)' <=> Seated(u))
  BY DEF Frame
<1> QED BY <1>1, <1>2 DEF WalletRight

LEMMA OneMoverKept ==
  ASSUME OneMover, NEW j \in Job, NEW nj \in Jobs, NEW U, NEW R, NEW G, Frame(j, nj, U, R, G)
  PROVE  OneMover'
<1>1. /\ \A i \in Job \ {j} : job'[i].at = job[i].at /\ job'[i].user = job[i].user
      /\ job'[j] = nj
      /\ nj.at \in Movers => \A i \in Job \ {j} : job[i].at \in Movers => job[i].user # nj.user
  BY DEF Frame, Moves, Same
<1> QED BY <1>1 DEF OneMover

\* The chips of who sits nowhere.
Crediting(u) == {i \in Job : job[i].user = u /\ job[i].at = "credit"}
Purse(u) == IF Crediting(u) # {} THEN job[CHOOSE i \in Crediting(u) : TRUE].amount ELSE chips[u]

\* u stays where he is, with what he has.
Keeps(u) ==
  /\ \A r \in Room : (Books(r)[u])' = Books(r)[u]
  /\ Seated(u) \/ Purse(u)' = Purse(u)

Stands == \A u \in User : Keeps(u)

LEMMA PurseKept ==
  ASSUME NEW j \in Job, NEW nj \in Jobs, NEW U, NEW R, NEW G, Frame(j, nj, U, R, G),
         NEW u \in User \ U
  PROVE  Purse(u)' = Purse(u)
<1>1. /\ \A i \in Job \ {j} : /\ job'[i].at = job[i].at /\ job'[i].user = job[i].user
                              /\ job'[i].amount = job[i].amount
      /\ job'[j] = nj
      /\ job[j].user = u => job[j].at \notin Movers
      /\ nj.user = u => nj.at \notin Movers
      /\ chips'[u] = chips[u]
  BY DEF Frame, Moves, Same
<1>2. Crediting(u)' = Crediting(u) /\ j \notin Crediting(u)
  BY <1>1 DEF Crediting, Movers
<1>3. CASE Crediting(u) = {}
  BY <1>1, <1>2, <1>3 DEF Purse
<1>4. CASE Crediting(u) # {}
  <2>1. PICK c \in Crediting(u) : c = CHOOSE i \in Crediting(u) : TRUE
    BY <1>4
  <2>2. c \in Job \ {j}
    BY <1>2 DEF Crediting
  <2>3. Purse(u) = job[c].amount
    BY <1>4, <2>1 DEF Purse
  <2>4. Purse(u)' = job'[c].amount
    BY <1>2, <1>4, <2>1 DEF Purse
  <2> QED BY <1>1, <2>2, <2>3, <2>4
<1> QED BY <1>3, <1>4

\* Without a call that credits him, or with one only.
LEMMA PurseIs ==
  ASSUME NEW u
  PROVE  /\ Crediting(u) = {} => Purse(u) = chips[u]
         /\ \A i : Crediting(u) = {i} => Purse(u) = job[i].amount
<1>1. ASSUME NEW i, Crediting(u) = {i} PROVE Purse(u) = job[i].amount
  <2>1. (CHOOSE k \in Crediting(u) : TRUE) = i
    BY <1>1
  <2> QED BY <1>1, <2>1 DEF Purse
<1> QED BY <1>1 DEF Purse

LEMMA PurseAfter ==
  ASSUME NEW u
  PROVE  /\ Crediting(u)' = {} => Purse(u)' = chips'[u]
         /\ \A i : Crediting(u)' = {i} => Purse(u)' = job'[i].amount
<1>1. ASSUME NEW i, Crediting(u)' = {i} PROVE Purse(u)' = job'[i].amount
  <2>1. (CHOOSE k \in Crediting(u)' : TRUE) = i
    BY <1>1
  <2> QED BY <1>1, <2>1 DEF Purse
<1> QED BY <1>1 DEF Purse

LEMMA AllStand ==
  ASSUME NEW j \in Job, NEW nj \in Jobs, NEW U, NEW R, NEW G, Frame(j, nj, U, R, G),
         \A r \in Room : Books(r)' = Books(r),
         \A u \in User : u \in U => Seated(u) \/ Purse(u)' = Purse(u)
  PROVE  Stands
<1> SUFFICES ASSUME NEW u \in User PROVE Keeps(u)
  BY DEF Stands
<1>1. Seated(u) \/ Purse(u)' = Purse(u)
  BY PurseKept
<1> QED BY <1>1 DEF Keeps

----------------------------------------------------------------------------
(* What one step of a job does to the books *)

LEMMA BooksCases ==
  ASSUME NEW r \in Room
  PROVE  /\ tables[r] # NoSeats => Books(r) = tables[r]
         /\ tables[r] = NoSeats /\ Dissolving(r) => Books(r) = Empty
         /\ tables[r] = NoSeats /\ ~Dissolving(r) => Books(r) = Recovered(r)
BY DEF Books

LEMMA BooksAfter ==
  ASSUME NEW r \in Room
  PROVE  /\ tables'[r] # NoSeats => Books(r)' = tables'[r]
         /\ tables'[r] = NoSeats /\ Dissolving(r)' => Books(r)' = Empty
         /\ tables'[r] = NoSeats /\ ~Dissolving(r)' => Books(r)' = Recovered(r)'
BY DEF Books

LEMMA BooksType ==
  ASSUME Typed, NEW r \in Room
  PROVE  Books(r) \in Seats
BY BooksCases, GetTableType, IdleType

\* A table that is not in memory, and not dissolved, is as its snapshots say.
LEMMA OnDiskAgree ==
  ASSUME OnDisk, NEW r \in Room, tables[r] = NoSeats, ~Dissolving(r)
  PROVE  Books(r) = Seating(sqlite[r]) /\ Recovered(r) = Seating(sqlite[r])
BY BooksCases DEF OnDisk, Recovered, Seating

LEMMA DissolvingAfter ==
  ASSUME NEW j \in Job, NEW nj, NEW U, NEW R, NEW G, Moves(j, nj, U, R, G), NEW r \in Room
  PROVE  Dissolving(r)' <=> \/ nj.room = r /\ nj.at \in Deleting
                            \/ \E i \in Job \ {j} : job[i].room = r /\ job[i].at \in Deleting
BY DEF Dissolving, Moves, Same, Deleting

LEMMA DissolvingKept ==
  ASSUME NEW j \in Job, NEW nj, NEW U, NEW R, NEW G, Moves(j, nj, U, R, G),
         job[j].at \notin Deleting, nj.at \notin Deleting, NEW r \in Room
  PROVE  Dissolving(r)' <=> Dissolving(r)
BY DissolvingAfter DEF Dissolving, Deleting

LEMMA BooksKept ==
  ASSUME NEW r \in Room, tables'[r] = tables[r],
         \/ tables[r] # NoSeats
         \/ redis'[r] = redis[r] /\ sqlite'[r] = sqlite[r] /\ (Dissolving(r)' <=> Dissolving(r))
  PROVE  Books(r)' = Books(r)
BY BooksCases, BooksAfter DEF Recovered

\* A table that has been recovered.
LEMMA BooksRecovered ==
  ASSUME NEW r \in Room, tables[r] # NoSeats \/ ~Dissolving(r)
  PROVE  Books(r) = GetTable(r)
BY BooksCases DEF GetTable

LEMMA SeatedKept ==
  ASSUME NEW u, \A r \in Room : (Books(r)[u])' = Books(r)[u]
  PROVE  Seated(u)' <=> Seated(u)
BY DEF Seated

LEMMA OneSeatKept ==
  ASSUME OneSeat, NEW w, NEW s,
         \A r \in Room : \A u \in User :
           (Books(r)[u])' = NoSeat \/ Books(r)[u] # NoSeat \/ (r = s /\ u = w /\ ~Seated(w))
  PROVE  OneSeat'
<1>1. SUFFICES ASSUME NEW u \in User, NEW r \in Room, NEW q \in Room,
                      (Books(r)[u])' # NoSeat, (Books(q)[u])' # NoSeat
               PROVE  r = q
  BY DEF OneSeat
<1>2. CASE Books(r)[u] # NoSeat /\ Books(q)[u] # NoSeat
  BY <1>2 DEF OneSeat
<1>3. CASE Books(r)[u] = NoSeat
  <2>1. r = s /\ u = w /\ ~Seated(w)
    BY <1>1, <1>3
  <2>2. Books(q)[u] = NoSeat
    BY <2>1 DEF Seated
  <2> QED BY <1>1, <2>1, <2>2
<1>4. CASE Books(q)[u] = NoSeat
  <2>1. q = s /\ u = w /\ ~Seated(w)
    BY <1>1, <1>4
  <2>2. Books(r)[u] = NoSeat
    BY <2>1 DEF Seated
  <2> QED BY <1>1, <2>1, <2>2
<1> QED BY <1>2, <1>3, <1>4

----------------------------------------------------------------------------
(* What one step of a job does to the snapshots *)

LEMMA InMemoryKept ==
  ASSUME InMemory, OnDisk, NEW j \in Job, NEW nj, NEW U, NEW R, NEW G, Moves(j, nj, U, R, G),
         crashes' = crashes,
         \A r \in Room : tables'[r] # NoSeats =>
           \/ InStep(r)'
           \/ nj.room = r /\ nj.at \in {"freeze", "credit", "unfreeze", "redis"}
           \/ /\ redis'[r] = redis[r] /\ sqlite'[r] = sqlite[r] /\ behind'[r] = behind[r]
              /\ \/ /\ tables'[r] = tables[r]
                    /\ job[j].at \in {"freeze", "credit", "unfreeze", "redis", "sqlite"} =>
                         job[j].room # r
                 \/ tables[r] = NoSeats /\ ~Dissolving(r) /\ tables'[r] = Recovered(r)
  PROVE  InMemory'
<1>1. SUFFICES ASSUME NEW r \in Room, tables'[r] # NoSeats, crashes' < MaxCrashes
               PROVE  InStep(r)'
  BY DEF InMemory
<1>2. \A i \in Job \ {j} : job'[i].at = job[i].at /\ job'[i].room = job[i].room
  BY DEF Moves, Same
<1>3. job'[j] = nj
  BY DEF Moves
<1>4. CASE nj.room = r /\ nj.at \in {"freeze", "credit", "unfreeze", "redis"}
  BY <1>3, <1>4 DEF InStep, Awaited
<1>5. ASSUME redis'[r] = redis[r], sqlite'[r] = sqlite[r], behind'[r] = behind[r],
             tables'[r] = tables[r],
             job[j].at \in {"freeze", "credit", "unfreeze", "redis", "sqlite"} => job[j].room # r
      PROVE  InStep(r)'
  <2>1. /\ Awaited(r, {"freeze", "credit", "unfreeze", "redis", "sqlite"}) =>
             Awaited(r, {"freeze", "credit", "unfreeze", "redis", "sqlite"})'
        /\ Awaited(r, {"freeze", "credit", "unfreeze", "redis"}) =>
             Awaited(r, {"freeze", "credit", "unfreeze", "redis"})'
    BY <1>2, <1>5 DEF Awaited
  <2>2. InStep(r)
    BY <1>1, <1>5 DEF InMemory
  <2> QED BY <1>5, <2>1, <2>2 DEF InStep, Seating
<1>6. CASE /\ redis'[r] = redis[r] /\ sqlite'[r] = sqlite[r]
           /\ tables[r] = NoSeats /\ ~Dissolving(r) /\ tables'[r] = Recovered(r)
  BY <1>6, OnDiskAgree DEF OnDisk, InStep, Seating
<1> QED BY <1>1, <1>4, <1>5, <1>6

LEMMA OnDiskKept ==
  ASSUME OnDisk, OneSeat', NEW j \in Job, NEW nj, NEW U, NEW R, NEW G, Moves(j, nj, U, R, G),
         \A r \in Room : tables'[r] = NoSeats /\ ~Dissolving(r)' =>
           \/ /\ tables[r] = NoSeats /\ ~Dissolving(r)
              /\ redis'[r] = redis[r] /\ sqlite'[r] = sqlite[r]
           \/ redis'[r] = NoSeats /\ sqlite'[r] = NoSeats,
         \A q \in Room : \/ sqlite'[q] \in {sqlite[q], NoSeats}
                         \/ job[j].at = "sqlite" /\ job[j].room = q /\ sqlite'[q] = job[j].snap,
         job[j].snap # NoSeats,
         nj.at \in {"redis", "sqlite"} =>
           /\ nj.room \in Room
           /\ \/ tables'[nj.room] = nj.snap /\ nj.snap # NoSeats
              \/ job[j].at \in {"redis", "sqlite"} /\ nj.room = job[j].room /\ nj.snap = job[j].snap
  PROVE  OnDisk'
<1> SUFFICES ASSUME NEW r \in Room, tables'[r] = NoSeats, ~Dissolving(r)'
             PROVE  /\ redis'[r] # NoSeats => redis'[r] = Seating(sqlite'[r])
                    /\ \A u \in User : Seating(sqlite'[r])[u] # NoSeat =>
                         /\ \A q \in Room \ {r} : Seating(sqlite'[q])[u] = NoSeat
                         /\ \A i \in Job : job'[i].at \in {"redis", "sqlite"} /\ job'[i].room # r =>
                              job'[i].snap[u] = NoSeat
  BY DEF OnDisk, Seating
<1>1. CASE redis'[r] = NoSeats /\ sqlite'[r] = NoSeats
  BY <1>1 DEF Seating, Empty
<1>2. CASE /\ tables[r] = NoSeats /\ ~Dissolving(r)
           /\ redis'[r] = redis[r] /\ sqlite'[r] = sqlite[r]
  <2>1. redis'[r] # NoSeats => redis'[r] = Seating(sqlite'[r])
    BY <1>2 DEF OnDisk, Seating
  <2>2. ASSUME NEW u \in User, Seating(sqlite'[r])[u] # NoSeat
        PROVE  /\ \A q \in Room \ {r} : Seating(sqlite'[q])[u] = NoSeat
               /\ \A i \in Job : job'[i].at \in {"redis", "sqlite"} /\ job'[i].room # r =>
                    job'[i].snap[u] = NoSeat
    <3>1. /\ \A q \in Room \ {r} : Seating(sqlite[q])[u] = NoSeat
          /\ \A i \in Job : job[i].at \in {"redis", "sqlite"} /\ job[i].room # r =>
               job[i].snap[u] = NoSeat
      BY <1>2, <2>2 DEF OnDisk
    <3>2. ASSUME NEW q \in Room \ {r} PROVE Seating(sqlite'[q])[u] = NoSeat
      <4>1. CASE sqlite'[q] = sqlite[q]
        BY <3>1, <4>1
      <4>2. CASE sqlite'[q] = NoSeats
        BY <4>2 DEF Seating, Empty
      <4>3. CASE job[j].at = "sqlite" /\ job[j].room = q /\ sqlite'[q] = job[j].snap
        BY <3>1, <4>3 DEF Seating
      <4> QED BY <4>1, <4>2, <4>3
    <3>3. ASSUME NEW i \in Job \ {j}, job'[i].at \in {"redis", "sqlite"}, job'[i].room # r
          PROVE  job'[i].snap[u] = NoSeat
      BY <3>1, <3>3 DEF Moves, Same
    <3>4. ASSUME nj.at \in {"redis", "sqlite"}, nj.room # r
          PROVE  nj.snap[u] = NoSeat
      <4>1. CASE tables'[nj.room] = nj.snap /\ nj.snap # NoSeats
        <5>1. (Books(nj.room)' = nj.snap) /\ nj.room \in Room
          BY <3>4, <4>1, BooksAfter
        <5>2. Books(r)' = Seating(sqlite'[r])
          BY <2>1, BooksAfter DEF Recovered, Seating
        <5>3. (Books(r)[u])' # NoSeat
          BY <2>2, <5>2
        <5>4. (Books(nj.room)[u])' = NoSeat
          BY <3>4, <5>1, <5>3 DEF OneSeat
        <5> QED BY <5>1, <5>4
      <4>2. CASE /\ job[j].at \in {"redis", "sqlite"} /\ nj.room = job[j].room
                 /\ nj.snap = job[j].snap
        BY <3>1, <3>4, <4>2
      <4> QED BY <3>4, <4>1, <4>2
    <3>5. job'[j] = nj
      BY DEF Moves
    <3> QED BY <3>2, <3>3, <3>4, <3>5
  <2> QED BY <2>1, <2>2
<1> QED BY <1>1, <1>2

----------------------------------------------------------------------------
(* Steps that leave the books as they were *)

\* Nobody comes or goes and nothing is stored; a table may be recovered.  Chips move for
\* U alone.  A call that owes a snapshot of its table goes on to write it.
Quiet(j, nj, U, R, G) ==
  /\ Moves(j, nj, U, R, G)
  /\ UNCHANGED <<redis, sqlite, open, behind, crashes>>
  /\ \A r \in Room : \/ tables'[r] = tables[r]
                     \/ /\ tables[r] = NoSeats /\ ~Dissolving(r) /\ r \in open
                        /\ tables'[r] = Recovered(r)
  /\ job[j].at \notin Deleting \cup {"redis", "sqlite"}
  /\ nj.at \notin Deleting \cup {"sqlite"}
  /\ nj.at = "redis" => tables'[nj.room] = nj.snap /\ nj.snap # NoSeats /\ nj.room \in Room
  /\ job[j].at \in Movers /\ tables[job[j].room] # NoSeats =>
       nj.room = job[j].room /\ nj.at \in Movers \cup {"redis"}
  /\ job[j].at \in Movers => job[j].user \in U
  /\ nj.at \in Movers =>
       nj.user \in U /\ \A i \in Job \ {j} : job[i].at \in Movers => job[i].user # nj.user
  /\ \A u \in User \ U : chips'[u] = chips[u] /\ frozen'[u] = frozen[u]

LEMMA QuietBooks ==
  ASSUME Typed, NEW j \in Job, NEW nj \in Jobs, NEW U, NEW R, NEW G, Quiet(j, nj, U, R, G)
  PROVE  /\ \A r \in Room : Books(r)' = Books(r)
         /\ \A u : Seated(u)' <=> Seated(u)
         /\ Frame(j, nj, U, R, G)
<1>1. \A r \in Room : Dissolving(r)' <=> Dissolving(r)
  BY DissolvingKept DEF Quiet
<1>2. ASSUME NEW r \in Room PROVE Books(r)' = Books(r)
  <2>1. CASE tables'[r] = tables[r]
    BY <1>1, <2>1, BooksKept DEF Quiet
  <2>2. CASE tables[r] = NoSeats /\ ~Dissolving(r) /\ tables'[r] = Recovered(r)
    <3>1. tables'[r] # NoSeats
      BY <2>2, GetTableType, IdleType
    <3> QED BY <2>2, <3>1, BooksCases, BooksAfter
  <2> QED BY <2>1, <2>2 DEF Quiet
<1>3. ASSUME NEW u PROVE Seated(u)' <=> Seated(u)
  BY <1>2, SeatedKept
<1>4. \A q \in Room : tables'[q] = tables[q] \/ tables[q] = NoSeats
  BY DEF Quiet
<1>5. Frame(j, nj, U, R, G)
  BY <1>3, <1>4 DEF Frame, Quiet
<1> QED BY <1>2, <1>3, <1>5

LEMMA QuietSound ==
  ASSUME Typed, Sound, NEW j \in Job, NEW nj \in Jobs, NEW U, NEW R, NEW G,
         Quiet(j, nj, U, R, G), CallRight(j)', \A u \in User : u \in U =>
           WalletRight(u)' /\ (Seated(u) \/ Purse(u)' = Purse(u))
  PROVE  Sound' /\ Stands
<1>1. /\ \A r \in Room : Books(r)' = Books(r)
      /\ Frame(j, nj, U, R, G) /\ Moves(j, nj, U, R, G)
  BY QuietBooks DEF Quiet
<1>2. \A r \in Room : Dissolving(r)' <=> Dissolving(r)
  BY DissolvingKept DEF Quiet
<1>3. \A r \in Room : tables'[r] = NoSeats => tables[r] = NoSeats /\ tables'[r] = tables[r]
  BY GetTableType, IdleType DEF Quiet
<1>4. TablesOpen'
  BY <1>2 DEF TablesOpen, Sound, Quiet
<1>5. Deleted'
  BY <1>1 DEF Deleted, Sound, Quiet, Moves, Same, Deleting
<1>6. OneSeat'
  <2>1. \A r \in Room : \A u \in User : (Books(r)[u])' = NoSeat \/ Books(r)[u] # NoSeat
    BY <1>1
  <2> QED BY <2>1, OneSeatKept DEF Sound
<1>7. OneMover'
  BY <1>1, OneMoverKept DEF Sound
<1>8. InMemory'
  <2>1. \A r \in Room : tables'[r] # NoSeats =>
           \/ nj.room = r /\ nj.at \in {"freeze", "credit", "unfreeze", "redis"}
           \/ /\ redis'[r] = redis[r] /\ sqlite'[r] = sqlite[r] /\ behind'[r] = behind[r]
              /\ \/ /\ tables'[r] = tables[r]
                    /\ job[j].at \in {"freeze", "credit", "unfreeze", "redis", "sqlite"} =>
                         job[j].room # r
                 \/ tables[r] = NoSeats /\ ~Dissolving(r) /\ tables'[r] = Recovered(r)
    BY DEF Quiet, Movers
  <2>2. crashes' = crashes
    BY DEF Quiet
  <2> QED BY <1>1, <2>1, <2>2, InMemoryKept DEF Sound
<1>9. OnDisk'
  <2>1. \A r \in Room : tables'[r] = NoSeats /\ ~Dissolving(r)' =>
           /\ tables[r] = NoSeats /\ ~Dissolving(r)
           /\ redis'[r] = redis[r] /\ sqlite'[r] = sqlite[r]
    BY <1>2, <1>3 DEF Quiet
  <2>2. \A q \in Room : sqlite'[q] \in {sqlite[q], NoSeats}
    BY DEF Quiet
  <2>3. job[j].snap # NoSeats
    BY IdleType DEF Typed, TypeOK, Jobs
  <2>4. nj.at \in {"redis", "sqlite"} =>
          nj.room \in Room /\ tables'[nj.room] = nj.snap /\ nj.snap # NoSeats
    BY DEF Quiet
  <2> QED BY <1>1, <1>6, <2>1, <2>2, <2>3, <2>4, OnDiskKept DEF Sound
<1>10. \A i \in Job : CallRight(i)'
  BY <1>1, CallsKept DEF Sound
<1>11. \A u \in User : WalletRight(u)'
  BY <1>1, WalletsKept DEF Sound
<1>12. Stands
  BY <1>1, AllStand
<1> QED BY <1>4, <1>5, <1>6, <1>7, <1>8, <1>9, <1>10, <1>11, <1>12 DEF Sound

LEMMA IdleRight ==
  ASSUME NEW j \in Job, job'[j] = Idle
  PROVE  CallRight(j)'
BY DEF CallRight, Idle

LEMMA MovesLess ==
  ASSUME NEW j \in Job, NEW nj, NEW U, NEW R, NEW G, Moves(j, nj, U, R, G)
  PROVE  Moves(j, nj, {}, {}, {})
BY DEF Moves

\* Who finds no seat at the table of his room has none.
LEMMA Absent ==
  ASSUME Typed, OnDisk, NEW u \in User, NEW r \in Room,
         CurrentRooms(u) = {} \/ r \in CurrentRooms(u),
         u \notin Players(GetTable(r)), tables[r] # NoSeats \/ ~Dissolving(r)
  PROVE  ~Seated(u)
<1> SUFFICES ASSUME NEW q \in Room, Books(q)[u] # NoSeat PROVE FALSE
  BY DEF Seated
<1>1. CASE tables[q] # NoSeats
  <2>1. q \in At_(tables, u)
    BY <1>1, BooksCases DEF At_, Players
  <2>2. r \in At_(tables, u)
    BY <2>1 DEF CurrentRooms
  <2> QED BY <2>2 DEF At_, GetTable
<1>2. CASE tables[q] = NoSeats /\ Dissolving(q)
  BY <1>2, BooksCases DEF Empty
<1>3. CASE tables[q] = NoSeats /\ ~Dissolving(q)
  <2>1. Seating(sqlite[q])[u] # NoSeat
    BY <1>3, OnDiskAgree
  <2>2. q \in At_(sqlite, u)
    BY <2>1 DEF At_, Players, Seating, Empty
  <2>3. r \in At_(tables, u) \/ r \in At_(sqlite, u)
    BY <2>2 DEF CurrentRooms
  <2>4. r \notin At_(tables, u)
    BY DEF At_, GetTable
  <2>5. Seating(sqlite[r])[u] # NoSeat
    BY <2>3, <2>4 DEF At_, Players, Seating
  <2>6. r = q
    BY <1>3, <2>1, <2>5 DEF OnDisk
  <2>7. GetTable(r) = Seating(sqlite[r])
    BY <1>3, <2>6, OnDiskAgree DEF GetTable
  <2> QED BY <2>5, <2>7 DEF Players
<1> QED BY <1>1, <1>2, <1>3

LEMMA JoinRoomSound ==
  ASSUME Typed, Sound, NEW j \in Job, NEW u \in User, NEW r \in Room, JoinRoom(j, u, r),
         mishap' = "none"
  PROVE  Sound' /\ Stands
<1>1. PICK seated \in BOOLEAN : seated = (u \in Players(GetTable(r)))
  <2>1. (u \in Players(GetTable(r))) \in BOOLEAN
    OBVIOUS
  <2> QED BY <2>1, Zenon
<1>2. PICK nj : nj = [Idle EXCEPT !.at = IF seated THEN "sit" ELSE "balance", !.user = u,
                                  !.room = r, !.seated = seated]
  OBVIOUS
<1>3. /\ nj \in Jobs /\ nj.user = u /\ nj.seated = seated
      /\ nj.at = IF seated THEN "sit" ELSE "balance"
  BY <1>2, IdleType DEF Jobs, Idle, At
<1>4. Goes(j, nj, {}, {}, {})
  BY <1>1, <1>2, Zenon DEF JoinRoom
<1>5. Moves(j, nj, {}, {}, {}) /\ mishap = "none" /\ job[j] = Idle
  BY <1>3, <1>4, GoesMoves DEF JoinRoom
<1>6. tables[r] # NoSeats \/ ~Dissolving(r)
  BY <1>5 DEF JoinRoom, Mishap, Revives
<1>7. Quiet(j, nj, {}, {}, {})
  <2>1. \A q \in Room : \/ tables'[q] = tables[q]
                        \/ /\ tables[q] = NoSeats /\ ~Dissolving(q) /\ q \in open
                           /\ tables'[q] = Recovered(q)
    BY <1>6 DEF JoinRoom, GetTable, CanGet, Typed, TypeOK
  <2>2. UNCHANGED <<redis, sqlite, open, behind, crashes, chips, frozen>>
    BY DEF JoinRoom, wallet, store, counts
  <2> QED BY <1>3, <1>5, <2>1, <2>2 DEF Quiet, Idle, Deleting, Movers
<1>8. CallRight(j)'
  <2>1. job'[j] = nj
    BY <1>5 DEF Moves
  <2>2. ~seated => ~Seated(u)'
    <3>1. ~seated => ~Seated(u)
      BY <1>1, <1>6, Absent DEF JoinRoom, Sound
    <3> QED BY <1>3, <1>7, <3>1, QuietBooks
  <2>3. \A w : w = job'[j].user => (~seated => ~Seated(w)')
    BY <1>3, <2>1, <2>2
  <2> QED BY <1>3, <2>1, <2>3 DEF CallRight
<1> QED BY <1>3, <1>7, <1>8, QuietSound

LEMMA BalanceSound ==
  ASSUME Typed, Sound, NEW j \in Job, Balance(j), mishap' = "none"
  PROVE  Sound' /\ Stands
<1>1. PICK old, u : old = job[j] /\ u = old.user
  OBVIOUS
<1>2. PICK a : a = Available(u)
  OBVIOUS
<1>3. old \in Jobs /\ old.at = "balance" /\ u \in User
  BY <1>1 DEF Typed, TypeOK, JobTyped, Personal, Balance
<1>4. a \in Nat /\ (frozen[u] = 0 => a = chips[u])
  BY <1>2, <1>3 DEF Available, Typed, TypeOK
<1>5. PICK nj : nj = IF a < MinBuyIn THEN Idle ELSE [old EXCEPT !.at = "sit", !.amount = a]
  OBVIOUS
<1>6. nj \in Jobs /\ \/ nj = Idle
                     \/ /\ nj.at = "sit" /\ nj.user = u /\ nj.amount = a
                        /\ nj.stale = old.stale /\ nj.seated = old.seated
  BY <1>1, <1>3, <1>4, <1>5, IdleType DEF Jobs, At
<1>7. Goes(j, nj, {}, {}, {})
  BY <1>1, <1>2, <1>5 DEF Balance, To
<1>8. Moves(j, nj, {}, {}, {})
  BY <1>6, <1>7, GoesMoves
<1>9. Quiet(j, nj, {}, {}, {})
  BY <1>1, <1>3, <1>6, <1>8 DEF Quiet, Balance, Idle, Deleting, Movers, wallet, store, counts
<1>10. CallRight(j)'
  <2>1. job'[j] = nj
    BY <1>8 DEF Moves
  <2>2. CASE nj = Idle
    BY <2>1, <2>2, IdleRight
  <2>3. CASE nj.at = "sit" /\ nj.user = u /\ nj.amount = a
             /\ nj.stale = old.stale /\ nj.seated = old.seated
    <3>1. ~nj.stale /\ ~nj.seated => ~Seated(u)
      BY <1>1, <1>3, <2>3 DEF Sound, CallRight
    <3>2. ~Seated(u) => a = chips[u] \/ Leaving(u)
      BY <1>3, <1>4 DEF Sound, WalletRight, Typed, TypeOK
    <3>3. (Seated(u)' <=> Seated(u)) /\ (Leaving(u)' <=> Leaving(u)) /\ chips' = chips
      BY <1>3, <1>6, <1>9, QuietBooks, MoverKept DEF Balance, wallet
    <3>4. \A w : w = job'[j].user =>
            (~nj.stale /\ ~nj.seated => ~Seated(w)' /\ (a = chips'[w] \/ Leaving(w)'))
      BY <2>1, <2>3, <3>1, <3>2, <3>3
    <3> QED BY <2>1, <2>3, <3>4 DEF CallRight
  <2> QED BY <1>6, <2>2, <2>3
<1> QED BY <1>6, <1>9, <1>10, QuietSound

LEMMA NobodyLeavesSound ==
  ASSUME Typed, Sound, NEW j \in Job, NobodyLeaves(j)
  PROVE  Sound' /\ Stands
<1>1. Moves(j, Idle, {}, {}, {})
  BY IdleType, GoesMoves DEF NobodyLeaves
<1>2. Quiet(j, Idle, {}, {}, {})
  BY <1>1 DEF Quiet, NobodyLeaves, Idle, Deleting, Movers, wallet, store, counts
<1>3. CallRight(j)'
  BY <1>1, IdleRight DEF Moves
<1> QED BY <1>2, <1>3, IdleType, QuietSound

LEMMA LeaveRoomSound ==
  ASSUME Typed, Sound, NEW j \in Job, NEW u \in User, LeaveRoom(j, u)
  PROVE  Sound' /\ Stands
<1>1. PICK r \in CurrentRooms(u) :
        job' = [job EXCEPT ![j] = [Idle EXCEPT !.at = "remove", !.user = u, !.room = r]]
  BY DEF LeaveRoom
<1>2. r \in Room
  BY DEF CurrentRooms, At_
<1>3. PICK nj : nj = [Idle EXCEPT !.at = "remove", !.user = u, !.room = r]
  OBVIOUS
<1>4. nj \in Jobs /\ nj.at = "remove"
  BY <1>2, <1>3, IdleType DEF Jobs, At, Idle
<1>5. Moves(j, nj, {}, {}, {})
  <2>1. \A i \in Job : job'[i] = IF i = j THEN nj ELSE job[i]
    BY <1>1, <1>3 DEF Typed, TypeOK
  <2> QED BY <2>1 DEF Moves, Same
<1>6. Quiet(j, nj, {}, {}, {})
  BY <1>4, <1>5 DEF Quiet, LeaveRoom, Idle, Deleting, Movers, wallet, store, counts
<1>7. CallRight(j)'
  BY <1>4, <1>5 DEF CallRight, Moves
<1> QED BY <1>4, <1>6, <1>7, QuietSound

LEMMA FreezeSound ==
  ASSUME Typed, Sound, NEW j \in Job, Freeze(j), mishap' = "none"
  PROVE  Sound' /\ Stands
<1>1. PICK old, u, r, seats :
        old = job[j] /\ u = old.user /\ r = old.room /\ seats = tables[r]
  OBVIOUS
<1>2. old \in Jobs /\ old.at = "freeze" /\ u \in User /\ r \in Room
  BY <1>1 DEF Typed, TypeOK, JobTyped, Personal, Freeze
<1>3. Goes(j, Persist(j, seats), {u}, {}, {}) /\ mishap = "none"
  BY <1>1 DEF Freeze, Goes, Followed
<1>4. ~old.stale
  BY <1>1, <1>3 DEF Freeze, Mishap
<1>5. seats # NoSeats /\ seats[u] # NoSeat /\ chips[u] = old.amount /\ seats \in Seats
  BY <1>1, <1>2, <1>4, GetTableType DEF Sound, CallRight
<1>6. PICK nj : nj = [Idle EXCEPT !.at = "redis", !.room = r, !.snap = seats]
  OBVIOUS
<1>7. nj \in Jobs /\ nj.at = "redis" /\ nj.room = r /\ nj.snap = seats
  BY <1>2, <1>5, <1>6, IdleType DEF Jobs, At, Idle
<1>8. Moves(j, nj, {u}, {}, {})
  BY <1>1, <1>3, <1>5, <1>6, <1>7, GoesMoves DEF Persist
<1>9. /\ UNCHANGED <<redis, sqlite, open, behind, crashes, tables, chips>>
      /\ frozen'[u] = old.amount /\ \A w \in User \ {u} : frozen'[w] = frozen[w]
  BY <1>1, <1>2 DEF Freeze, store, counts, Typed, TypeOK
<1>10. Quiet(j, nj, {u}, {}, {})
  BY <1>1, <1>2, <1>5, <1>7, <1>8, <1>9 DEF Quiet, Deleting, Movers
<1>11. CallRight(j)'
  BY <1>1, <1>2, <1>5, <1>7, <1>8, <1>9 DEF CallRight, Moves, Empty
<1>12. WalletRight(u)'
  <2>1. \A i \in Job \ {j} : job[i].at \in Movers => job[i].user # u
    BY <1>1, <1>2 DEF Sound, OneMover, Movers
  <2>2. ~Leaving(u)'
    BY <1>7, <1>8, <2>1 DEF Leaving, Moves, Same, Movers
  <2>3. Seated(u)'
    <3>1. Seated(u)
      BY <1>1, <1>2, <1>5, BooksCases DEF Seated
    <3> QED BY <1>7, <1>10, <3>1, QuietBooks
  <2>4. chips'[u] <= frozen'[u]
    BY <1>2, <1>5, <1>9 DEF Typed, TypeOK
  <2> QED BY <2>2, <2>3, <2>4 DEF WalletRight
<1>13. Seated(u)
  BY <1>1, <1>2, <1>5, BooksCases DEF Seated
<1> QED BY <1>7, <1>10, <1>11, <1>12, <1>13, QuietSound

LEMMA WalletSound ==
  ASSUME Typed, Sound, NEW j \in Job, Wallet(j), mishap' = "none"
  PROVE  Sound' /\ Stands
<1>1. PICK snap, paid : snap = job[j].snap /\ paid = Players(snap)
  OBVIOUS
<1>2. snap \in Seats
  BY <1>1 DEF Typed, TypeOK, Jobs
<1>3. Moves(j, Idle, paid, {}, {}) /\ mishap = "none"
  BY <1>1, IdleType, GoesMoves DEF Wallet
<1>4. ~job[j].stale
  BY <1>3 DEF Wallet, Mishap
<1>5. /\ \A u \in User \ paid : chips'[u] = chips[u] /\ frozen'[u] = frozen[u]
      /\ \A u \in paid : chips'[u] = snap[u] /\ frozen'[u] = snap[u] /\ snap[u] \in Nat
  BY <1>1, <1>2 DEF Wallet, Players, Seats
<1>6. Quiet(j, Idle, paid, {}, {})
  BY <1>3, <1>5 DEF Quiet, Wallet, Idle, Deleting, Movers, store, counts
<1>7. CallRight(j)'
  BY <1>3, IdleRight DEF Moves
<1>8. ASSUME NEW u \in User, u \in paid PROVE WalletRight(u)' /\ Seated(u)
  <2>1. Seated(u)
    BY <1>1, <1>4, <1>8 DEF Sound, CallRight, Wallet, Players
  <2>2. Seated(u)'
    BY <1>6, <2>1, IdleType, QuietBooks
  <2>3. ~Leaving(u)'
    <3>1. ~Leaving(u)
      BY <2>1 DEF Sound, WalletRight
    <3> QED BY <1>3, <3>1 DEF Leaving, Moves, Same, Idle
  <2>4. chips'[u] <= frozen'[u]
    BY <1>5, <1>8
  <2> QED BY <2>1, <2>2, <2>3, <2>4 DEF WalletRight
<1> QED BY <1>6, <1>7, <1>8, IdleType, QuietSound

LEMMA CreditSound ==
  ASSUME Typed, Sound, NEW j \in Job, Credit(j), mishap' = "none"
  PROVE  Sound' /\ Stands
<1>1. PICK old, u : old = job[j] /\ u = old.user
  OBVIOUS
<1>2. old \in Jobs /\ old.at = "credit" /\ u \in User /\ old.room \in Room
  BY <1>1 DEF Typed, TypeOK, JobTyped, Personal, Credit
<1>3. PICK nj : nj = [old EXCEPT !.at = "unfreeze"] /\ Goes(j, nj, {u}, {}, {})
  BY <1>1 DEF Credit, To
<1>4. nj \in Jobs /\ nj.at = "unfreeze" /\ nj.user = u /\ nj.room = old.room
  BY <1>1, <1>2, <1>3 DEF Jobs, At
<1>5. Moves(j, nj, {u}, {}, {})
  BY <1>3, <1>4, GoesMoves
<1>6. \A w \in User \ {u} : chips'[w] = chips[w]
  BY <1>1 DEF Credit, Typed, TypeOK
<1>7. \A i \in Job \ {j} : job[i].at \in Movers => job[i].user # u
  BY <1>1, <1>2 DEF Sound, OneMover, Movers
<1>8. Quiet(j, nj, {u}, {}, {})
  BY <1>1, <1>2, <1>4, <1>5, <1>6, <1>7 DEF Quiet, Credit, Deleting, Movers, store, counts
<1>9. CallRight(j)'
  BY <1>4, <1>5 DEF CallRight, Moves
<1>10. WalletRight(u)'
  <2>1. ~Seated(u)
    BY <1>1, <1>2 DEF Sound, WalletRight, Leaving
  <2>2. ~Seated(u)'
    BY <1>4, <1>8, <2>1, QuietBooks
  <2>3. Leaving(u)'
    BY <1>4, <1>5 DEF Leaving, Moves
  <2> QED BY <2>2, <2>3 DEF WalletRight
<1>11. Purse(u)' = Purse(u)
  <2>1. Crediting(u) = {j}
    BY <1>1, <1>2, <1>7 DEF Crediting, Movers
  <2>2. Crediting(u)' = {}
    BY <1>4, <1>5, <1>7 DEF Crediting, Moves, Same, Movers
  <2>3. chips'[u] = old.amount
    BY <1>1, <1>2 DEF Credit, Typed, TypeOK
  <2> QED BY <1>1, <2>1, <2>2, <2>3, PurseIs, PurseAfter
<1> QED BY <1>4, <1>8, <1>9, <1>10, <1>11, QuietSound

----------------------------------------------------------------------------
(* A player leaves *)

\* The empty table r leaves memory, and its dissolution begins.
Dissolves(j, nj, U, r) ==
  /\ Moves(j, nj, U, {}, {r})
  /\ nj.at = "delRedis" /\ nj.room = r
  /\ UNCHANGED <<redis, sqlite, open, behind, crashes>>
  /\ tables' = [tables EXCEPT ![r] = NoSeats]
  /\ tables[r] # NoSeats \/ ~Dissolving(r)
  /\ GetTable(r) = Empty
  /\ job[j].at \notin Deleting \cup {"redis", "sqlite"}
  /\ job[j].at \in Movers => job[j].user \in U /\ job[j].room = r
  /\ \A u \in User \ U : chips'[u] = chips[u] /\ frozen'[u] = frozen[u]

LEMMA DissolvesBooks ==
  ASSUME Typed, NEW j \in Job, NEW nj \in Jobs, NEW U, NEW r \in Room, Dissolves(j, nj, U, r)
  PROVE  /\ \A q \in Room : Books(q)' = Books(q)
         /\ \A u : Seated(u)' <=> Seated(u)
         /\ \A q \in Room \ {r} : tables'[q] = tables[q] /\ (Dissolving(q)' <=> Dissolving(q))
         /\ tables'[r] = NoSeats /\ Dissolving(r)'
         /\ Frame(j, nj, U, {}, {r})
<1>1. Dissolving(r)' /\ \A q \in Room \ {r} : Dissolving(q)' <=> Dissolving(q)
  <2>1. \A q \in Room : Dissolving(q)' <=>
          \/ nj.room = q /\ nj.at \in Deleting
          \/ \E i \in Job \ {j} : job[i].room = q /\ job[i].at \in Deleting
    BY DissolvingAfter DEF Dissolves
  <2> QED BY <2>1 DEF Dissolves, Dissolving, Deleting
<1>2. tables'[r] = NoSeats /\ \A q \in Room \ {r} : tables'[q] = tables[q]
  BY DEF Dissolves, Typed, TypeOK
<1>3. ASSUME NEW q \in Room PROVE Books(q)' = Books(q)
  <2>1. CASE q = r
    BY <1>1, <1>2, <2>1, BooksAfter, BooksRecovered DEF Dissolves
  <2>2. CASE q # r
    BY <1>1, <1>2, <2>2, BooksKept DEF Dissolves
  <2> QED BY <2>1, <2>2
<1>4. ASSUME NEW u PROVE Seated(u)' <=> Seated(u)
  BY <1>3, SeatedKept
<1>5. tables[r] \in {Empty, NoSeats}
  BY DEF Dissolves, GetTable
<1>6. Frame(j, nj, U, {}, {r})
  BY <1>2, <1>4, <1>5 DEF Frame, Dissolves, Movers, Empty
<1> QED BY <1>1, <1>2, <1>3, <1>4, <1>6

LEMMA DissolvesSound ==
  ASSUME Typed, Sound, NEW j \in Job, NEW nj \in Jobs, NEW U, NEW r \in Room,
         Dissolves(j, nj, U, r),
         \A u \in User : u \in U =>
           WalletRight(u)' /\ (Seated(u) \/ Purse(u)' = Purse(u))
  PROVE  Sound' /\ Stands
<1>1. /\ \A q \in Room : Books(q)' = Books(q)
      /\ \A q \in Room \ {r} : tables'[q] = tables[q] /\ (Dissolving(q)' <=> Dissolving(q))
      /\ tables'[r] = NoSeats /\ Dissolving(r)'
      /\ Frame(j, nj, U, {}, {r}) /\ Moves(j, nj, U, {}, {r})
  <2>1. Moves(j, nj, U, {}, {r})
    BY DEF Dissolves
  <2> QED BY <2>1, DissolvesBooks
<1>2. TablesOpen'
  BY <1>1 DEF TablesOpen, Sound, Dissolves
<1>3. Deleted'
  BY <1>1 DEF Deleted, Sound, Dissolves, Moves, Same, Deleting
<1>4. OneSeat'
  <2>1. \A q \in Room : \A u \in User : (Books(q)[u])' = NoSeat \/ Books(q)[u] # NoSeat
    BY <1>1
  <2> QED BY <2>1, OneSeatKept DEF Sound
<1>5. OneMover'
  BY <1>1, OneMoverKept DEF Sound
<1>6. InMemory'
  <2>1. \A q \in Room : tables'[q] # NoSeats =>
          /\ redis'[q] = redis[q] /\ sqlite'[q] = sqlite[q] /\ behind'[q] = behind[q]
          /\ tables'[q] = tables[q]
          /\ job[j].at \in {"freeze", "credit", "unfreeze", "redis", "sqlite"} => job[j].room # q
    BY <1>1 DEF Dissolves, Movers
  <2>2. crashes' = crashes
    BY DEF Dissolves
  <2> QED BY <1>1, <2>1, <2>2, InMemoryKept DEF Sound
<1>7. OnDisk'
  <2>1. \A q \in Room : tables'[q] = NoSeats /\ ~Dissolving(q)' =>
           /\ tables[q] = NoSeats /\ ~Dissolving(q)
           /\ redis'[q] = redis[q] /\ sqlite'[q] = sqlite[q]
    BY <1>1 DEF Dissolves
  <2>2. \A q \in Room : sqlite'[q] \in {sqlite[q], NoSeats}
    BY DEF Dissolves
  <2>3. job[j].snap # NoSeats
    BY IdleType DEF Typed, TypeOK, Jobs
  <2>4. nj.at \notin {"redis", "sqlite"}
    BY DEF Dissolves
  <2> QED BY <1>1, <1>4, <2>1, <2>2, <2>3, <2>4, OnDiskKept DEF Sound
<1>8. \A i \in Job : CallRight(i)'
  <2>1. CallRight(j)'
    BY <1>1 DEF CallRight, Moves, Dissolves
  <2> QED BY <1>1, <2>1, CallsKept DEF Sound
<1>9. \A u \in User : WalletRight(u)'
  BY <1>1, WalletsKept DEF Sound
<1>10. Stands
  BY <1>1, AllStand
<1> QED BY <1>2, <1>3, <1>4, <1>5, <1>6, <1>7, <1>8, <1>9, <1>10 DEF Sound

\* The table of who leaves is written or dissolved.
LEMMA DepartsEither ==
  ASSUME Typed, NEW j \in Job, NEW r \in Room, NEW U, Departs(j, r, GetTable(r), U),
         CanGet(r), tables[r] # NoSeats \/ ~Dissolving(r), job[j].at \in {"remove", "unfreeze"},
         job[j].at = "unfreeze" => job[j].room = r /\ job[j].user \in U,
         UNCHANGED <<redis, sqlite, open, behind, crashes>>,
         \A u \in User \ U : chips'[u] = chips[u] /\ frozen'[u] = frozen[u]
  PROVE  \E nj \in Jobs :
           /\ nj.at \in {"redis", "delRedis"}
           /\ \/ Quiet(j, nj, U, {}, {}) /\ CallRight(j)'
              \/ Dissolves(j, nj, U, r)
<1>1. PICK seats \in Seats : seats = GetTable(r)
  BY GetTableType
<1>2. CASE Players(seats) = {}
  <2>1. PICK nj : /\ nj = [Idle EXCEPT !.at = "delRedis", !.room = r]
                  /\ Goes(j, nj, U, {}, {r})
                  /\ tables' = [tables EXCEPT ![r] = NoSeats]
    BY <1>1, <1>2 DEF Departs
  <2>2. nj \in Jobs /\ nj.at = "delRedis" /\ nj.room = r
    BY <2>1, IdleType DEF Jobs, At, Idle
  <2>3. Moves(j, nj, U, {}, {r})
    BY <2>1, <2>2, GoesMoves
  <2>4. seats = Empty
    BY <1>1, <1>2 DEF Players, Empty, Seats
  <2>5. Dissolves(j, nj, U, r)
    BY <1>1, <2>1, <2>2, <2>3, <2>4 DEF Dissolves, Deleting, Movers
  <2> QED BY <2>2, <2>5
<1>3. CASE Players(seats) # {}
  <2>1. PICK nj : /\ nj = [Idle EXCEPT !.at = "redis", !.room = r, !.snap = seats]
                  /\ Goes(j, nj, U, {}, {})
                  /\ tables' = [tables EXCEPT ![r] = seats]
    BY <1>1, <1>3 DEF Departs
  <2>2. nj \in Jobs /\ nj.at = "redis" /\ nj.room = r /\ nj.snap = seats
    BY <1>1, <2>1, IdleType DEF Jobs, At, Idle
  <2>3. Moves(j, nj, U, {}, {})
    BY <2>1, <2>2, GoesMoves
  <2>4. /\ tables'[r] = seats /\ seats # NoSeats /\ seats # Empty
        /\ \A q \in Room : \/ tables'[q] = tables[q]
                           \/ /\ tables[q] = NoSeats /\ ~Dissolving(q) /\ q \in open
                              /\ tables'[q] = Recovered(q)
    BY <1>1, <1>3, <2>1, IdleType DEF Typed, TypeOK, GetTable, CanGet, Players, Empty
  <2>5. Quiet(j, nj, U, {}, {})
    BY <2>2, <2>3, <2>4 DEF Quiet, Deleting, Movers
  <2>6. CallRight(j)'
    BY <2>2, <2>3, <2>4 DEF CallRight, Moves
  <2> QED BY <2>2, <2>5, <2>6
<1> QED BY <1>2, <1>3

LEMMA UnfreezeSound ==
  ASSUME Typed, Sound, NEW j \in Job, Unfreeze(j)
  PROVE  Sound' /\ Stands
<1>1. PICK u, r : u = job[j].user /\ r = job[j].room
  OBVIOUS
<1>2. u \in User /\ r \in Room /\ job[j].at = "unfreeze"
  BY <1>1 DEF Typed, JobTyped, Personal, Unfreeze
<1>3. /\ UNCHANGED <<redis, sqlite, open, behind, crashes, chips>>
      /\ frozen'[u] = 0 /\ \A w \in User \ {u} : frozen'[w] = frozen[w]
  BY <1>1, <1>2 DEF Unfreeze, store, counts, Typed, TypeOK
<1>4. ~Seated(u) /\ \A i \in Job \ {j} : job[i].at \in Movers => job[i].user # u
  BY <1>1, <1>2 DEF Sound, WalletRight, Leaving, OneMover, Movers
<1>5. ASSUME NEW nj, NEW G, Moves(j, nj, {u}, {}, G), nj.at \notin Movers, ~Seated(u)'
      PROVE  WalletRight(u)' /\ Purse(u)' = Purse(u)
  <2>1. ~Leaving(u)'
    BY <1>4, <1>5 DEF Leaving, Moves, Same, Movers
  <2>2. Crediting(u) = {}
    BY <1>2, <1>4 DEF Crediting, Movers
  <2>3. Crediting(u)' = {}
    BY <1>4, <1>5 DEF Crediting, Moves, Same, Movers
  <2>4. Purse(u)' = Purse(u)
    BY <1>3, <2>2, <2>3, PurseIs, PurseAfter
  <2> QED BY <1>3, <1>5, <2>1, <2>4 DEF WalletRight
<1>6. CASE tables[r] = NoSeats
  <2>1. Moves(j, Idle, {u}, {}, {}) /\ tables' = tables
    BY <1>1, <1>6, IdleType, GoesMoves DEF Unfreeze
  <2>2. Quiet(j, Idle, {u}, {}, {})
    BY <1>1, <1>2, <1>3, <1>6, <2>1 DEF Quiet, Idle, Deleting, Movers
  <2>3. ~Seated(u)'
    BY <1>4, <2>2, IdleType, QuietBooks
  <2>4. WalletRight(u)' /\ Purse(u)' = Purse(u)
    BY <1>5, <2>1, <2>3 DEF Idle, Movers
  <2>5. CallRight(j)'
    BY <2>1, IdleRight DEF Moves
  <2> QED BY <2>2, <2>4, <2>5, IdleType, QuietSound
<1>7. CASE tables[r] # NoSeats
  <2>1. Departs(j, r, GetTable(r), {u}) /\ CanGet(r)
    BY <1>1, <1>7 DEF Unfreeze, GetTable, CanGet
  <2>2. PICK nj \in Jobs :
          /\ nj.at \in {"redis", "delRedis"}
          /\ \/ Quiet(j, nj, {u}, {}, {}) /\ CallRight(j)'
             \/ Dissolves(j, nj, {u}, r)
    BY <1>1, <1>2, <1>3, <1>7, <2>1, DepartsEither
  <2>3. CASE Quiet(j, nj, {u}, {}, {}) /\ CallRight(j)'
    <3>1. ~Seated(u)'
      BY <1>4, <2>3, QuietBooks
    <3>2. WalletRight(u)' /\ Purse(u)' = Purse(u)
      BY <1>5, <2>2, <2>3, <3>1 DEF Quiet, Movers
    <3> QED BY <2>3, <3>2, QuietSound
  <2>4. CASE Dissolves(j, nj, {u}, r)
    <3>1. ~Seated(u)'
      BY <1>2, <1>4, <2>4, DissolvesBooks
    <3>2. WalletRight(u)' /\ Purse(u)' = Purse(u)
      BY <1>5, <2>2, <2>4, <3>1 DEF Dissolves, Movers
    <3> QED BY <1>2, <2>4, <3>2, DissolvesSound
  <2> QED BY <2>2, <2>3, <2>4
<1> QED BY <1>6, <1>7

----------------------------------------------------------------------------
(* A seat is taken or left, or a hand played *)

\* Job j changes table r, which it may have recovered, and owes its snapshot.
Changes(j, nj, U, r) ==
  /\ Moves(j, nj, U, {r}, {})
  /\ UNCHANGED <<redis, sqlite, open, behind, crashes>>
  /\ CanGet(r) /\ (tables[r] # NoSeats \/ ~Dissolving(r))
  /\ \A q \in Room \ {r} : tables'[q] = tables[q]
  /\ tables'[r] # NoSeats
  /\ job[j].at \in {"idle", "sit", "remove"}
  /\ nj.room = r /\ nj.at \in {"freeze", "credit", "redis"}
  /\ nj.at = "redis" => nj.snap = tables'[r]

LEMMA ChangesBooks ==
  ASSUME NEW j \in Job, NEW nj \in Jobs, NEW U, NEW r \in Room, Changes(j, nj, U, r)
  PROVE  /\ \A q \in Room \ {r} : Books(q)' = Books(q)
         /\ Books(r) = GetTable(r) /\ Books(r)' = tables'[r]
         /\ \A q \in Room : Dissolving(q)' <=> Dissolving(q)
<1>1. \A q \in Room : Dissolving(q)' <=> Dissolving(q)
  BY DissolvingKept DEF Changes, Deleting
<1>2. \A q \in Room \ {r} : Books(q)' = Books(q)
  BY <1>1, BooksKept DEF Changes
<1>3. Books(r) = GetTable(r) /\ Books(r)' = tables'[r]
  BY BooksRecovered, BooksAfter DEF Changes
<1> QED BY <1>1, <1>2, <1>3

LEMMA ChangesSound ==
  ASSUME Typed, Sound, NEW j \in Job, NEW nj \in Jobs, NEW U, NEW r \in Room,
         Changes(j, nj, U, r), Frame(j, nj, U, {r}, {}),
         OneSeat', CallRight(j)', \A u \in User : u \in U => WalletRight(u)'
  PROVE  Sound'
<1>1. /\ \A q \in Room : Dissolving(q)' <=> Dissolving(q)
      /\ \A q \in Room \ {r} : tables'[q] = tables[q]
      /\ tables'[r] # NoSeats /\ nj.room = r
  BY ChangesBooks DEF Changes
<1>2. Moves(j, nj, U, {r}, {})
  BY DEF Changes
<1>3. TablesOpen'
  BY <1>1 DEF TablesOpen, Sound, Changes, CanGet
<1>4. Deleted'
  BY <1>2 DEF Deleted, Sound, Changes, Moves, Same
<1>5. OneMover'
  BY OneMoverKept DEF Sound
<1>6. InMemory'
  <2>1. \A q \in Room : tables'[q] # NoSeats =>
          \/ nj.room = q /\ nj.at \in {"freeze", "credit", "unfreeze", "redis"}
          \/ /\ redis'[q] = redis[q] /\ sqlite'[q] = sqlite[q] /\ behind'[q] = behind[q]
             /\ tables'[q] = tables[q]
             /\ job[j].at \in {"freeze", "credit", "unfreeze", "redis", "sqlite"} => job[j].room # q
    BY <1>1 DEF Changes
  <2>2. crashes' = crashes
    BY DEF Changes
  <2> QED BY <1>2, <2>1, <2>2, InMemoryKept DEF Sound
<1>7. OnDisk'
  <2>1. \A q \in Room : tables'[q] = NoSeats /\ ~Dissolving(q)' =>
           /\ tables[q] = NoSeats /\ ~Dissolving(q)
           /\ redis'[q] = redis[q] /\ sqlite'[q] = sqlite[q]
    BY <1>1 DEF Changes
  <2>2. \A q \in Room : sqlite'[q] \in {sqlite[q], NoSeats}
    BY DEF Changes
  <2>3. job[j].snap # NoSeats
    BY IdleType DEF Typed, TypeOK, Jobs
  <2>4. nj.at \in {"redis", "sqlite"} =>
          nj.room \in Room /\ tables'[nj.room] = nj.snap /\ nj.snap # NoSeats
    BY <1>1 DEF Changes
  <2> QED BY <1>2, <2>1, <2>2, <2>3, <2>4, OnDiskKept DEF Sound
<1>8. \A i \in Job : CallRight(i)'
  BY CallsKept DEF Sound
<1>9. \A u \in User : WalletRight(u)'
  BY WalletsKept DEF Sound
<1> QED BY <1>3, <1>4, <1>5, <1>6, <1>7, <1>8, <1>9 DEF Sound

LEMMA MoversWrite ==
  ASSUME NEW u, Writers(u) = {}
  PROVE  (\A i \in Job : job[i].at \in Movers => job[i].user # u) /\ ~Leaving(u)
<1>1. \A i \in Job : job[i].at \in Movers => job[i].user # u
  BY DEF Writers, Holds, Movers
<1> QED BY <1>1 DEF Leaving, Movers

\* Three steps that move somebody: u sits down at r or stands up, or wins a chip of v.
SitsDown(u, r) ==
  /\ ~Seated(u) /\ \A w \in User \ {u} : Keeps(w)
  /\ (Books(r)[u])' # NoSeat /\ (Books(r)[u])' = Purse(u)

StandsUp(u, r) ==
  /\ ~Seated(u)' /\ \A w \in User \ {u} : Keeps(w)
  /\ Books(r)[u] # NoSeat /\ Purse(u)' = Books(r)[u]

Wins(u, v, r) ==
  /\ u # v /\ \A w \in User \ {u, v} : Keeps(w)
  /\ Books(r)[u] \in Nat /\ Books(r)[v] \in Nat
  /\ (Books(r)[u])' = Books(r)[u] + 1 /\ (Books(r)[v])' = Books(r)[v] - 1
  /\ (Books(r)[v])' \in Nat

\* u, who sits nowhere, buys or spends.
Spends(u) ==
  /\ ~Seated(u) /\ ~Seated(u)' /\ \A w \in User \ {u} : Keeps(w)
  /\ Purse(u)' \in Nat /\ Purse(u)' # Purse(u)

LEMMA PlaySound ==
  ASSUME Typed, Sound, NEW j \in Job, NEW r \in Room, Play(j, r), mishap' = "none"
  PROVE  Sound' /\ \E u, v \in User : Wins(u, v, r)
<1>1. PICK seats \in Seats : seats = GetTable(r)
  BY GetTableType
<1>2. PICK u, v \in Players(seats) :
        /\ u # v /\ seats[v] > 0
        /\ tables' = [tables EXCEPT ![r] = [seats EXCEPT ![u] = @ + 1, ![v] = @ - 1]]
  BY <1>1 DEF Play
<1>3. PICK new : new = [seats EXCEPT ![u] = @ + 1, ![v] = @ - 1]
  OBVIOUS
<1>4. u \in User /\ v \in User /\ seats[u] \in Nat /\ seats[v] \in Nat
  BY <1>1, <1>2 DEF Players, Seats
<1>5. new \in Seats
  <2>1. seats[v] - 1 \in Nat /\ seats[u] + 1 \in Nat
    BY <1>2, <1>4
  <2> QED BY <1>1, <1>2, <1>3, <1>4, <2>1 DEF Seats
<1>6. \A w \in User : new[w] # NoSeat <=> seats[w] # NoSeat
  <2>1. \A w \in User \ {u, v} : new[w] = seats[w]
    BY <1>1, <1>3 DEF Seats
  <2>2. new[u] \in Nat /\ new[v] \in Nat
    BY <1>1, <1>2, <1>3, <1>4 DEF Seats
  <2> QED BY <1>4, <2>1, <2>2, SeatAssumption
<1>7. new # NoSeats /\ new # Empty
  BY <1>2, <1>4, <1>5, <1>6, IdleType DEF Empty, Players
<1>8. tables'[r] = new /\ \A q \in Room \ {r} : tables'[q] = tables[q]
  BY <1>2, <1>3 DEF Typed, TypeOK
<1>9. PICK nj : /\ nj = [Idle EXCEPT !.at = "redis", !.room = r, !.pays = TRUE, !.snap = new]
                /\ Marks(j, nj, {}, {r}, {})
  BY <1>8 DEF Play
<1>10. nj \in Jobs /\ nj.at = "redis" /\ nj.room = r /\ nj.snap = new
  BY <1>5, <1>9, IdleType DEF Jobs, At, Idle
<1>11. Moves(j, nj, {}, {r}, {})
  BY <1>9, <1>10, MarksMove DEF Typed, TypeOK
<1>12. /\ UNCHANGED <<redis, sqlite, open, behind, crashes, chips, frozen>>
       /\ job[j] = Idle /\ CanGet(r) /\ (tables[r] # NoSeats \/ ~Dissolving(r))
  BY DEF Play, Mishap, Revives, Followed, wallet, counts
<1>13. Changes(j, nj, {}, r)
  BY <1>7, <1>8, <1>10, <1>11, <1>12 DEF Changes, Idle
<1>14. /\ \A q \in Room \ {r} : Books(q)' = Books(q)
       /\ Books(r) = seats /\ Books(r)' = new
  BY <1>1, <1>8, <1>10, <1>13, ChangesBooks
<1>15. \A q \in Room : \A w \in User : (Books(q)[w])' # NoSeat <=> Books(q)[w] # NoSeat
  BY <1>6, <1>14
<1>16. \A w \in User : Seated(w)' <=> Seated(w)
  BY <1>15 DEF Seated
<1>17. Frame(j, nj, {}, {r}, {})
  <2>1. \A w \in User : \A q \in Room : tables[q] # NoSeats /\ tables[q][w] # NoSeat =>
                                          tables'[q] # NoSeats /\ tables'[q][w] # NoSeat
    BY <1>1, <1>6, <1>7, <1>8 DEF GetTable
  <2> QED BY <1>8, <1>10, <1>11, <1>12, <1>16, <2>1 DEF Frame, Idle, Movers
<1>18. OneSeat'
  BY <1>15, OneSeatKept DEF Sound
<1>19. CallRight(j)'
  BY <1>7, <1>8, <1>10, <1>11 DEF CallRight, Moves
<1>20. Wins(u, v, r)
  <2>1. \A w \in User \ {u, v} : Keeps(w)
    <3>1. \A w \in User \ {u, v} : new[w] = seats[w]
      BY <1>1, <1>3 DEF Seats
    <3>2. \A w \in User : Purse(w)' = Purse(w)
      BY <1>10, <1>17, PurseKept
    <3> QED BY <1>14, <3>1, <3>2 DEF Keeps
  <2>2. new[u] = seats[u] + 1 /\ new[v] = seats[v] - 1 /\ new[v] \in Nat
    BY <1>1, <1>2, <1>3, <1>4 DEF Seats
  <2> QED BY <1>2, <1>4, <1>14, <2>1, <2>2 DEF Wins
<1> QED BY <1>4, <1>10, <1>13, <1>17, <1>18, <1>19, <1>20, ChangesSound

\* A player who is not known at his table sits down.
LEMMA SitDownSound ==
  ASSUME Typed, Sound, NEW j \in Job, NEW u \in User, NEW r \in Room,
         job[j].at = "sit", u = job[j].user, r = job[j].room,
         ~job[j].stale, ~job[j].orphan, ~job[j].seated,
         u \notin Players(tables[r]), Writers(u) = {},
         tables' = [tables EXCEPT ![r][u] = job[j].amount],
         Goes(j, To(j, "freeze"), {u}, {r}, {}),
         UNCHANGED <<redis, sqlite, open, behind, crashes, chips, frozen>>
  PROVE  Sound' /\ SitsDown(u, r)
<1>1. PICK old, seats : old = job[j] /\ seats = tables[r]
  OBVIOUS
<1>2. old \in Jobs /\ old.amount \in Nat
  BY <1>1 DEF Typed, TypeOK, Jobs
<1>3. seats # NoSeats /\ seats \in Seats
  BY <1>1, GetTableType DEF Typed, JobTyped
<1>4. PICK new : new = [seats EXCEPT ![u] = old.amount]
  OBVIOUS
<1>5. /\ new \in Seats /\ new # NoSeats /\ new[u] # NoSeat /\ new[u] = old.amount
      /\ \A w \in User \ {u} : new[w] = seats[w]
  BY <1>2, <1>3, <1>4, SeatAssumption DEF Seats
<1>6. tables'[r] = new /\ \A q \in Room \ {r} : tables'[q] = tables[q]
  BY <1>1, <1>4 DEF Typed, TypeOK
<1>7. PICK nj : nj = [old EXCEPT !.at = "freeze"]
  OBVIOUS
<1>8. /\ nj \in Jobs /\ nj.at = "freeze" /\ nj.user = u /\ nj.room = r
      /\ nj.amount = old.amount
  BY <1>1, <1>2, <1>7 DEF Jobs, At
<1>9. Moves(j, nj, {u}, {r}, {})
  BY <1>1, <1>7, <1>8, GoesMoves DEF To
<1>10. ~Seated(u) /\ old.amount = chips[u]
  BY <1>1, MoversWrite DEF Sound, CallRight
<1>11. Changes(j, nj, {u}, r)
  BY <1>1, <1>3, <1>5, <1>6, <1>8, <1>9 DEF Changes, CanGet
<1>12. /\ \A q \in Room \ {r} : Books(q)' = Books(q)
       /\ Books(r) = seats /\ Books(r)' = new
  BY <1>1, <1>3, <1>6, <1>8, <1>11, ChangesBooks DEF GetTable
<1>13. \A w \in User \ {u} : Seated(w)' <=> Seated(w)
  BY <1>5, <1>12 DEF Seated
<1>14. Seated(u)'
  BY <1>5, <1>12 DEF Seated
<1>15. Frame(j, nj, {u}, {r}, {})
  <2>1. \A w \in User : \A q \in Room : tables[q] # NoSeats /\ tables[q][w] # NoSeat =>
                                          tables'[q] # NoSeats /\ tables'[q][w] # NoSeat
    BY <1>1, <1>5, <1>6
  <2>2. \A i \in Job : job[i].at \in Movers => job[i].user # u
    BY MoversWrite
  <2> QED BY <1>6, <1>8, <1>9, <1>13, <2>1, <2>2 DEF Frame, Movers
<1>16. OneSeat'
  <2>1. \A q \in Room : \A w \in User :
          (Books(q)[w])' = NoSeat \/ Books(q)[w] # NoSeat \/ (q = r /\ w = u /\ ~Seated(u))
    BY <1>5, <1>10, <1>12
  <2> QED BY <2>1, OneSeatKept DEF Sound
<1>17. CallRight(j)'
  BY <1>5, <1>6, <1>8, <1>9, <1>10 DEF CallRight, Moves
<1>18. \A w \in User : w \in {u} => WalletRight(w)'
  <2>1. Freezing(u)'
    BY <1>8, <1>9 DEF Freezing, Moves
  <2>2. ~Leaving(u)'
    <3>1. ~Leaving(u)
      BY MoversWrite
    <3> QED BY <1>8, <1>9, <3>1 DEF Leaving, Moves, Same
  <2> QED BY <1>14, <2>1, <2>2 DEF WalletRight
<1>19. SitsDown(u, r)
  <2>1. \A w \in User \ {u} : Keeps(w)
    <3>1. \A w \in User \ {u} : Purse(w)' = Purse(w)
      BY <1>8, <1>15, PurseKept
    <3> QED BY <1>5, <1>12, <3>1 DEF Keeps
  <2>2. Crediting(u) = {}
    BY MoversWrite DEF Crediting, Movers
  <2>3. Purse(u) = chips[u]
    BY <2>2, PurseIs
  <2> QED BY <1>5, <1>10, <1>12, <2>1, <2>3 DEF SitsDown
<1> QED BY <1>8, <1>11, <1>15, <1>16, <1>17, <1>18, <1>19, ChangesSound

LEMMA SitSound ==
  ASSUME Typed, Sound, NEW j \in Job, Sit(j), mishap' = "none"
  PROVE  Sound' /\ (Stands \/ \E u \in User, r \in Room : SitsDown(u, r))
<1>1. PICK u, r : u = job[j].user /\ r = job[j].room
  OBVIOUS
<1>2. /\ u \in User /\ r \in Room /\ job[j].at = "sit" /\ job[j] \in Jobs
      /\ (~job[j].orphan => tables[r] # NoSeats)
  BY <1>1 DEF Typed, TypeOK, JobTyped, Personal, Sit
<1>3. UNCHANGED <<redis, sqlite, open, behind, crashes, chips, frozen>>
  BY DEF Sit, wallet, store, counts
<1>4. PICK sits \in BOOLEAN : sits = (~job[j].orphan /\ u \notin Players(tables[r]))
  OBVIOUS
<1>5. mishap = "none"
  BY DEF Sit, Goes, Followed
<1>6. CASE Goes(j, Idle, {}, {}, {}) /\ tables' = tables
  <2>1. Moves(j, Idle, {}, {}, {})
    BY <1>6, IdleType, GoesMoves
  <2>2. Quiet(j, Idle, {}, {}, {})
    BY <1>2, <1>3, <1>6, <2>1 DEF Quiet, Idle, Deleting, Movers
  <2>3. CallRight(j)'
    BY <2>1, IdleRight DEF Moves
  <2> QED BY <2>2, <2>3, IdleType, QuietSound
<1>7. CASE /\ job[j].seated /\ ~sits /\ tables' = tables
           /\ Goes(j, IF job[j].orphan THEN Idle ELSE Persist(j, tables[r]), {u}, {r}, {})
  <2>1. CASE job[j].orphan
    <3>1. Moves(j, Idle, {}, {}, {})
      BY <1>7, <2>1, IdleType, GoesMoves, MovesLess
    <3>2. Quiet(j, Idle, {}, {}, {})
      BY <1>2, <1>3, <1>7, <3>1 DEF Quiet, Idle, Deleting, Movers
    <3>3. CallRight(j)'
      BY <3>1, IdleRight DEF Moves
    <3> QED BY <3>2, <3>3, IdleType, QuietSound
  <2>2. CASE ~job[j].orphan
    <3>1. PICK seats : seats = tables[r]
      OBVIOUS
    <3>2. seats \in Seats /\ seats # NoSeats /\ seats # Empty
      BY <1>2, <1>4, <1>7, <2>2, <3>1, GetTableType DEF Players, Empty
    <3>3. PICK nj : nj = [Idle EXCEPT !.at = "redis", !.room = r, !.snap = seats]
      OBVIOUS
    <3>4. nj \in Jobs /\ nj.at = "redis" /\ nj.room = r /\ nj.snap = seats
      BY <1>2, <3>2, <3>3, IdleType DEF Jobs, At, Idle
    <3>5. Goes(j, nj, {u}, {r}, {})
      BY <1>1, <1>7, <2>2, <3>1, <3>2, <3>3 DEF Persist
    <3>6. Moves(j, nj, {}, {}, {})
      BY <3>4, <3>5, GoesMoves, MovesLess
    <3>7. Quiet(j, nj, {}, {}, {})
      BY <1>2, <1>3, <1>7, <3>1, <3>2, <3>4, <3>6 DEF Quiet, Deleting, Movers
    <3>8. CallRight(j)'
      BY <1>7, <3>1, <3>2, <3>4, <3>6 DEF CallRight, Moves
    <3> QED BY <3>4, <3>7, <3>8, QuietSound
  <2> QED BY <2>1, <2>2
<1>8. CASE ~job[j].seated /\ ~job[j].orphan /\ ~job[j].stale /\ ~sits
  <2>1. Seated(u)
    BY <1>2, <1>4, <1>8, BooksCases DEF Seated, Players
  <2>2. ~Seated(u)
    BY <1>1, <1>2, <1>8 DEF Sound, CallRight
  <2> QED BY <2>1, <2>2
<1>9. CASE /\ ~job[j].seated /\ ~job[j].orphan /\ ~job[j].stale /\ Writers(u) = {} /\ sits
           /\ tables' = [tables EXCEPT ![r][u] = job[j].amount]
           /\ Goes(j, To(j, "freeze"), {u}, {r}, {})
  BY <1>1, <1>2, <1>3, <1>4, <1>9, SitDownSound
<1>10. \/ Goes(j, Idle, {}, {}, {}) /\ tables' = tables
       \/ /\ tables' = IF sits THEN [tables EXCEPT ![r][u] = job[j].amount] ELSE tables
          /\ job[j].seated /\ ~sits
          /\ Goes(j, IF job[j].orphan THEN Idle ELSE Persist(j, tables'[r]), {u}, {r}, {})
       \/ /\ tables' = IF sits THEN [tables EXCEPT ![r][u] = job[j].amount] ELSE tables
          /\ ~job[j].seated /\ Goes(j, To(j, "freeze"), {u}, {r}, {})
          /\ ~job[j].orphan /\ ~job[j].stale /\ Writers(u) = {}
  <2>1. CASE sits /\ Cardinality(Players(tables[r])) = Capacity
    BY <1>1, <1>4, <2>1 DEF Sit
  <2>2. CASE ~(sits /\ Cardinality(Players(tables[r])) = Capacity) /\ job[j].seated
    BY <1>1, <1>4, <1>5, <2>2 DEF Sit, Mishap
  <2>3. CASE ~(sits /\ Cardinality(Players(tables[r])) = Capacity) /\ ~job[j].seated
    BY <1>1, <1>4, <1>5, <2>3 DEF Sit, Mishap
  <2> QED BY <1>2, <2>1, <2>2, <2>3
<1> QED BY <1>6, <1>7, <1>8, <1>9, <1>10

LEMMA RemoveSound ==
  ASSUME Typed, Sound, NEW j \in Job, Remove(j), mishap' = "none"
  PROVE  Sound' /\ (Stands \/ \E u \in User, r \in Room : StandsUp(u, r))
<1>1. PICK old, u : old = job[j] /\ u = old.user
  OBVIOUS
<1>2. old \in Jobs /\ u \in User /\ old.at = "remove"
  BY <1>1 DEF Typed, TypeOK, JobTyped, Personal, Remove
<1>3. UNCHANGED <<redis, sqlite, open, behind, crashes, chips, frozen>>
  BY DEF Remove, wallet, store, counts
<1>4. PICK r \in CurrentRooms(u) :
        /\ CanGet(r)
        /\ IF u \in Players(GetTable(r))
           THEN /\ tables' = [tables EXCEPT ![r] = [GetTable(r) EXCEPT ![u] = NoSeat]]
                /\ Goes(j, [To(j, "credit") EXCEPT !.room = r, !.amount = GetTable(r)[u]],
                        {u}, {r}, {})
           ELSE Departs(j, r, GetTable(r), {})
        /\ Mishap("overlap", Revives(r) \/ Writers(u) # {})
  BY <1>1 DEF Remove
<1>5. r \in Room
  BY DEF CurrentRooms, At_
<1>6. mishap = "none"
  BY <1>4 DEF Goes, Followed, Departs
<1>7. (tables[r] # NoSeats \/ ~Dissolving(r)) /\ Writers(u) = {}
  BY <1>4, <1>6 DEF Mishap, Revives
<1>8. PICK seats \in Seats : seats = GetTable(r)
  BY <1>5, GetTableType
<1>9. CASE u \notin Players(seats)
  <2>1. PICK nj \in Jobs :
          /\ nj.at \in {"redis", "delRedis"}
          /\ \/ Quiet(j, nj, {}, {}, {}) /\ CallRight(j)'
             \/ Dissolves(j, nj, {}, r)
    BY <1>1, <1>2, <1>3, <1>4, <1>5, <1>7, <1>8, <1>9, DepartsEither
  <2> QED BY <1>5, <2>1, QuietSound, DissolvesSound
<1>10. CASE u \in Players(seats)
  <2>1. PICK new, n : new = [seats EXCEPT ![u] = NoSeat] /\ n = seats[u]
    OBVIOUS
  <2>2. /\ new \in Seats /\ n \in Nat /\ new[u] = NoSeat
        /\ \A w \in User \ {u} : new[w] = seats[w]
    BY <1>2, <1>8, <1>10, <2>1 DEF Players, Seats
  <2>3. new # NoSeats
    BY <2>2, IdleType
  <2>4. PICK nj : /\ nj = [[old EXCEPT !.at = "credit"] EXCEPT !.room = r, !.amount = n]
                  /\ Goes(j, nj, {u}, {r}, {})
                  /\ tables' = [tables EXCEPT ![r] = new]
    BY <1>1, <1>4, <1>8, <1>10, <2>1 DEF To
  <2>5. nj \in Jobs /\ nj.at = "credit" /\ nj.user = u /\ nj.room = r
    BY <1>1, <1>2, <1>5, <2>2, <2>4 DEF Jobs, At
  <2>6. Moves(j, nj, {u}, {r}, {})
    BY <2>4, <2>5, GoesMoves
  <2>7. tables'[r] = new /\ \A q \in Room \ {r} : tables'[q] = tables[q]
    BY <1>5, <2>4 DEF Typed, TypeOK
  <2>8. Changes(j, nj, {u}, r)
    BY <1>1, <1>2, <1>3, <1>4, <1>7, <2>3, <2>5, <2>6, <2>7 DEF Changes
  <2>9. /\ \A q \in Room \ {r} : Books(q)' = Books(q)
        /\ Books(r) = seats /\ Books(r)' = new
    BY <1>5, <1>8, <2>5, <2>7, <2>8, ChangesBooks
  <2>10. \A w \in User \ {u} : Seated(w)' <=> Seated(w)
    BY <2>2, <2>9 DEF Seated
  <2>11. ~Seated(u)'
    <3>1. seats[u] # NoSeat
      BY <1>10 DEF Players
    <3>2. \A q \in Room \ {r} : Books(q)[u] = NoSeat
      BY <1>2, <1>5, <2>9, <3>1 DEF Sound, OneSeat
    <3> QED BY <2>2, <2>9, <3>2 DEF Seated
  <2>12. Frame(j, nj, {u}, {r}, {})
    <3>1. \A w \in User : \/ Writers(w) = {}
                          \/ \A q \in Room : tables[q] # NoSeats /\ tables[q][w] # NoSeat =>
                                               tables'[q] # NoSeats /\ tables'[q][w] # NoSeat
      BY <1>7, <1>8, <2>2, <2>3, <2>7 DEF GetTable
    <3>2. \A i \in Job : job[i].at \in Movers => job[i].user # u
      BY <1>7, MoversWrite
    <3> QED BY <1>1, <1>2, <1>3, <2>5, <2>6, <2>7, <2>10, <3>1, <3>2 DEF Frame, Movers
  <2>13. OneSeat'
    <3>1. \A q \in Room : \A w \in User : (Books(q)[w])' = NoSeat \/ Books(q)[w] # NoSeat
      BY <2>2, <2>9
    <3> QED BY <3>1, OneSeatKept DEF Sound
  <2>14. CallRight(j)'
    BY <2>5, <2>6 DEF CallRight, Moves
  <2>15. \A w \in User : w \in {u} => WalletRight(w)'
    <3>1. Leaving(u)'
      BY <2>5, <2>6 DEF Leaving, Moves
    <3> QED BY <2>11, <3>1 DEF WalletRight
  <2>16. StandsUp(u, r)
    <3>1. \A w \in User \ {u} : Keeps(w)
      <4>1. \A w \in User \ {u} : Purse(w)' = Purse(w)
        BY <2>5, <2>12, PurseKept
      <4> QED BY <2>2, <2>9, <4>1 DEF Keeps
    <3>2. Crediting(u)' = {j}
      <4>1. \A i \in Job : job[i].at \in Movers => job[i].user # u
        BY <1>7, MoversWrite
      <4> QED BY <2>5, <2>6, <4>1 DEF Crediting, Moves, Same, Movers
    <3>3. Purse(u)' = n
      <4>1. job'[j].amount = n
        BY <1>2, <2>2, <2>4, <2>6 DEF Moves, Jobs
      <4> QED BY <3>2, <4>1, PurseAfter
    <3> QED BY <1>10, <2>1, <2>9, <2>11, <3>1, <3>3 DEF StandsUp, Players
  <2> QED BY <1>2, <1>5, <2>5, <2>8, <2>12, <2>13, <2>14, <2>15, <2>16, ChangesSound
<1> QED BY <1>9, <1>10

----------------------------------------------------------------------------
(* Snapshots are written and deleted *)

\* Job j writes a snapshot of r, whose table is in memory.
Writes(j, nj, r) ==
  /\ Moves(j, nj, {}, {}, {})
  /\ UNCHANGED <<tables, open, crashes, chips, frozen>>
  /\ tables[r] # NoSeats /\ job[j].room = r
  /\ job[j].at \in {"redis", "sqlite"} /\ nj.at \in {"idle", "sqlite", "wallet"}
  /\ nj.at = "sqlite" => nj.room = r /\ nj.snap = job[j].snap /\ nj.stale = job[j].stale
  /\ nj.at = "wallet" => nj.snap = tables[r]
  /\ \A q \in Room \ {r} :
       redis'[q] = redis[q] /\ sqlite'[q] = sqlite[q] /\ behind'[q] = behind[q]
  /\ sqlite'[r] = sqlite[r] \/ (job[j].at = "sqlite" /\ sqlite'[r] = job[j].snap)
  /\ crashes < MaxCrashes => InStep(r)'

LEMMA WritesSound ==
  ASSUME Typed, Sound, NEW j \in Job, NEW nj \in Jobs, NEW r \in Room, Writes(j, nj, r)
  PROVE  Sound' /\ Stands
<1>1. Moves(j, nj, {}, {}, {}) /\ \A q \in Room : tables'[q] = tables[q]
  BY DEF Writes
<1>2. \A q \in Room : Dissolving(q)' <=> Dissolving(q)
  BY <1>1, DissolvingKept DEF Writes, Deleting
<1>3. \A q \in Room : Books(q)' = Books(q)
  BY <1>1, <1>2, BooksKept DEF Writes
<1>4. \A u : Seated(u)' <=> Seated(u)
  BY <1>3, SeatedKept
<1>5. Frame(j, nj, {}, {}, {})
  BY <1>1, <1>4 DEF Frame, Writes, Movers
<1>6. TablesOpen'
  BY <1>2 DEF TablesOpen, Sound, Writes
<1>7. Deleted'
  <2>1. ~Dissolving(r)
    BY DEF Sound, TablesOpen, Writes
  <2>2. \A i \in Job \ {j} : job'[i].at = job[i].at /\ job'[i].room = job[i].room
    BY <1>1 DEF Moves, Same
  <2>3. ASSUME NEW i \in Job \ {j}, job'[i].at \in {"delSqlite", "delRoom"}
        PROVE  /\ redis'[job'[i].room] = NoSeats
               /\ job'[i].at = "delRoom" => sqlite'[job'[i].room] = NoSeats
    <3>1. job[i].room \in Room \ {r}
      BY <2>1, <2>2, <2>3 DEF Dissolving, Typed, JobTyped
    <3>2. redis[job[i].room] = NoSeats /\ (job[i].at = "delRoom" => sqlite[job[i].room] = NoSeats)
      BY <2>2, <2>3 DEF Sound, Deleted
    <3> QED BY <2>2, <3>1, <3>2 DEF Writes
  <2>4. job'[j].at \notin {"delSqlite", "delRoom"}
    BY <1>1 DEF Moves, Writes
  <2> QED BY <2>3, <2>4 DEF Deleted
<1>8. OneSeat'
  <2>1. \A q \in Room : \A u \in User : (Books(q)[u])' = NoSeat \/ Books(q)[u] # NoSeat
    BY <1>3
  <2> QED BY <2>1, OneSeatKept DEF Sound
<1>9. OneMover'
  BY <1>5, OneMoverKept DEF Sound
<1>10. InMemory'
  <2>1. CASE crashes < MaxCrashes
    <3>1. \A q \in Room : tables'[q] # NoSeats =>
            \/ InStep(q)'
            \/ /\ redis'[q] = redis[q] /\ sqlite'[q] = sqlite[q] /\ behind'[q] = behind[q]
               /\ tables'[q] = tables[q]
               /\ job[j].at \in {"freeze", "credit", "unfreeze", "redis", "sqlite"} => job[j].room # q
      BY <2>1 DEF Writes
    <3>2. crashes' = crashes
      BY DEF Writes
    <3> QED BY <1>1, <3>1, <3>2, InMemoryKept DEF Sound
  <2>2. CASE ~(crashes < MaxCrashes)
    BY <2>2 DEF InMemory, Writes
  <2> QED BY <2>1, <2>2
<1>11. OnDisk'
  <2>1. \A q \in Room : tables'[q] = NoSeats /\ ~Dissolving(q)' =>
           /\ tables[q] = NoSeats /\ ~Dissolving(q)
           /\ redis'[q] = redis[q] /\ sqlite'[q] = sqlite[q]
    BY <1>1, <1>2 DEF Writes
  <2>2. \A q \in Room : \/ sqlite'[q] \in {sqlite[q], NoSeats}
                        \/ job[j].at = "sqlite" /\ job[j].room = q /\ sqlite'[q] = job[j].snap
    BY DEF Writes
  <2>3. job[j].snap # NoSeats
    BY IdleType DEF Typed, TypeOK, Jobs
  <2>4. nj.at \in {"redis", "sqlite"} =>
          /\ nj.room \in Room
          /\ job[j].at \in {"redis", "sqlite"} /\ nj.room = job[j].room /\ nj.snap = job[j].snap
    BY DEF Writes
  <2> QED BY <1>1, <1>8, <2>1, <2>2, <2>3, <2>4, OnDiskKept DEF Sound
<1>12. CallRight(j)'
  <2>1. job'[j] = nj
    BY <1>1 DEF Moves
  <2>2. CallRight(j)
    BY DEF Sound
  <2>3. nj.at = "wallet" => \A u \in User : nj.snap[u] # NoSeat => Seated(u)'
    <3>1. Books(r) = tables[r]
      BY BooksCases DEF Writes
    <3>2. nj.at = "wallet" => \A u \in User : nj.snap[u] # NoSeat => Seated(u)
      BY <3>1 DEF Seated, Writes
    <3> QED BY <1>4, <3>2
  <2> QED BY <2>1, <2>2, <2>3 DEF CallRight, Writes
<1>13. \A i \in Job : CallRight(i)'
  BY <1>5, <1>12, CallsKept DEF Sound
<1>14. \A u \in User : WalletRight(u)'
  BY <1>5, WalletsKept DEF Sound
<1>15. Stands
  BY <1>3, <1>5, AllStand
<1> QED BY <1>6, <1>7, <1>8, <1>9, <1>10, <1>11, <1>13, <1>14, <1>15 DEF Sound

LEMMA RedisSound ==
  ASSUME Typed, Sound, NEW j \in Job, Redis(j), mishap' = "none"
  PROVE  Sound' /\ Stands
<1>1. PICK old, r : old = job[j] /\ r = old.room
  OBVIOUS
<1>2. old \in Jobs /\ old.at = "redis" /\ r \in Room
  BY <1>1 DEF Typed, TypeOK, JobTyped, Redis
<1>3. PICK nj : nj = [old EXCEPT !.at = "sqlite"] /\ Goes(j, nj, {}, {}, {})
  BY <1>1 DEF Redis, To
<1>4. /\ nj \in Jobs /\ nj.at = "sqlite" /\ nj.room = r /\ nj.snap = old.snap
      /\ nj.stale = old.stale
  BY <1>1, <1>2, <1>3 DEF Jobs, At
<1>5. Moves(j, nj, {}, {}, {}) /\ mishap = "none"
  BY <1>3, <1>4, GoesMoves
<1>6. ~old.stale => tables[r] = old.snap
  BY <1>1, <1>2 DEF Sound, CallRight
<1>7. tables[r] # NoSeats
  BY <1>1, <1>2, <1>5, <1>6, IdleType DEF Redis, Mishap, Outlived, Jobs
<1>8. UNCHANGED <<tables, open, crashes, chips, frozen, sqlite>>
  BY DEF Redis, wallet
<1>9. \A q \in Room \ {r} : redis'[q] = redis[q] /\ behind'[q] = behind[q]
  BY <1>1 DEF Redis, Behind, Typed, TypeOK
<1>10. crashes < MaxCrashes => InStep(r)'
  <2> SUFFICES ASSUME crashes < MaxCrashes PROVE InStep(r)'
    OBVIOUS
  <2>1. Awaited(r, {"freeze", "credit", "unfreeze", "redis", "sqlite"})'
    BY <1>4, <1>5 DEF Awaited, Moves
  <2>2. "redis" \notin behind'[r] => redis'[r] = old.snap /\ ~old.stale
    <3>1. behind'[r] = behind[r] \cup {"redis"} \/ (~old.stale /\ redis'[r] = old.snap)
      BY <1>1, <1>2 DEF Redis, Behind, Typed, TypeOK
    <3> QED BY <3>1
  <2> QED BY <1>6, <1>8, <2>1, <2>2 DEF InStep
<1>11. Writes(j, nj, r)
  BY <1>1, <1>2, <1>4, <1>5, <1>7, <1>8, <1>9, <1>10 DEF Writes
<1> QED BY <1>2, <1>4, <1>11, WritesSound

LEMMA SqliteSound ==
  ASSUME Typed, Sound, NEW j \in Job, Sqlite(j), mishap' = "none"
  PROVE  Sound' /\ Stands
<1>1. PICK old, r, seats : old = job[j] /\ r = old.room /\ seats = tables[r]
  OBVIOUS
<1>2. old \in Jobs /\ old.at = "sqlite" /\ r \in Room
  BY <1>1 DEF Typed, TypeOK, JobTyped, Sqlite
<1>3. ~old.stale => seats = old.snap
  BY <1>1, <1>2 DEF Sound, CallRight
<1>4. mishap = "none"
  BY DEF Sqlite, Goes, Followed
<1>5. seats # NoSeats
  BY <1>1, <1>2, <1>3, <1>4, IdleType DEF Sqlite, Mishap, Outlived, Jobs
<1>6. r \in open /\ seats \in Seats
  BY <1>1, <1>2, <1>5, GetTableType DEF Sound, TablesOpen
<1>7. PICK nj : /\ nj = IF old.pays
                        THEN [[old EXCEPT !.at = "wallet"] EXCEPT !.snap = seats, !.stale = FALSE]
                        ELSE Idle
                /\ Goes(j, nj, {}, {}, {})
  BY <1>1, <1>5, <1>6 DEF Sqlite, To
<1>8. nj \in Jobs /\ (nj.at = "idle" \/ (nj.at = "wallet" /\ nj.snap = seats))
  BY <1>2, <1>6, <1>7, IdleType DEF Jobs, At, Idle
<1>9. Moves(j, nj, {}, {}, {})
  BY <1>7, <1>8, GoesMoves
<1>10. UNCHANGED <<tables, open, crashes, chips, frozen, redis>>
  BY DEF Sqlite, wallet, counts
<1>11. /\ sqlite'[r] = old.snap
       /\ \A q \in Room \ {r} : sqlite'[q] = sqlite[q] /\ behind'[q] = behind[q]
  BY <1>1, <1>2, <1>6 DEF Sqlite, Behind, Typed, TypeOK
<1>12. crashes < MaxCrashes => InStep(r)'
  <2> SUFFICES ASSUME crashes < MaxCrashes PROVE InStep(r)'
    OBVIOUS
  <2>1. behind'[r] = IF old.stale THEN behind[r] \cup {"sqlite"} ELSE behind[r] \ {"sqlite"}
    BY <1>1, <1>2, <1>6 DEF Sqlite, Behind, Typed, TypeOK
  <2>2. "sqlite" \notin behind'[r] => Seating(sqlite'[r]) = tables'[r]
    BY <1>1, <1>3, <1>5, <1>10, <1>11, <2>1 DEF Seating
  <2>3. /\ "redis" \notin behind'[r] /\ redis'[r] # NoSeats
        /\ ~Awaited(r, {"freeze", "credit", "unfreeze", "redis"})'
        => redis'[r] = tables'[r]
    <3>1. Awaited(r, {"freeze", "credit", "unfreeze", "redis"}) =>
            Awaited(r, {"freeze", "credit", "unfreeze", "redis"})'
      BY <1>1, <1>2, <1>9 DEF Awaited, Moves, Same
    <3>2. InStep(r)
      BY <1>1, <1>2, <1>5 DEF Sound, InMemory
    <3> QED BY <1>10, <2>1, <3>1, <3>2 DEF InStep
  <2> QED BY <2>2, <2>3 DEF InStep, Seating
<1>13. Writes(j, nj, r)
  BY <1>1, <1>2, <1>5, <1>8, <1>9, <1>10, <1>11, <1>12 DEF Writes
<1> QED BY <1>2, <1>8, <1>13, WritesSound

\* Job j goes on with the dissolution of r.
Deletes(j, nj, r) ==
  /\ Moves(j, nj, {}, {}, {})
  /\ UNCHANGED <<tables, crashes, chips, frozen>>
  /\ job[j].room = r /\ job[j].at \in Deleting
  /\ nj = Idle \/ (nj.room = r /\ nj.at \in Deleting)
  /\ open \ {r} \subseteq open'
  /\ \A q \in Room \ {r} :
       redis'[q] = redis[q] /\ sqlite'[q] = sqlite[q] /\ behind'[q] = behind[q]
  /\ redis'[r] \in {redis[r], NoSeats} /\ sqlite'[r] \in {sqlite[r], NoSeats}
  /\ nj.at # "delRedis" => redis'[r] = NoSeats
  /\ nj.at \notin {"delRedis", "delSqlite"} => sqlite'[r] = NoSeats

LEMMA DeletesSound ==
  ASSUME Typed, Sound, NEW j \in Job, NEW nj \in Jobs, NEW r \in Room, Deletes(j, nj, r)
  PROVE  Sound' /\ Stands
<1>1. Moves(j, nj, {}, {}, {}) /\ job'[j] = nj /\ \A q \in Room : tables'[q] = tables[q]
  BY DEF Deletes, Moves
<1>2. Dissolving(r) /\ tables[r] = NoSeats
  BY DEF Deletes, Dissolving, Deleting, Sound, TablesOpen
<1>3. ASSUME NEW q \in Room \ {r} PROVE Dissolving(q)' <=> Dissolving(q)
  <2>1. Dissolving(q)' <=> \/ nj.room = q /\ nj.at \in Deleting
                           \/ \E i \in Job \ {j} : job[i].room = q /\ job[i].at \in Deleting
    BY <1>1, DissolvingAfter
  <2> QED BY <2>1 DEF Deletes, Dissolving, Deleting, Idle
<1>4. ASSUME NEW q \in Room PROVE Books(q)' = Books(q)
  <2>1. CASE q # r
    BY <1>1, <1>3, <2>1, BooksKept DEF Deletes
  <2>2. CASE q = r /\ Dissolving(r)'
    BY <1>1, <1>2, <2>2, BooksCases, BooksAfter
  <2>3. CASE q = r /\ ~Dissolving(r)'
    <3>1. nj = Idle
      BY <1>1, <2>3, DissolvingAfter DEF Deletes
    <3>2. redis'[r] = NoSeats /\ sqlite'[r] = NoSeats
      BY <3>1 DEF Deletes, Idle
    <3>3. Recovered(r)' = Empty
      BY <3>2 DEF Recovered
    <3> QED BY <1>1, <1>2, <2>3, <3>3, BooksCases, BooksAfter
  <2> QED BY <2>1, <2>2, <2>3
<1>5. \A u : Seated(u)' <=> Seated(u)
  BY <1>4, SeatedKept
<1>6. nj.at \notin Movers \cup {"redis", "sqlite"} /\ job[j].at \notin Movers
  BY DEF Deletes, Deleting, Movers, Idle
<1>7. Frame(j, nj, {}, {}, {})
  BY <1>1, <1>5, <1>6 DEF Frame, Deletes
<1>8. TablesOpen'
  <2>1. ASSUME NEW q \in Room, tables'[q] # NoSeats PROVE q \in open' /\ ~Dissolving(q)'
    <3>1. q # r /\ tables[q] # NoSeats
      BY <1>1, <1>2, <2>1
    <3>2. q \in open /\ ~Dissolving(q)
      BY <3>1 DEF Sound, TablesOpen
    <3> QED BY <1>3, <3>1, <3>2 DEF Deletes
  <2> QED BY <2>1 DEF TablesOpen
<1>9. Deleted'
  <2>1. ASSUME NEW i \in Job \ {j}, job'[i].at \in {"delSqlite", "delRoom"}
        PROVE  /\ redis'[job'[i].room] = NoSeats
               /\ job'[i].at = "delRoom" => sqlite'[job'[i].room] = NoSeats
    <3>1. job'[i].at = job[i].at /\ job'[i].room = job[i].room
      BY <1>1 DEF Moves, Same
    <3>2. redis[job[i].room] = NoSeats /\ (job[i].at = "delRoom" => sqlite[job[i].room] = NoSeats)
      BY <2>1, <3>1 DEF Sound, Deleted
    <3>3. job[i].room \in Room
      BY <2>1, <3>1 DEF Typed, JobTyped
    <3> QED BY <3>1, <3>2, <3>3 DEF Deletes
  <2>2. /\ job'[j].at \in {"delSqlite", "delRoom"} => redis'[job'[j].room] = NoSeats
        /\ job'[j].at = "delRoom" => sqlite'[job'[j].room] = NoSeats
    BY <1>1 DEF Deletes, Idle
  <2> QED BY <2>1, <2>2 DEF Deleted
<1>10. OneSeat'
  <2>1. \A q \in Room : \A u \in User : (Books(q)[u])' = NoSeat \/ Books(q)[u] # NoSeat
    BY <1>4
  <2> QED BY <2>1, OneSeatKept DEF Sound
<1>11. OneMover'
  BY <1>7, OneMoverKept DEF Sound
<1>12. InMemory'
  <2>1. \A q \in Room : tables'[q] # NoSeats =>
          /\ redis'[q] = redis[q] /\ sqlite'[q] = sqlite[q] /\ behind'[q] = behind[q]
          /\ tables'[q] = tables[q]
          /\ job[j].at \in {"freeze", "credit", "unfreeze", "redis", "sqlite"} => job[j].room # q
    BY <1>1, <1>2 DEF Deletes, Deleting
  <2>2. crashes' = crashes
    BY DEF Deletes
  <2> QED BY <1>1, <2>1, <2>2, InMemoryKept DEF Sound
<1>13. OnDisk'
  <2>1. \A q \in Room : tables'[q] = NoSeats /\ ~Dissolving(q)' =>
          \/ /\ tables[q] = NoSeats /\ ~Dissolving(q)
             /\ redis'[q] = redis[q] /\ sqlite'[q] = sqlite[q]
          \/ redis'[q] = NoSeats /\ sqlite'[q] = NoSeats
    <3>1. ASSUME NEW q \in Room, ~Dissolving(q)', q = r
          PROVE  redis'[q] = NoSeats /\ sqlite'[q] = NoSeats
      <4>1. nj = Idle
        BY <1>1, <3>1, DissolvingAfter DEF Deletes
      <4> QED BY <3>1, <4>1 DEF Deletes, Idle
    <3> QED BY <1>1, <1>3, <3>1 DEF Deletes
  <2>2. \A q \in Room : sqlite'[q] \in {sqlite[q], NoSeats}
    BY DEF Deletes
  <2>3. job[j].snap # NoSeats
    BY IdleType DEF Typed, TypeOK, Jobs
  <2> QED BY <1>1, <1>6, <1>10, <2>1, <2>2, <2>3, OnDiskKept DEF Sound
<1>14. \A i \in Job : CallRight(i)'
  <2>1. CallRight(j)'
    BY <1>1 DEF CallRight, Deletes, Deleting, Idle
  <2> QED BY <1>7, <2>1, CallsKept DEF Sound
<1>15. \A u \in User : WalletRight(u)'
  BY <1>7, WalletsKept DEF Sound
<1>16. Stands
  BY <1>4, <1>7, AllStand
<1> QED BY <1>8, <1>9, <1>10, <1>11, <1>12, <1>13, <1>14, <1>15, <1>16 DEF Sound

LEMMA DeleteSound ==
  ASSUME Typed, Sound, NEW j \in Job, DelRedis(j) \/ DelSqlite(j) \/ DelRoom(j), mishap' = "none"
  PROVE  Sound' /\ Stands
<1>1. PICK old, r : old = job[j] /\ r = old.room
  OBVIOUS
<1>2. old \in Jobs /\ r \in Room
  BY <1>1 DEF Typed, TypeOK, JobTyped, DelRedis, DelSqlite, DelRoom
<1>3. CASE DelRedis(j)
  <2>1. PICK nj : nj = [old EXCEPT !.at = "delSqlite"] /\ Goes(j, nj, {}, {}, {})
    BY <1>1, <1>3 DEF DelRedis, To
  <2>2. nj \in Jobs /\ nj.at = "delSqlite" /\ nj.room = r
    BY <1>1, <1>2, <2>1 DEF Jobs, At
  <2>3. Moves(j, nj, {}, {}, {}) /\ mishap = "none"
    BY <2>1, <2>2, GoesMoves
  <2>4. redis'[r] = NoSeats /\ \A q \in Room \ {r} : redis'[q] = redis[q]
    BY <1>1, <1>2, <1>3, <2>3 DEF DelRedis, Mishap, Typed, TypeOK
  <2>5. Deletes(j, nj, r)
    BY <1>1, <1>3, <2>2, <2>3, <2>4 DEF Deletes, DelRedis, Deleting, wallet
  <2> QED BY <1>2, <2>2, <2>5, DeletesSound
<1>4. CASE DelSqlite(j)
  <2>1. PICK nj : nj = [old EXCEPT !.at = "delRoom"] /\ Goes(j, nj, {}, {}, {})
    BY <1>1, <1>4 DEF DelSqlite, To
  <2>2. nj \in Jobs /\ nj.at = "delRoom" /\ nj.room = r
    BY <1>1, <1>2, <2>1 DEF Jobs, At
  <2>3. Moves(j, nj, {}, {}, {})
    BY <2>1, <2>2, GoesMoves
  <2>4. /\ sqlite'[r] = NoSeats /\ redis[r] = NoSeats /\ redis' = redis
        /\ \A q \in Room \ {r} : sqlite'[q] = sqlite[q] /\ behind'[q] = behind[q]
    BY <1>1, <1>2, <1>4 DEF DelSqlite, Sound, Deleted, Typed, TypeOK
  <2>5. Deletes(j, nj, r)
    BY <1>1, <1>4, <2>2, <2>3, <2>4 DEF Deletes, DelSqlite, Deleting, wallet, counts
  <2> QED BY <1>2, <2>2, <2>5, DeletesSound
<1>5. CASE DelRoom(j)
  <2>1. Moves(j, Idle, {}, {}, {})
    BY <1>5, IdleType, GoesMoves DEF DelRoom
  <2>2. redis[r] = NoSeats /\ sqlite[r] = NoSeats
    BY <1>1, <1>5 DEF DelRoom, Sound, Deleted
  <2>3. Deletes(j, Idle, r)
    BY <1>1, <1>5, <2>1, <2>2 DEF Deletes, DelRoom, Deleting, wallet, counts
  <2> QED BY <1>2, <2>3, IdleType, DeletesSound
<1> QED BY <1>3, <1>4, <1>5

----------------------------------------------------------------------------
(* Trades, restarts, and the invariance *)

LEMMA AllSameBooks ==
  ASSUME \A i \in Job : Same(job[i], job'[i]), UNCHANGED <<tables, redis, sqlite>>
  PROVE  /\ \A r \in Room : Books(r)' = Books(r)
         /\ \A r \in Room : Dissolving(r)' <=> Dissolving(r)
         /\ \A u : Seated(u)' <=> Seated(u)
         /\ \A u : Leaving(u)' <=> Leaving(u)
         /\ \A u : Freezing(u)' <=> Freezing(u)
<1>1. \A r \in Room : Dissolving(r)' <=> Dissolving(r)
  BY DEF Dissolving, Same
<1>2. \A r \in Room : Books(r)' = Books(r)
  BY <1>1, BooksKept
<1>3. \A u : Seated(u)' <=> Seated(u)
  BY <1>2, SeatedKept
<1>4. \A u : Leaving(u)' <=> Leaving(u)
  BY DEF Leaving, Same
<1>5. \A u : Freezing(u)' <=> Freezing(u)
  BY DEF Freezing, Same
<1> QED BY <1>1, <1>2, <1>3, <1>4, <1>5

LEMMA TradeMarks ==
  ASSUME Typed, NEW u \in User, Trade(u), NEW i \in Job
  PROVE  /\ Same(job[i], job'[i])
         /\ ~job'[i].stale => ~job[i].stale /\ (job[i].at = "sit" => job[i].user # u)
<1>1. PICK old : old = job[i]
  OBVIOUS
<1>2. PICK stale \in BOOLEAN : stale = (job[i].stale \/ (u \in Holds(i) /\ job[i].at = "sit"))
  OBVIOUS
<1>3. job'[i] = [old EXCEPT !.stale = stale] /\ old \in Jobs
  <2>1. old \in Jobs
    BY <1>1 DEF Typed, TypeOK
  <2>2. job'[i] = [job[i] EXCEPT !.stale = @ \/ (u \in Holds(i) /\ job[i].at = "sit")]
    BY DEF Trade
  <2>3. job'[i] = [old EXCEPT !.stale = stale]
    BY <1>1, <1>2, <2>2, Zenon
  <2> QED BY <2>1, <2>3
<1>4. job'[i].stale = stale /\ Same(job[i], job'[i])
  BY <1>1, <1>3 DEF Jobs, Same
<1>5. ~stale => ~job[i].stale /\ (job[i].at = "sit" => job[i].user # u)
  BY <1>2 DEF Holds
<1> QED BY <1>4, <1>5

LEMMA TradeSound ==
  ASSUME Typed, Sound, NEW u \in User, Trade(u), mishap' = "none"
  PROVE  Sound' /\ Spends(u)
<1>1. \A i \in Job : /\ Same(job[i], job'[i])
                     /\ ~job'[i].stale => ~job[i].stale /\ (job[i].at = "sit" => job[i].user # u)
  BY TradeMarks
<1>2. /\ UNCHANGED <<frozen, tables, redis, sqlite, open, behind, crashes>>
      /\ \A w \in User \ {u} : chips'[w] = chips[w]
  BY DEF Trade, store, Typed, TypeOK
<1>3. /\ \A r \in Room : Books(r)' = Books(r)
      /\ \A r \in Room : Dissolving(r)' <=> Dissolving(r)
      /\ \A w : Seated(w)' <=> Seated(w)
      /\ \A w : Leaving(w)' <=> Leaving(w)
      /\ \A w : Freezing(w)' <=> Freezing(w)
  BY <1>1, <1>2, AllSameBooks
<1>4. ~Seated(u) /\ Writers(u) = {}
  BY DEF Trade, Mishap, Followed, SeatedAt, Seated
<1>5. TablesOpen'
  BY <1>2, <1>3 DEF TablesOpen, Sound
<1>6. Deleted'
  BY <1>1, <1>2 DEF Deleted, Sound, Same
<1>7. OneSeat'
  BY <1>3 DEF OneSeat, Sound
<1>8. OneMover'
  BY <1>1 DEF OneMover, Sound, Same
<1>9. InMemory'
  BY <1>1, <1>2 DEF InMemory, InStep, Awaited, Seating, Sound, Same
<1>10. OnDisk'
  BY <1>1, <1>2, <1>3 DEF OnDisk, Seating, Sound, Same
<1>11. ASSUME NEW i \in Job PROVE CallRight(i)'
  <2>1. /\ job'[i].at = job[i].at /\ job'[i].user = job[i].user /\ job'[i].room = job[i].room
        /\ job'[i].amount = job[i].amount /\ job'[i].seated = job[i].seated
        /\ job'[i].snap = job[i].snap
        /\ ~job'[i].stale => ~job[i].stale /\ (job[i].at = "sit" => job[i].user # u)
    BY <1>1 DEF Same
  <2>2. CallRight(i) /\ JobTyped(i)
    BY DEF Sound, Typed
  <2>3. \A w : w = job'[i].user =>
          (job'[i].at \in {"balance", "sit"} /\ ~job'[i].stale /\ ~job'[i].seated =>
            /\ ~Seated(w)'
            /\ job'[i].at = "sit" => job'[i].amount = chips'[w] \/ Leaving(w)')
    <3> SUFFICES ASSUME NEW w, w = job'[i].user,
                        job'[i].at \in {"balance", "sit"}, ~job'[i].stale, ~job'[i].seated
                 PROVE  /\ ~Seated(w)'
                        /\ job'[i].at = "sit" => job'[i].amount = chips'[w] \/ Leaving(w)'
      OBVIOUS
    <3>1. ~Seated(w) /\ (job[i].at = "sit" => job[i].amount = chips[w] \/ Leaving(w))
      BY <2>1, <2>2 DEF CallRight
    <3>2. job[i].at = "sit" => w \in User \ {u}
      BY <2>1, <2>2 DEF JobTyped, Personal
    <3> QED BY <1>2, <1>3, <2>1, <3>1, <3>2
  <2>4. job'[i].at = "freeze" =>
          /\ tables'[job'[i].room] # NoSeats
          /\ tables'[job'[i].room][job'[i].user] # NoSeat
          /\ ~job'[i].stale => chips'[job'[i].user] = job'[i].amount
    <3>1. job[i].at = "freeze" => job[i].user \in User \ {u}
      BY <1>4, <2>2, MoversWrite DEF JobTyped, Personal, Movers
    <3> QED BY <1>2, <2>1, <2>2, <3>1 DEF CallRight
  <2>5. job'[i].at \in {"redis", "sqlite"} =>
          /\ job'[i].snap # Empty
          /\ ~job'[i].stale => tables'[job'[i].room] = job'[i].snap
    BY <1>2, <2>1, <2>2 DEF CallRight
  <2>6. job'[i].at = "wallet" /\ ~job'[i].stale =>
          \A w \in User : job'[i].snap[w] # NoSeat => Seated(w)'
    BY <1>3, <2>1, <2>2 DEF CallRight
  <2> QED BY <2>3, <2>4, <2>5, <2>6 DEF CallRight
<1>12. ASSUME NEW w \in User PROVE WalletRight(w)'
  <2>1. WalletRight(w)
    BY DEF Sound
  <2>2. w # u => chips'[w] = chips[w]
    BY <1>2
  <2> QED BY <1>2, <1>3, <1>4, <2>1, <2>2 DEF WalletRight
<1>13. ASSUME NEW w \in User \ {u} PROVE Keeps(w)
  <2>1. Crediting(w)' = Crediting(w) /\ \A i \in Job : job'[i].amount = job[i].amount
    BY <1>1 DEF Crediting, Same
  <2>2. CASE Crediting(w) = {}
    BY <1>2, <1>3, <2>1, <2>2, PurseIs, PurseAfter DEF Keeps
  <2>3. CASE Crediting(w) # {}
    <3>1. PICK c \in Crediting(w) : c = CHOOSE i \in Crediting(w) : TRUE
      BY <2>3
    <3>2. Purse(w) = job[c].amount
      BY <2>3, <3>1 DEF Purse
    <3>3. Purse(w)' = job'[c].amount
      BY <2>1, <2>3, <3>1 DEF Purse
    <3>4. c \in Job
      BY DEF Crediting
    <3> QED BY <1>3, <2>1, <3>2, <3>3, <3>4 DEF Keeps
  <2> QED BY <2>2, <2>3
<1>14. Spends(u)
  <2>1. Crediting(u) = {}
    BY <1>4, MoversWrite DEF Crediting, Movers
  <2>2. Crediting(u)' = {}
    BY <1>1, <2>1 DEF Crediting, Same
  <2>3. Purse(u) = chips[u] /\ Purse(u)' = chips'[u]
    BY <2>1, <2>2, PurseIs, PurseAfter
  <2>4. chips[u] \in Nat /\ chips'[u] \in Nat
    BY TradeTyped DEF Typed, TypeOK
  <2>5. chips'[u] # chips[u]
    BY <2>4 DEF Trade, Typed, TypeOK
  <2> QED BY <1>3, <1>4, <1>13, <2>3, <2>4, <2>5 DEF Spends
<1> QED BY <1>5, <1>6, <1>7, <1>8, <1>9, <1>10, <1>11, <1>12, <1>14 DEF Sound

\* A restart that finds every call done and every snapshot in step loses nothing.
LEMMA CrashBooks ==
  ASSUME Typed, Sound, Crash, mishap' = "none"
  PROVE  /\ \A i \in Job : job[i] = Idle /\ job'[i] = Idle
         /\ \A r \in Room : Books(r)' = Books(r) /\ Seating(sqlite[r]) = Books(r)
                            /\ (redis[r] # NoSeats => redis[r] = Books(r))
<1>1. \A i \in Job : job[i] = Idle /\ job'[i] = Idle
  BY DEF Crash, Mishap, Followed
<1>2. \A r \in Room : tables[r] # NoSeats => behind[r] = {}
  BY DEF Crash, Mishap, Followed
<1>3. ASSUME NEW r \in Room
      PROVE  Seating(sqlite[r]) = Books(r) /\ (redis[r] # NoSeats => redis[r] = Books(r))
  <2>1. ~Dissolving(r)
    BY <1>1 DEF Dissolving, Idle
  <2>2. CASE tables[r] = NoSeats
    BY <2>1, <2>2, OnDiskAgree DEF Sound, OnDisk
  <2>3. CASE tables[r] # NoSeats
    <3>1. InStep(r)
      BY <2>3 DEF Sound, InMemory, Crash
    <3>2. /\ ~Awaited(r, {"freeze", "credit", "unfreeze", "redis", "sqlite"})
          /\ ~Awaited(r, {"freeze", "credit", "unfreeze", "redis"})
      BY <1>1 DEF Awaited, Idle
    <3> QED BY <1>2, <2>3, <3>1, <3>2, BooksCases DEF InStep
  <2> QED BY <2>2, <2>3
<1>4. ASSUME NEW r \in Room PROVE Books(r)' = Books(r)
  <2>1. ~Dissolving(r)'
    BY <1>1 DEF Dissolving, Idle
  <2>2. tables'[r] = NoSeats /\ redis' = redis /\ sqlite' = sqlite
    BY DEF Crash, store
  <2>3. Recovered(r)' = Books(r)
    BY <1>3, <2>2 DEF Recovered, Seating
  <2> QED BY <2>1, <2>2, <2>3, BooksAfter
<1> QED BY <1>1, <1>3, <1>4

LEMMA CrashSound ==
  ASSUME Typed, Sound, Crash, mishap' = "none"
  PROVE  Sound' /\ Stands
<1>1. /\ \A i \in Job : job[i] = Idle /\ job'[i] = Idle
      /\ \A r \in Room : Books(r)' = Books(r) /\ Seating(sqlite[r]) = Books(r)
                         /\ (redis[r] # NoSeats => redis[r] = Books(r))
  BY CrashBooks
<1>2. UNCHANGED <<redis, sqlite, chips, frozen>> /\ \A r \in Room : tables'[r] = NoSeats
  BY DEF Crash, wallet, store
<1>3. \A u : Seated(u)' <=> Seated(u)
  BY <1>1, SeatedKept
<1>4. TablesOpen' /\ InMemory'
  BY <1>2 DEF TablesOpen, InMemory
<1>5. Deleted' /\ OneMover'
  BY <1>1 DEF Deleted, OneMover, Idle, Movers
<1>6. OneSeat'
  <2>1. \A r \in Room : \A u \in User : (Books(r)[u])' = NoSeat \/ Books(r)[u] # NoSeat
    BY <1>1
  <2> QED BY <2>1, OneSeatKept DEF Sound
<1>7. OnDisk'
  <2>1. ASSUME NEW r \in Room, NEW u \in User, Seating(sqlite[r])[u] # NoSeat,
               NEW q \in Room \ {r}
        PROVE  Seating(sqlite[q])[u] = NoSeat
    BY <1>1, <2>1 DEF Sound, OneSeat
  <2>2. \A i \in Job : job'[i].at \notin {"redis", "sqlite"}
    BY <1>1 DEF Idle
  <2> QED BY <1>1, <1>2, <2>1, <2>2 DEF OnDisk, Seating
<1>8. \A i \in Job : CallRight(i)'
  BY <1>1, IdleRight
<1>9. ASSUME NEW u \in User PROVE WalletRight(u)'
  <2>1. ~Leaving(u)' /\ ~Leaving(u) /\ ~Freezing(u) /\ ~Freezing(u)'
    BY <1>1 DEF Leaving, Freezing, Idle
  <2>2. WalletRight(u)
    BY DEF Sound
  <2> QED BY <1>2, <1>3, <2>1, <2>2 DEF WalletRight
<1>10. ASSUME NEW u \in User PROVE Keeps(u)
  <2>1. Crediting(u) = {}
    BY <1>1 DEF Crediting, Idle
  <2>2. Crediting(u)' = {}
    BY <1>1 DEF Crediting, Idle
  <2>3. Purse(u)' = Purse(u)
    BY <1>2, <2>1, <2>2, PurseIs, PurseAfter
  <2> QED BY <1>1, <2>3 DEF Keeps
<1> QED BY <1>4, <1>5, <1>6, <1>7, <1>8, <1>9, <1>10 DEF Sound, Stands

LEMMA InitSound == Init => Sound
<1> SUFFICES ASSUME Init PROVE Sound
  OBVIOUS
<1>1. /\ \A i \in Job : job[i] = Idle
      /\ \A r \in Room : tables[r] = NoSeats /\ redis[r] = NoSeats /\ sqlite[r] = NoSeats
      /\ \A u \in User : frozen[u] = 0
  BY DEF Init
<1>2. \A r \in Room : ~Dissolving(r)
  BY <1>1 DEF Dissolving, Idle
<1>3. ASSUME NEW r \in Room PROVE Books(r) = Empty
  BY <1>1, <1>2, BooksCases DEF Recovered
<1>4. \A u \in User : ~Seated(u) /\ ~Leaving(u) /\ ~Freezing(u)
  BY <1>1, <1>3 DEF Seated, Leaving, Freezing, Empty, Idle
<1>5. TablesOpen /\ InMemory /\ Deleted /\ OneMover
  BY <1>1 DEF TablesOpen, InMemory, Deleted, OneMover, Idle, Movers
<1>6. OneSeat
  BY <1>3 DEF OneSeat, Empty
<1>7. OnDisk
  BY <1>1 DEF OnDisk, Seating, Empty, Idle
<1>8. \A i \in Job : CallRight(i)
  BY <1>1 DEF CallRight, Idle
<1>9. \A u \in User : WalletRight(u)
  BY <1>1, <1>4 DEF WalletRight
<1> QED BY <1>5, <1>6, <1>7, <1>8, <1>9 DEF Sound

\* A step before which something has gone wrong is none.
LEMMA StepFollowed == Next => mishap = "none"
<1> SUFFICES ASSUME Next PROVE mishap = "none"
  OBVIOUS
<1>1. ASSUME NEW u \in User, Trade(u) PROVE mishap = "none"
  BY <1>1 DEF Trade, Followed
<1>2. CASE Crash
  BY <1>2 DEF Crash, Followed
<1>3. ASSUME NEW j \in Job, NEW r \in Room, Play(j, r) PROVE mishap = "none"
  BY <1>3 DEF Play, Followed
<1>4. ASSUME NEW j \in Job, NEW u \in User, LeaveRoom(j, u) PROVE mishap = "none"
  BY <1>4 DEF LeaveRoom, Followed
<1>5. ASSUME NEW j \in Job, NEW u \in User, NEW r \in Room, JoinRoom(j, u, r)
      PROVE  mishap = "none"
  BY <1>5 DEF JoinRoom, Goes, Followed
<1>6. ASSUME NEW j \in Job,
             Balance(j) \/ Sit(j) \/ Freeze(j) \/ Redis(j) \/ Sqlite(j) \/ Wallet(j)
      PROVE  mishap = "none"
  BY <1>6 DEF Balance, Sit, Freeze, Redis, Sqlite, Wallet, Goes, Followed
<1>7. ASSUME NEW j \in Job, NobodyLeaves(j) \/ Remove(j) \/ Credit(j) \/ Unfreeze(j)
      PROVE  mishap = "none"
  BY <1>7 DEF NobodyLeaves, Remove, Credit, Unfreeze, Departs, Goes, Followed
<1>8. ASSUME NEW j \in Job, DelRedis(j) \/ DelSqlite(j) \/ DelRoom(j)
      PROVE  mishap = "none"
  BY <1>8 DEF DelRedis, DelSqlite, DelRoom, Goes, Followed
<1> QED BY <1>1, <1>2, <1>3, <1>4, <1>5, <1>6, <1>7, <1>8 DEF Next

LEMMA TradesKept ==
  ASSUME Next, ~\E u \in User : Trade(u)
  PROVE  trades' = trades
<1>1. CASE Crash
  BY <1>1 DEF Crash
<1>2. ASSUME NEW j \in Job, NEW r \in Room, Play(j, r) PROVE trades' = trades
  BY <1>2 DEF Play, counts
<1>3. ASSUME NEW j \in Job, NEW u \in User, LeaveRoom(j, u) PROVE trades' = trades
  BY <1>3 DEF LeaveRoom, counts
<1>4. ASSUME NEW j \in Job, NEW u \in User, NEW r \in Room, JoinRoom(j, u, r)
      PROVE  trades' = trades
  BY <1>4 DEF JoinRoom, counts
<1>5. ASSUME NEW j \in Job,
             Balance(j) \/ Sit(j) \/ Freeze(j) \/ Redis(j) \/ Sqlite(j) \/ Wallet(j)
      PROVE  trades' = trades
  BY <1>5 DEF Balance, Sit, Freeze, Redis, Sqlite, Wallet, counts
<1>6. ASSUME NEW j \in Job, NobodyLeaves(j) \/ Remove(j) \/ Credit(j) \/ Unfreeze(j)
      PROVE  trades' = trades
  BY <1>6 DEF NobodyLeaves, Remove, Credit, Unfreeze, counts
<1>7. ASSUME NEW j \in Job, DelRedis(j) \/ DelSqlite(j) \/ DelRoom(j)
      PROVE  trades' = trades
  BY <1>7 DEF DelRedis, DelSqlite, DelRoom, counts
<1> QED BY <1>1, <1>2, <1>3, <1>4, <1>5, <1>6, <1>7 DEF Next

\* What a step does to the players.
Step ==
  \/ Stands
  \/ \E u \in User, r \in Room : SitsDown(u, r)
  \/ \E u \in User, r \in Room : StandsUp(u, r)
  \/ \E u, v \in User, r \in Room : Wins(u, v, r)

LEMMA NextSound ==
  ASSUME Typed, Sound, Next, mishap' = "none"
  PROVE  /\ Sound'
         /\ \/ Step /\ trades' = trades
            \/ \E u \in User : Spends(u) /\ trades' = trades + 1
<1>1. ASSUME NEW u \in User, Trade(u)
      PROVE  Sound' /\ Spends(u) /\ trades' = trades + 1
  <2>1. Sound' /\ Spends(u)
    BY <1>1, TradeSound
  <2> QED BY <1>1, <2>1 DEF Trade
<1>2. ASSUME Crash PROVE Sound' /\ Step
  BY <1>2, CrashSound DEF Step
<1>3. ASSUME NEW j \in Job, NEW u \in User, NEW r \in Room, JoinRoom(j, u, r)
      PROVE  Sound' /\ Step
  BY <1>3, JoinRoomSound DEF Step
<1>4. ASSUME NEW j \in Job, NEW u \in User, LeaveRoom(j, u)
      PROVE  Sound' /\ Step
  BY <1>4, LeaveRoomSound DEF Step
<1>5. ASSUME NEW j \in Job, NEW r \in Room, Play(j, r)
      PROVE  Sound' /\ Step
  BY <1>5, PlaySound DEF Step
<1>6. ASSUME NEW j \in Job, Sit(j) \/ Remove(j)
      PROVE  Sound' /\ Step
  BY <1>6, SitSound, RemoveSound DEF Step
<1>7. ASSUME NEW j \in Job,
             \/ Balance(j) \/ Freeze(j) \/ Redis(j) \/ Sqlite(j) \/ Wallet(j)
             \/ NobodyLeaves(j) \/ Credit(j) \/ Unfreeze(j)
             \/ DelRedis(j) \/ DelSqlite(j) \/ DelRoom(j)
      PROVE  Sound' /\ Step
  BY <1>7, BalanceSound, FreezeSound, RedisSound, SqliteSound, WalletSound, NobodyLeavesSound,
     CreditSound, UnfreezeSound, DeleteSound DEF Step
<1>8. CASE \E u \in User : Trade(u)
  BY <1>1, <1>8
<1>9. CASE ~\E u \in User : Trade(u)
  <2>1. Sound' /\ Step
    BY <1>2, <1>3, <1>4, <1>5, <1>6, <1>7, <1>9 DEF Next
  <2> QED BY <1>9, <2>1, TradesKept
<1> QED BY <1>8, <1>9

LEMMA Invariance == Spec => []IInv
<1>1. Init => IInv
  BY InitTyped, InitSound DEF IInv
<1>2. IInv /\ [Next]_vars => IInv'
  <2> SUFFICES ASSUME IInv, [Next]_vars PROVE IInv'
    OBVIOUS
  <2>1. Typed'
    BY NextTyped DEF IInv
  <2>2. CASE UNCHANGED vars
    <3>1. /\ UNCHANGED <<chips, frozen, tables, redis, sqlite, open, behind, mishap, crashes>>
          /\ job' = job /\ \A i \in Job : Same(job[i], job'[i])
      BY <2>2 DEF vars, wallet, store, counts, Same
    <3>2. /\ \A r \in Room : Books(r)' = Books(r)
          /\ \A r \in Room : Dissolving(r)' <=> Dissolving(r)
          /\ \A w : Seated(w)' <=> Seated(w)
          /\ \A w : Leaving(w)' <=> Leaving(w)
          /\ \A w : Freezing(w)' <=> Freezing(w)
      BY <3>1, AllSameBooks
    <3>3. ASSUME Sound PROVE Sound'
      <4>1. TablesOpen' /\ Deleted' /\ OneMover' /\ OneSeat'
        BY <3>1, <3>2, <3>3 DEF TablesOpen, Deleted, OneMover, OneSeat, Sound
      <4>2. InMemory'
        BY <3>1, <3>3 DEF InMemory, InStep, Awaited, Seating, Sound
      <4>3. OnDisk'
        BY <3>1, <3>2, <3>3 DEF OnDisk, Seating, Sound
      <4>4. ASSUME NEW i \in Job PROVE CallRight(i)'
        BY <3>1, <3>2, <3>3 DEF CallRight, Sound
      <4>5. \A u \in User : WalletRight(u)'
        BY <3>1, <3>2, <3>3 DEF WalletRight, Sound
      <4> QED BY <4>1, <4>2, <4>3, <4>4, <4>5 DEF Sound
    <3> QED BY <2>1, <3>1, <3>3 DEF IInv
  <2>3. CASE Next
    BY <2>1, <2>3, StepFollowed, NextSound DEF IInv
  <2> QED BY <2>2, <2>3
<1> QED BY <1>1, <1>2, PTL DEF Spec

\* TypeOK: a wallet, a table and its snapshots hold natural numbers of chips, whatever the
\* calls, trades, lost writes and restarts.
THEOREM TypeCorrect == Spec => []TypeOK
<1>1. IInv => TypeOK
  BY DEF IInv, Typed
<1> QED BY <1>1, Invariance, PTL

\* SeatedMeansFrozen: unless a mishap is on record, who sits at a table and has no call in
\* progress has nothing available to spend or to sit down with elsewhere.
THEOREM SeatedMeansAlwaysFrozen == Spec => []SeatedMeansFrozen
<1>1. IInv => SeatedMeansFrozen
  <2> SUFFICES ASSUME IInv, mishap = "none", NEW u \in User, SeatedAt(u) # {}, ~Working(u)
               PROVE  Available(u) = 0
    BY DEF SeatedMeansFrozen
  <2>1. Seated(u) /\ ~Freezing(u)
    BY DEF SeatedAt, Seated, Working, Freezing
  <2>2. chips[u] <= frozen[u]
    BY <2>1 DEF IInv, Sound, WalletRight
  <2>3. chips[u] \in Nat /\ frozen[u] \in Nat
    BY DEF IInv, Typed, TypeOK
  <2> QED BY <2>2, <2>3 DEF Available
<1> QED BY <1>1, Invariance, PTL

\* NothingStranded: unless a mishap is on record, chips are frozen only for who sits at a
\* table or has a call in progress.
THEOREM NothingEverStranded == Spec => []NothingStranded
<1>1. IInv => NothingStranded
  <2> SUFFICES ASSUME IInv, mishap = "none", NEW u \in User, frozen[u] > 0
               PROVE  SeatedAt(u) # {} \/ Working(u)
    BY DEF NothingStranded
  <2>1. Seated(u) \/ Leaving(u)
    BY DEF IInv, Sound, WalletRight
  <2> QED BY <2>1 DEF SeatedAt, Seated, Working, Leaving
<1> QED BY <1>1, Invariance, PTL

----------------------------------------------------------------------------
(* The promise *)

SeatNow == [u \in User |-> IF mishap = "none" THEN OnlyOf(SeatedAt(u)) ELSE Nowhere]
WorthNow == [u \in User |-> IF mishap = "none" THEN Worth(u) ELSE 0]
TradesNow == IF mishap = "none" THEN trades ELSE 0

\* Where a user is, and what he has.
LEMMA WorthIs ==
  ASSUME OneSeat, NEW u \in User
  PROVE  /\ \A r \in Room : Books(r)[u] # NoSeat =>
                              OnlyOf(SeatedAt(u)) = r /\ Worth(u) = Books(r)[u]
         /\ ~Seated(u) => OnlyOf(SeatedAt(u)) = Nowhere /\ Worth(u) = Purse(u)
<1>1. ASSUME NEW r \in Room, Books(r)[u] # NoSeat
      PROVE  OnlyOf(SeatedAt(u)) = r /\ Worth(u) = Books(r)[u]
  <2>1. SeatedAt(u) = {r}
    BY <1>1 DEF SeatedAt, OneSeat
  <2>2. OnlyOf(SeatedAt(u)) = r
    BY <2>1 DEF OnlyOf
  <2> QED BY <2>1, <2>2 DEF Worth
<1>2. ASSUME ~Seated(u)
      PROVE  OnlyOf(SeatedAt(u)) = Nowhere /\ Worth(u) = Purse(u)
  <2>1. SeatedAt(u) = {}
    BY <1>2 DEF SeatedAt, Seated
  <2> QED BY <2>1 DEF OnlyOf, Worth, Purse, Crediting
<1> QED BY <1>1, <1>2

LEMMA WorthAfter ==
  ASSUME OneSeat', NEW u \in User
  PROVE  /\ \A r \in Room : (Books(r)[u])' # NoSeat =>
                              OnlyOf(SeatedAt(u)') = r /\ Worth(u)' = (Books(r)[u])'
         /\ ~Seated(u)' => OnlyOf(SeatedAt(u)') = Nowhere /\ Worth(u)' = Purse(u)'
<1>1. ASSUME NEW r \in Room, (Books(r)[u])' # NoSeat
      PROVE  OnlyOf(SeatedAt(u)') = r /\ Worth(u)' = (Books(r)[u])'
  <2>1. SeatedAt(u)' = {r}
    BY <1>1 DEF SeatedAt, OneSeat
  <2>2. OnlyOf(SeatedAt(u)') = r
    BY <2>1 DEF OnlyOf
  <2> QED BY <2>1, <2>2 DEF Worth
<1>2. ASSUME ~Seated(u)'
      PROVE  OnlyOf(SeatedAt(u)') = Nowhere /\ Worth(u)' = Purse(u)'
  <2>1. SeatedAt(u)' = {}
    BY <1>2 DEF SeatedAt, Seated
  <2> QED BY <2>1 DEF OnlyOf, Worth, Purse, Crediting
<1> QED BY <1>1, <1>2

LEMMA KeepsWorth ==
  ASSUME OneSeat, OneSeat', NEW u \in User, Keeps(u)
  PROVE  OnlyOf(SeatedAt(u)') = OnlyOf(SeatedAt(u)) /\ Worth(u)' = Worth(u)
<1>1. CASE Seated(u)
  <2>1. PICK r \in Room : Books(r)[u] # NoSeat
    BY <1>1 DEF Seated
  <2>2. (Books(r)[u])' = Books(r)[u]
    BY DEF Keeps
  <2> QED BY <2>1, <2>2, WorthIs, WorthAfter
<1>2. CASE ~Seated(u)
  <2>1. ~Seated(u)'
    BY <1>2 DEF Seated, Keeps
  <2>2. Purse(u)' = Purse(u)
    BY <1>2 DEF Keeps
  <2> QED BY <1>2, <2>1, <2>2, WorthIs, WorthAfter
<1> QED BY <1>1, <1>2

LEMMA NowIs ==
  ASSUME mishap = "none", mishap' = "none"
  PROVE  /\ \A u \in User : SeatNow[u] = OnlyOf(SeatedAt(u)) /\ SeatNow'[u] = OnlyOf(SeatedAt(u)')
         /\ \A u \in User : WorthNow[u] = Worth(u) /\ WorthNow'[u] = Worth(u)'
         /\ TradesNow = trades /\ TradesNow' = trades'
         /\ SeatNow = [u \in User |-> SeatNow[u]] /\ SeatNow' = [u \in User |-> SeatNow'[u]]
         /\ WorthNow = [u \in User |-> WorthNow[u]] /\ WorthNow' = [u \in User |-> WorthNow'[u]]
BY DEF SeatNow, WorthNow, TradesNow, OnlyOf

LEMMA PromiseStutters ==
  ASSUME SeatNow' = SeatNow, WorthNow' = WorthNow, TradesNow' = TradesNow,
         (mishap # "none") <=> (mishap' # "none")
  PROVE  UNCHANGED Promise!vars
BY DEF Promise!vars, SeatNow, WorthNow, TradesNow

LEMMA PromiseVoids ==
  ASSUME mishap' # "none"
  PROVE  Promise!Next
<1>1. Promise!Void
  BY DEF Promise!Void
<1> QED BY <1>1 DEF Promise!Next

LEMMA PromiseSits ==
  ASSUME NEW u \in User, NEW r \in Room, SeatNow[u] = Nowhere,
         SeatNow' = [SeatNow EXCEPT ![u] = r], WorthNow' = WorthNow, TradesNow' = TradesNow,
         mishap = "none", mishap' = "none"
  PROVE  Promise!Next
<1>1. Promise!SitDown(u, r)
  BY DEF Promise!SitDown, SeatNow, WorthNow, TradesNow
<1>2. SeatNow' # SeatNow
  BY JobAssumption DEF SeatNow
<1> QED BY <1>1, <1>2 DEF Promise!Next, SeatNow

LEMMA PromiseStands ==
  ASSUME NEW u \in User, SeatNow[u] # Nowhere,
         SeatNow' = [SeatNow EXCEPT ![u] = Nowhere], WorthNow' = WorthNow, TradesNow' = TradesNow,
         mishap = "none", mishap' = "none"
  PROVE  Promise!Next
<1>1. Promise!StandUp(u)
  BY DEF Promise!StandUp, SeatNow, WorthNow, TradesNow
<1>2. SeatNow' # SeatNow
  BY DEF SeatNow
<1> QED BY <1>1, <1>2 DEF Promise!Next, SeatNow

LEMMA PromiseWins ==
  ASSUME NEW u \in User, NEW v \in User, u # v, SeatNow[u] = SeatNow[v], SeatNow[u] # Nowhere,
         SeatNow' = SeatNow, TradesNow' = TradesNow, mishap = "none", mishap' = "none",
         WorthNow' = [WorthNow EXCEPT ![u] = WorthNow'[u], ![v] = WorthNow'[v]],
         WorthNow'[u] > WorthNow[u],
         WorthNow'[u] + WorthNow'[v] = WorthNow[u] + WorthNow[v],
         WorthNow' # WorthNow
  PROVE  Promise!Next
<1>1. Promise!Win(u, v)
  BY DEF Promise!Win, SeatNow, WorthNow, TradesNow
<1> QED BY <1>1 DEF Promise!Next, WorthNow

LEMMA PromiseTrades ==
  ASSUME NEW u \in User, SeatNow[u] = Nowhere, SeatNow' = SeatNow,
         WorthNow' = [WorthNow EXCEPT ![u] = WorthNow'[u]], WorthNow'[u] \in Nat,
         WorthNow' # WorthNow, TradesNow' = TradesNow + 1, mishap = "none", mishap' = "none"
  PROVE  Promise!Next
<1>1. Promise!Trade(u)
  BY DEF Promise!Trade, SeatNow, WorthNow, TradesNow
<1> QED BY <1>1 DEF Promise!Next, WorthNow

LEMMA StandsKeeps ==
  ASSUME Sound, Sound', Stands, trades' = trades, mishap = "none", mishap' = "none"
  PROVE  UNCHANGED Promise!vars
<1>1. \A u \in User : SeatNow'[u] = SeatNow[u] /\ WorthNow'[u] = WorthNow[u]
  BY KeepsWorth, NowIs DEF Sound, Stands
<1>2. SeatNow' = SeatNow /\ WorthNow' = WorthNow /\ TradesNow' = TradesNow
  BY <1>1, NowIs
<1> QED BY <1>2, PromiseStutters

LEMMA SitsDownKeeps ==
  ASSUME Sound, Sound', NEW u \in User, NEW r \in Room, SitsDown(u, r), trades' = trades,
         mishap = "none", mishap' = "none"
  PROVE  Promise!Next
<1>1. \A w \in User \ {u} : SeatNow'[w] = SeatNow[w] /\ WorthNow'[w] = WorthNow[w]
  BY KeepsWorth, NowIs DEF Sound, SitsDown
<1>2. SeatNow[u] = Nowhere /\ WorthNow[u] = Purse(u)
  BY WorthIs, NowIs DEF Sound, SitsDown
<1>3. SeatNow'[u] = r /\ WorthNow'[u] = Purse(u)
  BY WorthAfter, NowIs DEF Sound, SitsDown
<1>4. SeatNow' = [SeatNow EXCEPT ![u] = r] /\ WorthNow' = WorthNow /\ TradesNow' = TradesNow
  BY <1>1, <1>2, <1>3, NowIs
<1> QED BY <1>2, <1>4, PromiseSits

LEMMA StandsUpKeeps ==
  ASSUME Sound, Sound', NEW u \in User, NEW r \in Room, StandsUp(u, r), trades' = trades,
         mishap = "none", mishap' = "none"
  PROVE  Promise!Next
<1>1. \A w \in User \ {u} : SeatNow'[w] = SeatNow[w] /\ WorthNow'[w] = WorthNow[w]
  BY KeepsWorth, NowIs DEF Sound, StandsUp
<1>2. SeatNow[u] = r /\ WorthNow[u] = Books(r)[u]
  BY WorthIs, NowIs DEF Sound, StandsUp
<1>3. SeatNow'[u] = Nowhere /\ WorthNow'[u] = Books(r)[u]
  BY WorthAfter, NowIs DEF Sound, StandsUp
<1>4. /\ SeatNow' = [SeatNow EXCEPT ![u] = Nowhere] /\ WorthNow' = WorthNow
      /\ TradesNow' = TradesNow
  BY <1>1, <1>2, <1>3, NowIs
<1>5. SeatNow[u] # Nowhere
  BY <1>2, JobAssumption
<1> QED BY <1>4, <1>5, PromiseStands

LEMMA WinsKeeps ==
  ASSUME Sound, Sound', NEW u \in User, NEW v \in User, NEW r \in Room, Wins(u, v, r),
         trades' = trades, mishap = "none", mishap' = "none"
  PROVE  Promise!Next
<1>1. \A w \in User \ {u, v} : SeatNow'[w] = SeatNow[w] /\ WorthNow'[w] = WorthNow[w]
  BY KeepsWorth, NowIs DEF Sound, Wins
<1>2. PICK n, m \in Nat : n = Books(r)[u] /\ m = Books(r)[v]
  BY DEF Wins
<1>3. /\ n # NoSeat /\ m # NoSeat /\ n + 1 # NoSeat /\ m - 1 # NoSeat
      /\ (Books(r)[u])' = n + 1 /\ (Books(r)[v])' = m - 1
  BY <1>2, SeatAssumption DEF Wins
<1>4. SeatNow[u] = r /\ WorthNow[u] = n /\ SeatNow[v] = r /\ WorthNow[v] = m
  BY <1>2, <1>3, WorthIs, NowIs DEF Sound
<1>5. SeatNow'[u] = r /\ WorthNow'[u] = n + 1 /\ SeatNow'[v] = r /\ WorthNow'[v] = m - 1
  BY <1>3, WorthAfter, NowIs DEF Sound
<1>6. SeatNow' = SeatNow /\ TradesNow' = TradesNow
  BY <1>1, <1>4, <1>5, NowIs
<1>7. WorthNow' = [WorthNow EXCEPT ![u] = WorthNow'[u], ![v] = WorthNow'[v]]
  BY <1>1, NowIs
<1>8. WorthNow' # WorthNow
  BY <1>4, <1>5
<1>9. r # Nowhere /\ u # v
  BY JobAssumption DEF Wins
<1>10. WorthNow'[u] > WorthNow[u] /\ WorthNow'[u] + WorthNow'[v] = WorthNow[u] + WorthNow[v]
  BY <1>4, <1>5
<1> QED BY <1>4, <1>6, <1>7, <1>8, <1>9, <1>10, PromiseWins

LEMMA SpendsKeeps ==
  ASSUME Sound, Sound', NEW u \in User, Spends(u), trades' = trades + 1,
         mishap = "none", mishap' = "none"
  PROVE  Promise!Next
<1>1. \A w \in User \ {u} : SeatNow'[w] = SeatNow[w] /\ WorthNow'[w] = WorthNow[w]
  BY KeepsWorth, NowIs DEF Sound, Spends
<1>2. SeatNow[u] = Nowhere /\ WorthNow[u] = Purse(u)
  BY WorthIs, NowIs DEF Sound, Spends
<1>3. SeatNow'[u] = Nowhere /\ WorthNow'[u] = Purse(u)'
  BY WorthAfter, NowIs DEF Sound, Spends
<1>4. SeatNow' = SeatNow /\ TradesNow' = TradesNow + 1
  BY <1>1, <1>2, <1>3, NowIs
<1>5. WorthNow' = [WorthNow EXCEPT ![u] = WorthNow'[u]]
  BY <1>1, NowIs
<1>6. WorthNow' # WorthNow /\ WorthNow'[u] \in Nat
  BY <1>2, <1>3 DEF Spends
<1> QED BY <1>2, <1>4, <1>5, <1>6, PromiseTrades

LEMMA NextKeeps ==
  ASSUME IInv, IInv', [Next]_vars
  PROVE  [Promise!Next]_(Promise!vars)
<1>1. CASE UNCHANGED vars
  <2>1. /\ UNCHANGED <<chips, frozen, tables, redis, sqlite, open, job, mishap, trades>>
    BY <1>1 DEF vars, wallet, store, counts
  <2>2. UNCHANGED Promise!vars
    BY <2>1 DEF Promise!vars, OnlyOf, SeatedAt, Worth, Books, Dissolving, Recovered
  <2> QED BY <2>2
<1>2. CASE Next /\ mishap' # "none"
  BY <1>2, PromiseVoids
<1>3. CASE Next /\ mishap' = "none"
  <2>1. mishap = "none" /\ Typed /\ Sound /\ Sound'
    BY <1>3, StepFollowed DEF IInv
  <2>2. \/ Step /\ trades' = trades
        \/ \E u \in User : Spends(u) /\ trades' = trades + 1
    BY <1>3, <2>1, NextSound
  <2> QED BY <1>3, <2>1, <2>2, StandsKeeps, SitsDownKeeps, StandsUpKeeps, WinsKeeps,
             SpendsKeeps DEF Step
<1> QED BY <1>1, <1>2, <1>3

LEMMA InitKeeps == Init => Promise!Init
<1> SUFFICES ASSUME Init PROVE Promise!Init
  OBVIOUS
<1>1. mishap = "none" /\ trades \in Nat /\ \A i \in Job : job[i] = Idle
  BY BoundAssumption DEF Init
<1>2. \A r \in Room : Books(r) = Empty
  <2>1. \A r \in Room : tables[r] = NoSeats /\ redis[r] = NoSeats /\ sqlite[r] = NoSeats
    BY DEF Init
  <2>2. \A r \in Room : ~Dissolving(r)
    BY <1>1 DEF Dissolving, Idle
  <2> QED BY <2>1, <2>2, BooksCases DEF Recovered
<1>3. ASSUME NEW u \in User
      PROVE  OnlyOf(SeatedAt(u)) = Nowhere /\ Worth(u) \in Nat
  <2>1. ~Seated(u)
    BY <1>2 DEF Seated, Empty
  <2>2. Crediting(u) = {}
    BY <1>1 DEF Crediting, Idle
  <2>3. Purse(u) \in Nat
    BY <2>2, PurseIs, StakesAssumption DEF Init
  <2>4. OneSeat
    BY <1>2 DEF OneSeat, Empty
  <2> QED BY <2>1, <2>3, <2>4, WorthIs
<1> QED BY <1>1, <1>3 DEF Promise!Init

\* PromiseKept: joining, leaving, the hands, the snapshots and the wallet implement
\* SeatPromise: until a mishap, a player is at one table at most, keeps his chips whether
\* he carries them or plays with them, and loses them only to a player of his table.
THEOREM SeatsKeepPromise == Spec => PromiseKept
<1>1. IInv /\ IInv' /\ [Next]_vars => [Promise!Next]_(Promise!vars)
  BY NextKeeps
<1> QED BY <1>1, InitKeeps, Invariance, PTL DEF PromiseKept, Promise!Spec, Spec

=============================================================================
