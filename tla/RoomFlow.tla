------------------------------ MODULE RoomFlow ------------------------------
(***************************************************************************)
(* What drives one room from hand to hand: the handlers of                 *)
(* apps/backend/src/websocket/app.gateway.ts, their three countdowns and   *)
(* the timers that end them.  The table is reduced to its stage, its turn  *)
(* and its countdowns; PokerTable has the rest of it.                      *)
(*                                                                         *)
(* A call is a job that runs from one database write to the next.  Client  *)
(* messages hold the room lock (a promise chain); timers and join_room do  *)
(* not, so they run in between.  A table in memory is read at once.        *)
(*                                                                         *)
(* Time goes in ticks: a countdown lasts some, a timer that is due fires   *)
(* before the next one, and a call is over before the second.              *)
(***************************************************************************)
EXTENDS Naturals, FiniteSets

CONSTANTS
  Job,         \* bound: the calls that can be in progress at once
  NoJob, NoTime,
  ActionTicks, SettlementTicks, ReadyTicks, SoloTicks,
               \* ACTION_DURATION_MS, ...: 20 s, 5 s, 5 s, 10 s
  MaxTimers,   \* bound: timers of the room that exist at once
  MaxMoves,    \* bound: turns, late actions and departures of one hand
  MaxCrashes   \* bound: restarts of the server

ASSUME JobAssumption   == NoJob \notin Job
ASSUME TimeAssumption  == /\ NoTime \notin Nat
                          /\ {ActionTicks, SettlementTicks, ReadyTicks, SoloTicks} \subseteq Nat \ {0}
\* A turn is longer than any call, which is over before the second tick.
ASSUME TurnAssumption  == ActionTicks > 1
ASSUME BoundAssumption == MaxTimers \in Nat /\ MaxMoves \in Nat \ {0} /\ MaxCrashes \in Nat

Kind == {"action", "settlement", "ready"}
Slot == 1..MaxTimers

\* GONE: the room has been dissolved.  ACTION: PREFLOP to RIVER.
Stage == {"WAITING", "ACTION", "SETTLEMENT", "GONE"}

VARIABLES
  table,     \* the Table in memory
  timers,    \* the timers in actionTimers, settlementTimers, autoStartTimers, and lost ones
  job,       \* the calls in progress
  lock,      \* who holds the room lock
  saved,     \* the snapshot in the database
  crashes,
  restarted, \* history: nobody has sent a message since the restart
  recorded,  \* history: how often the settlement of this hand has been recorded
  twice      \* history: a call that has recorded a settlement again is in progress

vars == <<table, timers, job, lock, saved, crashes, restarted, recorded, twice>>

\* ends: actionEndsAt, settlementEndsAt, readyCountdownEndsAt, as ticks from now.
\* live: getTimeoutAction has an answer for whoever holds the turn.
\* stalled: history, the time was up when it had none.
\* posted: history, POST leave-room moved the turn or ended the hand, whose countdown has
\* not begun since.
Table == [stage : Stage, live : BOOLEAN, stalled : BOOLEAN, posted : BOOLEAN, left : 0..MaxMoves,
          ends : [Kind -> Nat \cup {NoTime}]]

\* dead: cleared, and still in its map.  mapped: it is the entry of its map.
\* late: the turn has moved since its countdown began.
Timer == [st : {"free", "live", "dead"}, kind : Kind, mapped : BOOLEAN, late : BOOLEAN, rest : Nat]
Free  == [st |-> "free", kind |-> "action", mapped |-> FALSE, late |-> FALSE, rest |-> 0]

\* at: the write a job waits for.  then: where it goes on after a call it makes.
\* kind, rest, late: of the timer it is about to set.  aged: a tick has passed.
At == {"idle", "act", "ready", "join", "store", "save", "acted", "timedOut", "readied",
       "left", "leaving", "counted", "record", "reset", "arm"}
Jobs == [at : At, then : At, kind : Kind, rest : Nat, late : BOOLEAN, next : Stage,
         aged : BOOLEAN, snap : Table]

NewTable == [stage |-> "WAITING", live |-> FALSE, stalled |-> FALSE, posted |-> FALSE, left |-> 0,
             ends |-> [k \in Kind |-> NoTime]]

Idle == [at |-> "idle", then |-> "idle", kind |-> "action", rest |-> 0, late |-> FALSE,
         next |-> "WAITING", aged |-> FALSE, snap |-> NewTable]

TypeOK ==
  /\ table \in Table /\ saved \in Table
  /\ timers \in [Slot -> Timer]
  /\ job \in [Job -> Jobs]
  /\ lock \in Job \cup {NoJob}
  /\ crashes \in 0..MaxCrashes /\ recorded \in 0..2
  /\ restarted \in BOOLEAN /\ twice \in BOOLEAN

Init ==
  /\ table = NewTable /\ saved = NewTable
  /\ timers = [s \in Slot |-> Free]
  /\ job = [j \in Job |-> Idle]
  /\ lock = NoJob
  /\ crashes = 0 /\ recorded = 0
  /\ restarted = FALSE /\ twice = FALSE

----------------------------------------------------------------------------
(* The timer maps, and the table's countdowns *)

Entry(ts, k, s) == ts[s].mapped /\ ts[s].kind = k

Has(k) == \E s \in Slot : Entry(timers, k, s)

\* Mutant: the old timer is not cleared.
KeepTimer(ts, k) == ts

\* clearTimeout of the entry, which stays in the map
ClearTimer(ts, k) ==
  [s \in Slot |-> IF Entry(ts, k, s) THEN [ts[s] EXCEPT !.st = "dead", !.rest = 0] ELSE ts[s]]

\* delete of the entry, which does not stop the timer
DeleteEntry(ts, k) ==
  [s \in Slot |-> IF ~Entry(ts, k, s) THEN ts[s]
                  ELSE IF ts[s].st = "dead" THEN Free
                  ELSE [ts[s] EXCEPT !.mapped = FALSE]]

ClearRoundTimers(ts) == [s \in Slot |-> IF ts[s].mapped THEN Free ELSE ts[s]]

FreeSlots(ts, k) == {s \in Slot : DeleteEntry(ts, k)[s].st = "free"}

\* setTimeout, and set of the entry
SetTimer(ts, k, rest, late) ==
  LET s == CHOOSE x \in FreeSlots(ts, k) : \A y \in FreeSlots(ts, k) : x <= y
  IN  [DeleteEntry(ts, k) EXCEPT ![s] =
         [st |-> "live", kind |-> k, mapped |-> TRUE, late |-> late, rest |-> rest]]

\* The countdown that belongs to a stage.
KindOf(stage) ==
  CASE stage = "ACTION" -> "action" [] stage = "SETTLEMENT" -> "settlement" [] OTHER -> "ready"

\* beginActionCountdown, beginSettlementCountdown, beginReadyCountdown
Begin(tb, k, ticks) ==
  [tb EXCEPT !.stalled = FALSE, !.posted = @ /\ k # KindOf(tb.stage),
             !.ends = [x \in Kind |-> IF x = k THEN ticks
                                      ELSE IF k = "action" THEN tb.ends[x] ELSE NoTime]]

\* startHand
StartHand(live) == [NewTable EXCEPT !.stage = "ACTION", !.live = live, !.left = MaxMoves]

\* processAction, foldSitOutPlayer: the turn moves on, perhaps to a player who
\* has no timeout action, or the hand ends.
Moves(tb) ==
  {[tb EXCEPT !.stage = to[1], !.live = to[2], !.stalled = FALSE, !.left = @ - 1,
              !.ends.action = NoTime] :
     to \in {<<"SETTLEMENT", FALSE>>} \cup IF tb.left > 1 THEN {"ACTION"} \X BOOLEAN ELSE {}}

----------------------------------------------------------------------------
(* Steps of the jobs *)

\* Job j goes on as nj, with the table at tb and the timers at ts.  If the turn
\* has moved, the action timers become late.
Step(j, nj, tb, ts, moved) ==
  /\ table' = tb
  /\ timers' = [s \in Slot |-> IF moved /\ ts[s].st = "live" /\ ts[s].kind = "action"
                               THEN [ts[s] EXCEPT !.late = TRUE] ELSE ts[s]]
  /\ job' = [i \in Job |-> IF i = j THEN [nj EXCEPT !.aged = job[j].aged /\ nj.at # "idle"]
                           ELSE IF moved /\ job[i].at = "arm" /\ job[i].kind = "action"
                           THEN [job[i] EXCEPT !.late = TRUE] ELSE job[i]]
  /\ recorded' = IF nj.at = "record" THEN (IF recorded = 0 THEN 1 ELSE 2)
                 ELSE IF table.stage = "WAITING" /\ tb.stage = "ACTION" THEN 0 ELSE recorded
  /\ twice' = ((twice \/ (nj.at = "record" /\ recorded > 0))
                /\ \E i \in Job : job'[i].at = "record")

\* Bound: snapshots are not kept once the last crash has been.
Snapshot(tb) == IF crashes < MaxCrashes THEN tb ELSE NewTable

\* A write of the table's state is issued: its snapshot is taken now.
Writing(at, then, next, tb) ==
  [Idle EXCEPT !.at = at, !.then = then, !.next = next, !.snap = Snapshot(tb)]

Arming(k, ticks, then, tb) ==
  [Idle EXCEPT !.at = "arm", !.then = then, !.kind = k, !.rest = ticks, !.snap = Snapshot(tb)]

GoOn(then) == [Idle EXCEPT !.at = then]

\* scheduleActionTimeout
ScheduleActionTimeout(j, then, tb, ts) ==
  IF tb.stage # "ACTION"
  THEN Step(j, GoOn(then), [tb EXCEPT !.ends.action = NoTime],
            DeleteEntry(ClearTimer(ts, "action"), "action"), FALSE)
  ELSE LET begun == Begin(tb, "action", ActionTicks)
       IN  Step(j, Arming("action", ActionTicks, then, begun), begun, ClearTimer(ts, "action"), FALSE)

\* Mutant: no timer follows the countdown of a settlement.
UntimedPostHandFlow(j, then, tb, ts) ==
  Step(j, GoOn(then), Begin(tb, "settlement", SettlementTicks), ClearRoundTimers(ts), FALSE)

\* schedulePostHandFlow
SchedulePostHandFlow(j, then, tb, ts) ==
  LET begun == Begin(tb, "settlement", SettlementTicks)
  IN  Step(j, Arming("settlement", SettlementTicks, then, begun), begun, ClearRoundTimers(ts), FALSE)

\* scheduleAutoStart
ScheduleAutoStart(j, then, ticks, tb, ts) ==
  LET begun == Begin(tb, "ready", ticks)
  IN  Step(j, Arming("ready", ticks, then, begun), begun, ClearTimer(ts, "ready"), FALSE)

\* finalizeActionTimeout, up to its first write
FinalizeActionTimeout(j, then, ts0) ==
  LET ts == DeleteEntry(ts0, "action")
  IN  IF table.stage = "ACTION" /\ table.live
      THEN \E tb \in Moves(table) : Step(j, Writing("timedOut", then, tb.stage, tb), tb, ts, TRUE)
      ELSE Step(j, GoOn(then), [table EXCEPT !.stalled = table.stage = "ACTION"], ts, FALSE)

\* finalizeReadyCountdown, up to its first write
FinalizeReadyCountdown(j, then, ts0) ==
  LET ts == DeleteEntry(ts0, "ready")
      waiting == [Idle EXCEPT !.at = "counted", !.then = then]
  IN  IF table.stage # "WAITING"
      THEN Step(j, GoOn(then), table, ts, FALSE)
      ELSE \/ \E live \in BOOLEAN : Step(j, waiting, StartHand(live), ts, TRUE)
           \/ Step(j, waiting, [table EXCEPT !.ends.ready = NoTime], ts, FALSE)

\* finalizeSettlement, up to persistSettlementRecords
FinalizeSettlement(j, then, ts0) ==
  LET ts == DeleteEntry(ts0, "settlement")
  IN  IF table.stage = "SETTLEMENT"
      THEN Step(j, [Idle EXCEPT !.at = "record", !.then = then], table, ts, FALSE)
      ELSE Step(j, GoOn(then), table, ts, FALSE)

Finalize(k, j, then, ts) ==
  CASE k = "action"     -> FinalizeActionTimeout(j, then, ts)
    [] k = "ready"      -> FinalizeReadyCountdown(j, then, ts)
    [] k = "settlement" -> FinalizeSettlement(j, then, ts)

\* Mutant: a deadline that has passed is left to its timer.
RecoverFutureOnly(j, then) ==
  LET k == KindOf(table.stage)
      rest == table.ends[k]
  IN  IF rest \in {0, NoTime} \/ Has(k) THEN Step(j, GoOn(then), table, timers, FALSE)
      ELSE /\ FreeSlots(timers, k) # {}
           /\ Step(j, GoOn(then), table, SetTimer(timers, k, rest, FALSE), FALSE)

\* ensureRecoveredRoundFlow: a table restored from its snapshot has its
\* deadlines, and no timers.
EnsureRecovered(j, then) ==
  LET k == KindOf(table.stage)
      rest == table.ends[k]
      ts == IF k = "settlement" THEN ClearRoundTimers(timers) ELSE timers
  IN  \/ rest = 0 /\ Finalize(k, j, then, timers)
      \/ /\ rest \notin {0, NoTime} /\ ~Has(k)
         /\ FreeSlots(ts, k) # {}
         /\ Step(j, GoOn(then), table, SetTimer(ts, k, rest, FALSE), FALSE)
      \/ /\ rest = NoTime /\ k = "action" /\ ~Has(k)
         /\ ScheduleActionTimeout(j, then, table, timers)
      \/ /\ rest # 0 /\ (Has(k) \/ (rest = NoTime /\ k # "action"))
         /\ Step(j, GoOn(then), table, timers, FALSE)

----------------------------------------------------------------------------
(* Calls that begin *)

DueTimers == {s \in Slot : timers[s].st = "live" /\ timers[s].rest = 0}

\* Bound: jobs are left for the timers that are due in this stage.
Spare(due) ==
  Cardinality({s \in due : timers[s].kind = KindOf(table.stage)})
    <= Cardinality({j \in Job : job[j].at = "idle"})

Starts(j) == job[j].at = "idle" /\ table.stage # "GONE"
               /\ (DueTimers # {} => Cardinality({i \in Job : job[i].at = "idle"}) > 1)

Locks(j)   == lock' = IF job'[j].at = "idle" THEN NoJob ELSE j
Unlocks(j) == lock' = IF job'[j].at = "idle" /\ lock = j THEN NoJob ELSE lock

\* handlePlayerAction and handlePlayerReady
Message(j) ==
  /\ Starts(j) /\ lock = NoJob
  /\ \E then \in {"act", "ready"} : EnsureRecovered(j, then)
  /\ Locks(j)
  /\ restarted' = FALSE
  /\ UNCHANGED <<saved, crashes>>

\* handleJoinRoom takes no lock.
JoinRoom(j) ==
  /\ Starts(j)
  /\ EnsureRecovered(j, "join")
  /\ restarted' = FALSE
  /\ UNCHANGED <<lock, saved, crashes>>

\* leaveCurrentRoom, up to its first write: the player folds if he is in the hand, and
\* whoever leaves last takes the room with him.  then: the write it has yet to make; no
\* timer follows "save".
LeaveCurrentRoom(j, then) ==
  LET gone == [Idle EXCEPT !.at = "left", !.then = then]
  IN  \/ \E tb \in {table, [table EXCEPT !.stage = "GONE"]} : Step(j, gone, tb, timers, FALSE)
      \/ /\ table.stage = "ACTION" /\ table.left > 1
         /\ \E live \in BOOLEAN :
              Step(j, gone, [table EXCEPT !.left = @ - 1, !.live = live, !.ends.action = NoTime],
                   timers, FALSE)
      \/ /\ table.stage = "ACTION"
         /\ \E tb \in Moves(table) :
              Step(j, [gone EXCEPT !.next = tb.stage],
                   [tb EXCEPT !.posted = @ \/ then = "save", !.stalled = then = "save" /\ table.stalled],
                   timers, TRUE)

\* handleLeaveRoom and the end of a disconnect grace period
LeaveRoom(j) ==
  /\ Starts(j) /\ lock = NoJob
  /\ LeaveCurrentRoom(j, "leaving")
  /\ Locks(j)
  /\ UNCHANGED <<saved, crashes, restarted>>

\* POST /tables/me/leave-room takes no lock, and nothing is scheduled after it.
LeaveByPost(j) ==
  /\ Starts(j)
  /\ LeaveCurrentRoom(j, "save")
  /\ UNCHANGED <<lock, saved, crashes, restarted>>

Fired(s) == [timers EXCEPT ![s] = IF @.mapped THEN [@ EXCEPT !.st = "dead"] ELSE Free]

\* The callback of setTimeout.
Fire(j, s) ==
  /\ s \in DueTimers /\ job[j].at = "idle"
  /\ timers[s].kind = KindOf(table.stage)
  /\ Finalize(timers[s].kind, j, "idle", Fired(s))
  /\ UNCHANGED <<lock, saved, crashes, restarted>>

\* The stage is another one by now.
FireInVain(s) ==
  /\ s \in DueTimers
  /\ timers[s].kind # KindOf(table.stage)
  /\ timers' = DeleteEntry(Fired(s), timers[s].kind)
  /\ UNCHANGED <<table, job, lock, saved, crashes, restarted, recorded, twice>>

Later(tb) ==
  [tb EXCEPT !.ends = [k \in Kind |-> IF tb.ends[k] \in {0, NoTime} THEN tb.ends[k] ELSE tb.ends[k] - 1]]

Tick ==
  /\ DueTimers = {} /\ \A j \in Job : ~job[j].aged
  /\ Spare({s \in Slot : timers[s].st = "live" /\ timers[s].rest = 1})
  /\ Later(table) # table \/ \E s \in Slot : timers[s].st = "live"
  /\ table' = Later(table) /\ saved' = Later(saved)
  /\ timers' = [s \in Slot |-> IF timers[s].st = "live" THEN [timers[s] EXCEPT !.rest = @ - 1]
                               ELSE timers[s]]
  /\ job' = [j \in Job |-> [job[j] EXCEPT !.aged = @ \/ job[j].at # "idle", !.snap = Later(@)]]
  /\ UNCHANGED <<lock, crashes, restarted, recorded, twice>>

----------------------------------------------------------------------------
(* Calls that go on *)

Continues(j) == Unlocks(j) /\ UNCHANGED <<crashes, restarted>>

\* handlePlayerAction: processAction, which asks for the turn and not for the
\* stage.  A straddle leaves the countdown alone.
Act(j) ==
  /\ job[j].at = "act"
  /\ \/ Step(j, Idle, table, timers, FALSE)
     \/ /\ table.stage = "ACTION"
        /\ \E tb \in Moves(table) : Step(j, Writing("acted", "idle", tb.stage, tb), tb, timers, TRUE)
     \/ /\ table.stage = "ACTION" /\ table.left > 1
        /\ \E live \in BOOLEAN :
             LET tb == [table EXCEPT !.left = @ - 1, !.live = live, !.stalled = FALSE]
             IN  Step(j, Writing("acted", "idle", "ACTION", tb), tb, timers, TRUE)
     \/ /\ table.stage = "SETTLEMENT" /\ table.left > 0
        /\ LET tb == [table EXCEPT !.left = @ - 1]
           IN  Step(j, Writing("acted", "idle", "SETTLEMENT", tb), tb, timers, FALSE)
  /\ Continues(j) /\ UNCHANGED saved

\* handlePlayerReady: setPlayerReady, and what follows from it
Ready(j) ==
  /\ job[j].at = "ready"
  /\ \/ Step(j, Writing("save", "idle", "WAITING", table), table, timers, FALSE)
     \/ /\ table.stage = "WAITING" /\ table.ends.ready = NoTime
        /\ \/ \E live \in BOOLEAN :
                Step(j, [Idle EXCEPT !.at = "readied"], StartHand(live), timers, TRUE)
           \/ ScheduleAutoStart(j, "store", SoloTicks, table, timers)
  /\ Continues(j) /\ UNCHANGED saved

\* The balances have been written.
Readied(j) ==
  /\ job[j].at = "readied"
  /\ IF table.stage = "ACTION" THEN ScheduleActionTimeout(j, "store", table, timers)
     ELSE Step(j, [Idle EXCEPT !.at = "store"], table, timers, FALSE)
  /\ Continues(j) /\ UNCHANGED saved

\* handleJoinRoom: addPlayer; the newcomer may take a seat that has the turn.
Join(j) ==
  /\ job[j].at = "join"
  /\ \E live \in {table.live, table.stage = "ACTION"} :
       Step(j, [Idle EXCEPT !.at = "store"], [table EXCEPT !.live = live], timers, FALSE)
  /\ Continues(j) /\ UNCHANGED saved

Store(j) ==
  /\ job[j].at = "store"
  /\ Step(j, Writing("save", "idle", "WAITING", table), table, timers, FALSE)
  /\ Continues(j) /\ UNCHANGED saved

Saved(j) ==
  /\ job[j].at = "save"
  /\ Step(j, GoOn(job[j].then), table, timers, FALSE)
  /\ Continues(j) /\ saved' = job[j].snap

\* handlePlayerAction looks at the stage after its writes, finalizeActionTimeout
\* at the one it had before them.
Acted(j) ==
  LET next == IF job[j].at = "acted" THEN table.stage ELSE job[j].next
      then == job[j].then
  IN  /\ job[j].at \in {"acted", "timedOut"}
      /\ \/ next = "SETTLEMENT" /\ SchedulePostHandFlow(j, then, table, timers)
         \/ next = "ACTION" /\ ScheduleActionTimeout(j, then, table, timers)
         \/ next \notin {"SETTLEMENT", "ACTION"} /\ Step(j, GoOn(then), table, timers, FALSE)
      /\ Continues(j) /\ saved' = job[j].snap

\* leaveCurrentRoom: the stack is in the wallet again.
Left(j) ==
  /\ job[j].at = "left"
  /\ Step(j, Writing(job[j].then, "idle", job[j].next, table), table, timers, FALSE)
  /\ Continues(j) /\ UNCHANGED saved

Leaving(j) ==
  /\ job[j].at = "leaving"
  /\ \/ table.stage = "GONE" /\ Step(j, Idle, table, ClearRoundTimers(timers), FALSE)
     \/ /\ table.stage # "GONE" /\ job[j].next = "SETTLEMENT"
        /\ SchedulePostHandFlow(j, "idle", table, timers)
     \/ /\ table.stage = "ACTION" /\ job[j].next # "SETTLEMENT"
        /\ ScheduleActionTimeout(j, "idle", table, timers)
     \/ /\ table.stage \notin {"GONE", "ACTION"} /\ job[j].next # "SETTLEMENT"
        /\ Step(j, Idle, table, timers, FALSE)
  /\ Continues(j) /\ saved' = job[j].snap

\* finalizeReadyCountdown, after the balances
Counted(j) ==
  /\ job[j].at = "counted"
  /\ IF table.stage = "ACTION" THEN ScheduleActionTimeout(j, job[j].then, table, timers)
     ELSE Step(j, Writing("save", job[j].then, "WAITING", table), table, timers, FALSE)
  /\ Continues(j) /\ UNCHANGED saved

\* Mutant: the table is written before it is reset.
RecordedUnreset(j) ==
  /\ job[j].at = "record"
  /\ Step(j, Writing("reset", job[j].then, "WAITING", table), table, timers, FALSE)
  /\ Continues(j) /\ UNCHANGED saved

\* finalizeSettlement: resetToWaiting, whatever the stage is by now
Recorded(j) ==
  /\ job[j].at = "record"
  /\ Step(j, Writing("reset", job[j].then, "WAITING", NewTable), NewTable, timers, FALSE)
  /\ Continues(j) /\ UNCHANGED saved

WasReset(j) ==
  /\ job[j].at = "reset"
  /\ ScheduleAutoStart(j, job[j].then, ReadyTicks, table, timers)
  /\ Continues(j) /\ saved' = job[j].snap

\* schedule...: the write is done, the timer is set.
Arm(j) ==
  LET nj == job[j]
  IN  /\ nj.at = "arm"
      /\ FreeSlots(timers, nj.kind) # {}
      /\ Step(j, GoOn(nj.then), table, SetTimer(timers, nj.kind, nj.rest, nj.late), FALSE)
      /\ Continues(j) /\ saved' = nj.snap

\* The room is gone: the call goes on with a Table nobody reaches any more.
Abandon(j) ==
  /\ table.stage = "GONE" /\ job[j].at \notin {"idle", "left", "leaving"}
  /\ Step(j, Idle, table, timers, FALSE)
  /\ Continues(j) /\ UNCHANGED saved

\* A timer that is due fires before the database answers another call.
DueFirst(j) == DueTimers = {} \/ job[j].at \in {"act", "ready", "join"}

GoesOn(j) ==
  /\ DueFirst(j)
  /\ IF table.stage = "GONE" /\ job[j].at \notin {"left", "leaving"} THEN Abandon(j)
     ELSE \/ Act(j) \/ Ready(j) \/ Readied(j) \/ Join(j) \/ Store(j) \/ Saved(j) \/ Acted(j)
          \/ Left(j) \/ Leaving(j) \/ Counted(j) \/ Recorded(j) \/ WasReset(j) \/ Arm(j)

\* The server restarts; getTable restores the table from its snapshot.
Crash ==
  /\ crashes < MaxCrashes
  /\ crashes' = crashes + 1
  /\ table' = saved
  /\ timers' = [s \in Slot |-> Free]
  /\ job' = [j \in Job |-> Idle]
  /\ lock' = NoJob
  /\ restarted' = TRUE
  /\ UNCHANGED <<saved, recorded>> /\ twice' = FALSE

Next ==
  \/ \E j \in Job : Message(j) \/ JoinRoom(j) \/ LeaveRoom(j) \/ LeaveByPost(j) \/ GoesOn(j)
  \/ \E s \in Slot : FireInVain(s) \/ \E j \in Job : Fire(j, s)
  \/ Tick
  \/ Crash

Spec == Init /\ [][Next]_vars

\* The database answers, time passes and timers that are due fire.  Nothing is assumed of
\* the clients: a socket gives up after ten attempts to reconnect.
FairSpec ==
  /\ Spec
  /\ WF_vars(\E j \in Job : GoesOn(j))
  /\ SF_vars(Tick)
  /\ SF_vars(\E s \in Slot : FireInVain(s) \/ \E j \in Job : Fire(j, s))

----------------------------------------------------------------------------
(* Properties *)

Quiet == \A j \in Job : job[j].at = "idle"

\* A call at c may have moved the turn, and has yet to set its timer.
Turning(c) ==
  c.at \in {"acted", "timedOut", "left", "leaving", "counted", "readied"} /\ c.then # "save"

Runs(k) == \E s \in Slot : timers[s].st = "live" /\ timers[s].kind = k

\* A call has begun a countdown of the last hand in the middle of this one:
\* finalizeActionTimeout and leaveCurrentRoom go by the stage before their writes, and
\* finalizeSettlement asks for none.
Crossed ==
  table.stage = "ACTION" /\ \E k \in Kind \ {"action"} : table.ends[k] # NoTime

\* A hand that ends because a player leaves by POST is settled by nobody.
Abandoned == table.stage = "SETTLEMENT" /\ table.posted

\* When no call is in progress, the deadline that clients are shown has a live
\* timer that will act on it; and unless the server has been restarted, every
\* hand and every settlement has one, but for the settlements that POST leave-room
\* abandons.  (A turn without a timeout action is left out: see HandEnds in
\* PokerTableClaims.)
FlowAlive ==
  Quiet /\ ~restarted /\ ~table.stalled /\ ~Abandoned /\ ~Crossed /\ table.stage # "GONE" =>
    LET k == KindOf(table.stage)
    IN  table.ends[k] # NoTime \/ (crashes = 0 /\ (table.live \/ table.stage = "SETTLEMENT"))
          => Runs(k)

\* The settlement of a hand is recorded again only while another call is
\* recording it, or after a restart; and resetToWaiting, which comes after the
\* await, hits a hand in progress only after such an overlap.
SettledOnce ==
  [][\A j \in Job :
       /\ job'[j].at = "record" /\ job[j].at # "record" /\ recorded > 0
            => crashes > 0 \/ \E i \in Job \ {j} : job[i].at = "record"
       /\ job[j].at = "record" /\ job'[j].at = "reset" /\ ~twice
            => table.stage = "SETTLEMENT"]_vars

\* A timeout acts on a turn its timer was not armed for only while the call that moved
\* the turn has not yet cleared the timer, or when it was moved by POST leave-room, which
\* never does; when calls that armed timers at the same time have left one that is not in
\* the map, or once the flow has been led astray.
LateTimeouts ==
  [][\A s \in Slot :
       LET overtaken == /\ timers[s].st = "live" /\ timers[s].late /\ timers'[s].st = "free"
                        /\ table'.left < table.left /\ crashes' = crashes
       IN  overtaken =>
             \/ \E t \in Slot : timers[t].st = "live" /\ timers[t].kind = "action" /\ ~timers[t].mapped
             \/ \E j \in Job : Turning(job[j])
             \/ table.posted \/ table.stalled \/ Crossed]_vars

\* A settlement ends, unless POST leave-room has abandoned it.  After a restart it does
\* once anybody has come back, if its deadline had been saved; nothing restarts a
\* settlement without one.
Settling == table.stage = "SETTLEMENT" /\ ~restarted
Undated  == table.ends.settlement = NoTime /\ (crashes > 0 \/ table.posted)
SettlementEnds == (Settling /\ ~Undated) ~> (~Settling \/ Undated)

\* apps/docs/content/room-config.mdx:85: after a restart a hand goes on from
\* its snapshot, with its timers.  So its settlement ends, once a player is back.
RestartResumesSettlement == (Settling /\ ~table.posted) ~> (~Settling \/ table.posted)
=============================================================================
